# Warnet: specifications and proofs

Warnet keeps one Diablo II game server, war.pianka.io, moving from one AWS
region to another every two hours. This directory holds TLA+ models of the
programs that do it, TLC configurations that check them on small instances,
and TLAPS proofs of their safety properties for every value of their
constants.

1. [The system](#1-the-system)
2. [Modules](#2-modules)
3. [What is checked](#3-what-is-checked)
4. [Bounds](#4-bounds)
5. [Fairness](#5-fairness)
6. [What is proved](#6-what-is-proved)
7. [Findings](#7-findings)
8. [What is not modelled](#8-what-is-not-modelled)
9. [Plan](#9-plan)

Paths and line numbers below are those of `src/`. To repeat a run:
`tlc -workers 2 -config rot_overlap.cfg MCRotation`; to repeat a proof:
`tlapm RotationProofs.tla`.

## 1. The system

| Component | Code | State it keeps | Operations |
|---|---|---|---|
| Orchestrator | `orchestrator/lambda_function.py`, limit and schedule in `terraform/lambda.tf` | none of its own but the locals of one invocation; SSM parameter `last_used_region`; EC2 instances; the player ports of the security groups; the A record; the Discord channel | `lambda_handler`, every two hours |
| Agent | `agent/agent.py`, `agent/warnet.py`, `ansible/resources/agent.service` | `init6.conf`, the loaded nftables rules, `discord_loop`, the bot's connection | start, `POST /update-location`, `POST /d2_activity` |
| Certificate script | `ansible/resources/cert-renew.sh`, cron jobs of `ansible/nginx.yaml` | the installed chain and key, acme.sh's directory, two S3 objects shared by all instances, what nginx has loaded | one script run at boot (after 90 s) and one a day |
| init6 | `ansible/resources/init6.service`, `init6.conf` | the configuration it read when it started | start |
| Firewall | `ansible/iptables.yaml` | saved and loaded rules | loaded at boot, flushed and loaded by the agent |
| WarCast | binary archive, `ansible/warnet.yaml` | - | posts to the agent's `/d2_activity` |
| Discord client | `send_message` and what it runs of `orchestrator/discord/`, `orchestrator/aiohttp/` | the connection, the session, the cache of channels, the tasks of the event loop | one announcement per rotation |
| Image build | `packer/warnet.pkr.hcl`, the playbooks of `ansible/` | the image | four plays in a row, run by hand |
| Infrastructure | `terraform/` | static resources | run by hand |
| Libraries | the other directories of `orchestrator/` | - | vendored dependencies |

How they interact:

- EventBridge invokes the orchestrator asynchronously. It draws a region other
  than the last one, closes the ports of players there, launches an instance,
  polls it until it runs, tells its agent where it is, terminates every other
  game server in every region, moves the DNS record, opens port 6112, posts to
  Discord and opens port 443.
- The instance boots with a firewall that drops AWS's addresses. The agent,
  finding the placeholder in `init6.conf`, flushes the rules so that the
  orchestrator's request can come in. The request fills the placeholder in,
  loads the rules again and reboots the machine, and init6 starts with the new
  text.
- The announcement is made by a Discord client that logs in, connects to the
  gateway, waits until the guilds have come in, posts in `on_ready` and closes
  itself; until then it reconnects whatever happens to its connection.
- Packer starts the agent on the machine the image is made from, minutes
  before it loads and saves the firewall which every start of the agent opens.
- Meanwhile cron runs the certificate script, which takes a newer certificate
  from S3 or, if the installed one is due, has one issued and uploads it for
  the instances to come.

What makes it hard: nothing serialises invocations of the orchestrator, script
runs on two instances, or requests to the agent; every external call can fail
and most failures are swallowed or only logged, so repair is left to the next
run; effects are made one at a time, in an order that matters (record the
region, then use it; terminate, then rename; empty the file, then write it;
chain, then key); the agent's reboot comes at about the time the boot job
runs; waits are unlimited, or sum to almost Lambda's limit. `PROJECT.json`
lists each such place with its line and the properties that cover it.

What makes each component correct:

- *Orchestrator.* Old servers are retired before the name moves and the name
  moves only to a server that is up; a run that gets to the end repairs all
  that earlier ones left behind; players are kept out of a new server until it
  has the name and are never cut off from the one they are on; Discord hears
  only of a server that can be reached; after any failure players are served
  again.
- *Agent.* The machine is open to AWS only until it is named, never again; it
  reboots and answers with success only when the name is on disk and the
  firewall closed; what players see never shows the placeholder; no update
  hangs; the image it is built into has its firewall.
- *Discord client.* The players read of a move once; a lost connection does
  not lose the message; when `send_message` returns nothing is left open; the
  client ends.
- *Time.* The waits are long enough for the machine and, together, short
  enough for Lambda.
- *Certificate script.* A newer certificate is never replaced by an older one,
  on disk or in S3; the two files belong together; status 0 means nginx serves
  what is installed; a certificate is requested only when one is needed.

## 2. Modules

| Module | Contents |
|---|---|
| `Rotation` | the orchestrator and the cloud it acts on |
| `RotationProperties` | properties of `Rotation`, and the refinement of `Service` |
| `Agent` | one machine: the agent, its file and firewall, systemd, init6 |
| `AgentProperties` | properties of `Agent`, and the refinement of `Naming` |
| `CertRenew` | the script on several instances and the S3 cache they share |
| `CertRenewProperties` | properties of `CertRenew`, and the refinement of `CertStore` |
| `DiscordNotify` | one announcement: `send_message` and the Discord client |
| `DiscordProperties` | properties of `DiscordNotify`, and the refinement of `Announcement` |
| `RotationClock` | one run and the machine it launches, on one clock |
| `RotationClockProperties` | properties of `RotationClock` |
| `Service`, `Naming`, `CertStore`, `Announcement` | abstract: what the rotation, the agent, the certificate script and `send_message` promise |
| `MCRotation`, `MCAgent`, `MCCertRenew`, `MCDiscord`, `MCRotationClock` | the TLC instances, with symmetry sets where they are used |
| `RotationProofs`, `AgentProofs`, `CertRenewProofs`, `CertStoreProofs`, `DiscordProofs`, `RotationClockProofs` | theorems |

`Rotation` is the system's skeleton. Three of its actions stand for what other
modules spell out: `Announce` for `DiscordNotify`, `PostLocation` for `Agent`,
the order of the waits for `RotationClock`; the machines whose certificates
`CertRenew` follows come and go as `Rotation` launches and retires them.

In the modules of the system a definition under the comment "A
variant with a bug" changes the one it precedes as a slip in the code would.
They are no part of the specification; `PROJECT.json` says which property each
of them breaks.

### Rotation

The locals of `lambda_handler` are functions of the invocation, so that
invocations can overlap. An action is one external call with the code around
it, and `pc` names the call that comes next:

| `pc` | Action | Lines of `lambda_function.py` |
|---|---|---|
| `choose` | `ChooseRegion` | 48-50, 220-237, 333-339 |
| `record` | `RecordRegion` | 51, 342-349 |
| `lookup` | `LookUp` | 53-75, 274-287 |
| `revoke`, `revoke443` | `RevokeBncs`, `RevokeWss` | 76, 352-370 |
| `launch` | `Launch`, `LaunchLost` | 78-97, 290-316 |
| `await`, `address` | `AwaitRunning`, `ReadAddress` | 99-103, 319-330 |
| `post` | `PostLocation` | 105-111 |
| `sweep` | `Survey`, `Terminate`, `Upsert` | 113-149 |
| `allow`, `announce`, `allow443` | `AllowBncs`, `Announce`, `AllowWss` | 151-161, 172-217, 373-400 |
| any | `Raise`, `Kill` | 163-169, and Lambda's time limit |

An instance id stands for its address too: the record and the message carry
the id. `located` is what the orchestrator believes it told the agents. The
weights of the region draw only change likelihoods and are left out. `Survey`
takes the regions in any order, the code in one order. EC2 may forget a
terminated instance at any time, and its id may then be used again once
nothing refers to it; this keeps the id space finite. `TerraformApply` puts
back the rules that terraform declares (`terraform/vpc/main.tf`).

Where the code swallows an exception the action has a disjunct for the
failure, and the run goes on: the security-group calls, the POST (whose answer
is not read either), the announcement. Elsewhere `Raise` ends the run with
nothing undone. `revoke_port_6112` revokes 6112 first and, when that raises
(also because the rule is not there), leaves 443 alone.

### What the components promise

Four modules say what a component is to the others, without its steps. Each is
checked by TLC as a property of the component's run, through an `INSTANCE` in
the component's property module, and proved by TLAPS.

- `Service`: a server comes up, a server is retired while another stays, the
  name moves to a server that is up. `Rotation` implements it with
  `up <- Servers`, `named <- dns`, as long as invocations do not overlap. It
  says that the last server is never retired and the name never given to a
  server that is not up; it does not say that the server with the name stays
  up, for the sweep terminates it before the record is rewritten (see the
  findings).
- `Naming`: a request after which the machine goes down once and comes back
  with its place and its gate closed. `Agent` implements it: what the many
  steps of `update-location` do to file and firewall counts from the moment
  the machine is told to reboot (`Ordered`), so that the request takes effect
  in one step. `sound <- Calm` says that updates have not overlapped and the
  agent has not been stopped; when it is false the module still promises that
  a closed gate stays closed and that no placeholder is shown.
- `CertStore`: a certificate is one thing, in the bucket and on every disk,
  replaced by nothing but the newest, and nginx serves what is on its disk.
  `CertRenew` writes every certificate in two steps, and `AsOne` maps a pair
  that is being written to its key, which comes last; a pair that is parted is
  no certificate of `CertStore` at all. `intact` says that runs do not overlap
  and none was cut off; with it the promise ends.
- `Announcement`: the players are told once, everything is closed before the
  call returns, and it returns without a message only for a reason. In
  `DiscordNotify` what repeats a message is a second session or a busy answer,
  and what costs it a failed log-in, a refusal, a request that fails or is
  answered busy (`Losses`), a first connection that is never made
  (`NeverConnected`), or a channel that is not found. A connection that is lost
  or cannot be made again and a session that is invalidated are no excuse.

### Agent

The model begins with the build of the image. `build` is the play that Packer
is at: `AgentPlay` enables the agent's service (`ansible/agent.yaml`),
`NginxPlay` takes minutes, in which the agent starts and perhaps ends,
`Block` makes table and chain with the first thousand rules, `BlockMore` adds
the others, which fails once the chain is gone, `Save` writes `nftables.conf`
(`saved`), and `Bake` makes the image and boots a machine from it. The agent
runs through all of this and opens the firewall whenever it starts, as it does
on a machine from the image. `NginxPlay` is over only after systemd has
started the agent and the agent has got through its start or ended; this is
the one assumption about time.

`main` is the main thread (read the configuration, flush, start Flask's
thread, take the event loop, run the bot), `pc` the thread of each request.
`POST /update-location` is `ReadFile`, `Open` (which empties the file),
`Write`, `Restore` (nft), `Reboot`, `Reply`; `POST /d2_activity` is `Call`
(hand the coroutine to `discord_loop`, which raises while there is none) and
`Post` (wait for the bot, then send). `Main` is what the main thread does by itself,
`Discord` what becomes of the bot once it has begun to log in: it is let in
(`BotReady`), or an exception ends it (`BotEnds`), or neither ever happens,
for discord.py tries to connect without end. Flask's threads are daemons: when the
bot raises, the main thread ends and they end where they are (`ProcessEnds`),
and systemd starts the agent again. `Boot` is the machine going down and
coming up: the file keeps what was written, the saved rules are loaded,
everything else is new.

`init6.conf` is one of three texts: with the placeholder, named, empty. All
updates of one machine carry the same place and address, so that one "named"
is enough. The 8387 rules are one bit, `rules`: they drop AWS's addresses, and
so an update arrives only while they are not loaded. Requests with missing
fields get a 400, change nothing and are left out. systemd's start limit is
`MaxStarts`, counted from the boot.

### CertRenew

Certificates are numbered in the order of issue; a file carries the number of
its certificate, nginx starts from a chain and a key with the same number, and
`due` is the first certificate that is not within `RENEW_DAYS` of its expiry.
The number is the chain's date, all that the script looks at.

| `pc` | Lines of `cert-renew.sh` |
|---|---|
| `fetch`, `fetchkey` | 41-42, the two downloads, short-circuited by `&&` |
| `compare` | 43, the dates of the two chains, the newer wins |
| `putchain`, `putkey`, `reload` | 44-46 and `reload_nginx` |
| `check` | 51-56, exit 0 unless due |
| `issue` | 58-62 |
| `newchain`, `newkey`, `newreload` | 64-67 |
| `upchain`, `upkey` | 69-75, `upload` (27-35) with its three attempts |

`ReloadNginx` with files that do not belong together is nondeterministic: the
reload fails and the restart that follows leaves nginx down, or nginx goes on
with what it has. An upload that fails may have stored the object. The
script's local commands (mktemp, install, openssl) do not fail in the model.
`Launch`, `Reboot` and `Terminate` are the instance's life; a reboot happens
once per instance (the agent's). An instance is terminated only after its boot
job has started: it lives for two hours and the job starts after 90 s.

The agent loads the firewall and then reboots (`agent.py:65-69`), and the rules
of `iptables.yaml` drop what S3 and Route 53 answer for the rest of the
machine's life. `Reaches` is the guard that says so: a job of a rebooted
instance finds nothing to download and issues nothing, by no fault of anybody.
So only the job of the first boot, cut off by the reboot or over before it, can
bring an instance a certificate or upload one. Loading the rules and the reboot
are one action: they are seconds apart, less than any time-out of what the
script calls, so that a job cut off in between is one cut off by the reboot. A
machine whose `reboot` command fails after the rules were loaded is not told
apart from one that meets the faults "download" and "issue".

### DiscordNotify

One thread runs the event loop, so that an action is what happens between two
awaits. `main` is the task of `send_message`: `Login`, then the loop of
`Client.connect` (`discord/client.py:661-727`), in which `ws`, `stage` and
`session` say what the connection is and what it was opened for; `resume` is
`ws_params["resume"]`. `task[k]` is the `_delay_ready` that the `k`-th READY
creates (`discord/state.py:577-648`), `handler[k]` the `on_ready` it
dispatches, `closing` the task that `Client.close` creates once and everybody
waits for.

| Action | Lines |
|---|---|
| `Login`, `Return` | `lambda_function.py:207-217`, `discord/client.py:588-629` |
| `Connect`, `ConnectFails`, `ConnectClosed`, `BackoffEnds`, `PollClosed` | `discord/client.py:661-727`, `discord/gateway.py:346-408` |
| `Ready`, `Resumed`, `GuildCreate` | `discord/gateway.py:559-575`, `discord/state.py:625-651`, `1265-1294` |
| `Invalidate`, `Drop`, `Refuse` | `discord/gateway.py:516-554`, `612-648`, `discord/client.py:705-727` |
| `ReadyTimeout`, `ReadyCancelled` | `discord/state.py:577-623` |
| `Lookup`, `Request`, `Sent`, `Busy`, `SendFails`, `HandlerEnds` | `lambda_function.py:177-205`, `discord/http.py:568-775` |
| `CloseWs`, `CloseHttp` | `discord/client.py:729-751`, `aiohttp/client_ws.py:261-308`, `aiohttp/connector.py:442-485` |

What the model keeps of the library because something depends on it: a second
READY cancels the task that waits, but the cancelled task resets
`_ready_task` when it ends, after its successor was put there
(`discord/state.py:623`); READY clears the cache; `on_ready` comes two seconds
after the last guild, whether or not the channel has come in; a connection
that fails before there was any raises `AttributeError`, since `client.ws` is
unset (`discord/client.py:671`, `723`); a request is repeated after a 5xx
answer, stored or not; the rate limit lets the second handler's request wait
for the answer to the first; a request that is cut off when the client closes
may be stored afterwards (`Store`). Heartbeats appear only as the connection
they can lose. Guilds are chunked only with the members intent, which
`send_message` does not ask for.

### RotationClock

One invocation and the machine it launches; `wait` and `timer` are what is
left of the handler's step and of the machine's boot, in ticks of ten seconds,
and `Tick` lets time pass when nothing is due. The constants are the sets of
times that calls, EC2, the boot, the reboot and the certificate job may take;
what the code fixes is defined: the limit of 90 ticks, the 30 polls, the sleeps
of 12, 18, 6 and 12 ticks, cron's sleep of 9. `requests.post`, geocoding and
the Discord client have no time-out: the steps in `Endless` last until Lambda
stops the run. `took` and `again` keep how long the two boots take, so that
properties can say what they depend on. Nothing fails here but what runs out
of time.

## 3. What is checked

Every run checks for deadlock except those of `Agent`, `DiscordNotify` and
`RotationClock`, which do come to rest.

| Run | Question | Distinct states |
|---|---|---|
| `rot_solo` | One invocation at a time, two faults of any of the eight kinds. A finished run has repaired what failed ones left; the new server's ports are closed until it has the name; the announcement is true; the name moves and no revocation cuts players off as long as runs have ended normally; `Service` is implemented. | 453,304 |
| `rot_overlap` | Two invocations that overlap. Each retires all the servers it found running before it moves the name. | 1,664,586 |
| `rot_recover` | Fair, one fault of any of the eight kinds. Players are served again and again, every invocation ends. | 374,382 |
| `rot_outage` | Violation: `readme.md:198`, see the findings. | - |
| `cert_serial` | Two instances, both jobs of each, runs that do not overlap, one fault of any kind. Neither disk nor bucket goes back to an older chain. As long as no upload failed and no job was cut off, `CertStore` is implemented, status 0 means nginx serves what is installed, and a certificate is issued only when the newest is due or could not be downloaded. | 365,272 |
| `cert_heals` | Fair, one fault of any kind, three certificates, instances that reach nobody once they are rebooted. If boot jobs are over before the agent's reboot again and again, a pair that was parted is whole again in the end, and a fresh certificate is served again and again. | 129,957 |
| `cert_upload_fails` | Violation: `readme.md:273`. | - |
| `cert_reissue` | Violation: `readme.md:276`. | - |
| `agent` | Fair, from the image build on, updates that may overlap, a bot that may raise, two faults of six kinds. The image has its firewall; it stays closed once the placeholder is gone; players never see the placeholder after the reboot; success only with the name on disk and the firewall closed; `Naming` is implemented; a machine rebooted with its name keeps it; no update waits forever, and a message of WarCast only for a bot that is never let in. | 404,680 |
| `discord` | Fair, three faults of seven kinds, two tries per request. `Announcement` is implemented; one message at most without repeated requests and second sessions; reconnecting ends only for a reason; `on_ready` leads to the end of the run; READY leads to a message or to the line that says why not. | 369,859 |
| `clock` | Calls of 40 s, boots around the limits the waits are made for. The request finds the agent, the server is up when its port opens, Lambda stops only a run that waits for an answer; the certificate job reaches S3 only before the machine is named, and does just when the boot is quick enough. | 183,827 |
| `clock_sync` | Violation: `readme.md:273` again. | - |

`Solo`, `Serial` and `OneJobEach` in a property say that invocations or jobs do
not overlap, by the constants of the instance; `Without(F)` that no fault of
the kinds `F` has happened *so far*, and `Calm` that no update has overlapped
another and the agent has not been stopped so far. They are the conditions of
each guarantee and are part of the state, so that one run meets each fault
before and after the property begins to depend on it. None can be dropped:
without any one of them, or with any one of the faults that `Without`
excludes, TLC finds a counterexample to each property that names it. For
example `OkMeansNamed` needs updates that do not overlap, because a second one
can read the file while it is empty, and an agent that is not stopped, because
the process may end while it is. `ImageGuarded` needs an agent that is not
started over during the build; a build that loaded the firewall before it
started the agent would not depend on it.

`CacheHeals` and `FreshServed` have a premise on the whole behaviour,
`JobsGetThrough`: again and again an instance's boot job is over before the
agent reboots it. Without it both are violated: when every job comes too late
nobody uploads anything. The code does not bring it about; `SyncsWhenQuick` in
`RotationClock` says which machines do. It is true of some behaviours and false
of others: the mutants of the two properties break them with the premise met.

## 4. Bounds

- *Faults.* `MaxFaults` bounds the number of faults in a behaviour (0 to 3);
  in every run faults can come at any step and of any of the kinds the cfg
  lists. Two in `rot_solo` are enough for a fault in one run and another in
  the run that repairs it; what `cert_serial` promises of the bucket and of
  status 0 ends with the first upload that fails or job that is cut off, so
  that one fault is enough. The proofs are for any number.
- *Rotation.* Two regions are the fewest with a choice to exclude. Four ids
  for servers are more than are up at once: the old server, the new one, one
  lost by a failed call, and one being forgotten. One Windows box. Two
  invocations where they overlap.
- *Agent.* Two updates, which may overlap or follow each other, and one
  activity request; `MaxStarts` 3, so that the agent is started over after a
  stop both before and after the file was written, during the build as well as
  on the machine.
- *DiscordNotify.* Three faults, so that up to four sessions are asked for:
  the second cancels a waiting task, the third meets what the cancelled task
  left behind. Two tries of a request stand for the library's five.
- *RotationClock.* Times on both sides of each bound the properties name: a
  boot of 10 to 14 ticks against a sleep of 12 and one of 1 to 5 against what
  cron and its job leave of it (with 9 ticks before the job and 0 or 1 for it,
  the boot at which `Quick` ends and the one at which `Slow` begins are both
  among them), a reboot of 5 and 6
  against 6, of 23 and 24 against 24, a launch of 29 to 31 polls, calls of 4
  ticks, the longest with which the sum stays under the limit. `clock_sync`
  has boots of 30 s and more, which is what makes the difference there.
- *CertRenew.* Two instances (one that follows the other, or both at once),
  the two jobs of each. `MaxCerts` 2 or 3 beside the one in the image: an
  instance can miss a whole certificate. `Fault` lets the last certificate
  meet no fault, without which the bound, not the code, would stop the repair.
- `cert_reissue` looks only at instances that come one after the other, as
  rotations launch them (`InTurn`, a state constraint: an instance is launched
  once the one before has been rebooted). A constraint can only hide
  counterexamples, never make one.
- Symmetry is used in the runs without liveness properties only.

## 5. Fairness

No fault is fair, and neither is the arrival of a request.

- `Rotation`: weak fairness of `Begin` (the schedule ticks again) and of the
  handler (Lambda runs what it started; every call returns or raises), and of
  EC2's booting and forgetting. The choice between success and failure of a
  call is not fair: failures stop only because faults are bounded.
- `Agent`: the main thread and each request's thread go on when they can;
  systemd starts init6 (`Restart=on-failure`) and the agent
  (`Restart=always`); the machine that reboots comes up; a message handed to a
  bot that is ready is sent or fails, for aiohttp limits a request's time. What
  Discord does with the log-in is not fair: neither readiness nor an exception
  need ever come. The build is not fair either: it may fail or be left.
- `DiscordNotify`: the event loop runs what can run, sleeps and time-outs end,
  a connection is made or fails, Discord answers a request or the request
  fails. What the gateway sends is not fair: READY need never come, and then
  nothing ends the client but Lambda's limit.
- `CertRenew`: cron starts its jobs, the script goes on, the orchestrator
  keeps launching and terminating instances, and certificates age. Whether a
  job is over before its machine is rebooted is not fair; the two liveness
  properties name it as their premise (`JobsGetThrough`). The reboot itself is
  not fair: an instance whose request failed is never rebooted.

## 6. What is proved

tlapm proves every obligation of the six proof modules, for every value of
the constants that satisfies the module's named assumption. These say no more
than that the model values are distinct from each other, that there are two
regions at least, and that the fault sets are made of the kinds that exist.
The bounds of section 4 are parameters like the rest. Every invariant and
every action property of the passing runs is a theorem, and so are the four
refinements. The theorems that no run checks fall into three groups:

- what the documentation claims and the code keeps only under conditions
  (section 7): `NamesActive`, `FreshServe`, `OnlyFirstContact`,
  `QuickComesUpLatest` state the conditions;
- what repairs: `IssueRepairs`; and what is out of reach: `StaysPut`, `Spares`,
  `GatesApart`, `KeepsBehindFirewall`;
- what cannot go on for ever: `ComesToRest`, `NoRunGoesBack`, the part of
  `ReadyEnds` and `RunsEnd` that needs no fairness.

**Rotation.** `Inv` holds whatever overlaps. Its core is `Hunted`: a server
that an invocation found running, and that still runs, is in a region the
sweep has still to survey or on its list of victims. When both lists are empty
nothing is left of it: `PredecessorsRetired`. `Inherited` is needed for
induction, for an inherited server must not be the invocation's own nor come
up again. `SoloInv` adds what is true while one invocation runs at a time:
`FreshUp` (a server, once seen running, stays up), `NameMoved`, `PortsOpened`
and `Told` give `CompletedRunHeals` and `AnnounceCurrent`. `WssOnlyWithBncs`
is what `GateClosedUntilNamed` rests on: the revocation skips 443 when it does
not find 6112, so 443 must never be open alone at the start of any run, which
every earlier run has to guarantee. `Settled` says that `last_used_region` is
where the name stands, as long as every run ends normally, and gives
`MovesRegion` and `RevokeSparesLive`. `Implements` shows that every step of
`Rotation` is a step of `Service` or leaves its variables unchanged.
`NamesActive` adds to `SoloInv` that between sweeps the name stands
(`NameStands`), which takes runs that are neither stopped nor ended by a failed
call.

Of overlapping invocations `Retired` is not all that can be said. `Gates`
gives each region's ports into the hands of the one invocation that stands
there, and holds, like `GateClosedUntilNamed`, without failed security-group
calls, stopped runs and applies, as long as invocations stand in different
regions (`Apart`, a hypothesis on the whole behaviour in `GatesApart`, since
nothing in the code sees to it). `Spares`: no sweep, however many there are,
takes a Windows box or its own server. `NoRunGoesBack` is a ranking: a step of
the handler gets to a later `pc`, or in the sweep to fewer regions, or to fewer
victims in the region it is at; every step of anybody else leaves the three
alone. With finitely many regions and instances such an order has no infinite
descent, so that a run that does not end is one that waits.

**CertRenew.** Five invariants, each under stronger assumptions than the one
before. `Inv`: no file is newer than the newest certificate.
`DiskInv` (one job at a time per instance): what is about to be installed is
newer. `SerialInv` (runs do not overlap anywhere): a run that renews has the
newest certificate in hand. `WholeInv` (none is cut off): what is in hand
belongs together, and so does the bucket outside an upload. `NewestInv` (the
same assumptions): the newest certificate is in the bucket or being put there,
and a job about to issue has it installed and found it due, unless it could
not download it. `EmptyHanded` adds, while no download has failed, that a job
which checks without a downloaded pair found the bucket empty or is behind the
firewall: in the one case there is no newer certificate to miss, in the other
it cannot issue either, which together is `OnlyFirstContact`.

`StoresWhole` is the refinement of `CertStore`. Where `WholeInv` holds, a
parted pair is a pair being written, so that keys tell certificates
(`KeysTell`) and the steps that write a key are the steps of `CertStore`;
`NewestInv` says that what they write is the newest. `IssueRepairs` starts
from the other end: it assumes only that runs do not overlap and says what a
run that issues and uploads leaves behind, after any number of failed uploads
and runs cut off before. `Mended` follows that run from the key it installs to
the key it uploads. It is the safety half of `CacheHeals`.

`KeepsBehindFirewall` needs no assumption on runs or faults: a rebooted
instance keeps its pair, its issued certificate and what nginx serves as they
are, until it is terminated. Its invariant, `Walled`, says that a job behind
the firewall is never past the checks that lead to an installation.

**Agent.** `Inv`, with any overlap and restarts: the placeholder, once gone,
does not come back, the firewall is flushed only while it is there, no update
runs while the main thread decides, and a machine from the image has no rules
but the saved ones; it gives `FirewallKept` and `NamedAfterReboot`. `SerialInv`
holds until updates overlap or the agent is stopped: the file is empty only
under an update that is about to write, and once the machine is rebooting no
update is left to undo anything. A third invariant, of the build alone, follows
the agent's start through the plays and gives `ImageGuarded`. `Kept` is about a
machine that was rebooted with its rules: no update is at work on it and none
can come. It needs no `Calm`, and gives `StaysPut`, the safety half of
`UpdateSettles`: such a machine keeps firewall and file to the end, whatever
overlapped before. With `Back` (a machine rebooted while all was calm has its
name) it gives the refinement of `Naming`, `NamesInOneStep`.

**DiscordNotify.** `Inv` has a part for each actor. `Budget` counts sessions:
each IDENTIFY but the first is owed to a fault, which bounds `identifies` and
with it the arrays of tasks and handlers. `Dispatched` says that a session has
a handler only when its task is over, so that one session announces once;
`Once` follows a handler's request from the first try to what became of it;
together they give `NoRepeat`. `Closed` and `Reasons` say what must be true of
the connection and of the handlers once the client is closing, and give
`Persists`. `OneWaits` needs to know which task the state remembers. `Promise`
adds what the refinement of `Announcement` needs, `KeepsPromise`: a handler
writes no line before it is done and what Discord has stored has been read
(`Lines`), and a client is not closed before there is a message or an excuse
(`Excused`).

`ComesToRest` says that an announcement is finite, without any fairness.
`ClientLeft` counts what `send_message` can still do, faults first, for a fault
may send it back to the start; `CloseLeft` what is left of closing;
`SessionLeft` what is left of a session's task, handler and request. Every
step lowers one of them and raises none (`Spends`). What `ReadyEnds` says
beyond that, that a run which stops has stopped at its end, is left to TLC.

**RotationClock.** `Inv` relates two clocks: the handler's sleep and the
machine's boot that started together keep their difference, so that which of
the two ends first is settled by the constants (`Settling`, `Rebooting`,
`Syncing`). `InTime` adds up what the handler's steps have taken at most.
`SyncsWhenQuick` needs that a job which is not running on a machine that is up
and unnamed has been through; and for its other half how much time has passed, to a tick,
since a machine too slow for it began to boot (`Noticed`). `QuickComesUpLatest` puts it as the
documentation does.

Only model-checked: the liveness properties (`Recovers`, `RunsEnd`,
`CacheHeals`, `FreshServed`, `UpdateSettles`, `RequestsEnd`, `ReadyEnds`,
`Announces`), since there are no proof rules for fairness and `ENABLED` here,
and the counterexamples.

## 7. Findings

Four runs show the code doing other than its documentation says.

- `rot_outage`: `readme.md:198` says "Route53 DNS points to the active
  instance". One failed call after the sweep leaves the record naming a
  terminated server until the next run. Two invocations that overlap do it
  without any failed call (the constants of `rot_overlap` with this property).
  Without overlap, failed call and stopped run it is true between rotations
  (`NamesActive`).
- `cert_upload_fails`: `readme.md:273` says "fresh instances always come up
  with the latest cert". A failed second upload parts the bucket's chain and
  key; the script compares only the chains, installs both, ends with status 0,
  and nginx does not start. A reboot between the two installs parts them on
  one machine (the same cfg with `Faults = {"kill"}`). The next issue repairs
  it (`CacheHeals`, `IssueRepairs`). As long as neither happens and runs do not
  overlap, the claim is true of every instance whose job ended well
  (`FreshServe`).
- `cert_reissue`: `readme.md:276` says "only the first instance inside the
  renewal window ever contacts Let's Encrypt". In the run the first instance's
  boot job has issued a certificate when the agent reboots the machine
  (`agent.py:65-69`), before the upload (`cert-renew.sh:69-70`). The
  certificate is on that machine alone and cannot leave it any more; nothing is
  logged, for the script's alert comes only after a failed upload. The next
  rotation's instance finds the old chain in the bucket and issues again. Two
  instances that are both up and not yet rebooted, of overlapping invocations
  or when a request failed, do it without any job cut off (the same cfg with
  `Serial = FALSE` and without fault and constraint); an ordinary rotation has
  no such two, since the old server's firewall has been closed for two hours.
  Of runs that do not overlap, are not cut off and can upload and download, the
  claim is true (`OnlyFirstContact`).
- `clock_sync`: `readme.md:273` once more, and `cert-renew.sh:5-6` ("every
  fresh instance picks up the latest cert here"). cron's job starts 90 s after
  the boot, the agent's reboot comes 120 s after EC2 reports the machine as
  running. A machine that needs 30 s or more from there until cron is at work
  is rebooted before its job has started. The firewall is then closed for the
  rest of the machine's life, and its rules (`iptables.yaml:16-8446`) drop all
  of Amazon's addresses, those of S3 in us-east-2 among them: neither the boot
  job after the reboot nor the daily job reaches the bucket. `SyncsWhenQuick`
  and `QuickComesUpLatest` say how fast a machine has to boot for the claim to
  hold, and the former that on one slower than that by more than a tick of ten
  seconds it never does. The run depends
  on times the repository does not fix; the code waits for neither end.

Smaller things met on the way, all in the vendored library and visible in
`DiscordNotify`: `Client.connect` is documented to reconnect after an internet
failure (`discord/client.py:641-645`), which before the first connection it
cannot, as said above; its test for a reset connection, `errno in (54, 10054)`,
has the numbers of other systems than the one Lambda runs on, so that the
branch at 695-703 is never taken there and the attempt is made after a pause
instead.

## 8. What is not modelled

- *How long things take.* `RotationClock` has the code's waits; what EC2, the
  boot and a call need is left open. In `Rotation` Lambda's limit is a fault
  at any step, and in `CertRenew` the boot job and the reboot come in any order
  once the job has started.
- *One machine as a whole.* `Agent`, `CertRenew` and `RotationClock` each see
  the machine from their own side. That the closed firewall keeps S3 out is in
  `RotationClock` and, without times, in `CertRenew` (`Reaches`); how the request
  of `Agent` comes to close it is in `Agent` alone.
- *The image build* beyond what touches the firewall: packages, files and
  units are the initial state. The build can fail only at the rules.
- The bot's look-up of guild and channel, WarCast, init6 beyond reading its
  configuration, IAM and other static resources.
- *The vendored libraries* (147,000 of the 148,500 lines of Python in `src/`),
  but for the path an announcement takes. Most of it is never run by this
  system: discord.py's voice, commands, interactions and object classes,
  aiohttp's server, the tables of idna. What is run and left out (HTTP parsing,
  TLS, JSON, `requests`) appears by its failures, as the faults of the
  modules; its own correctness is the libraries' business, and modelling it
  would say nothing about this program. The lines that can be mapped to a
  definition are therefore a small share of the Python in the repository,
  while of the 550 lines written for it most are.

## 9. Plan

What would come next, in this order:

1. `Machine`: `Agent` and one instance of `CertRenew` on one host, sharing the
   reboot and the firewall, as a composition of the two modules instead of the
   one action `Reboot` that stands for the agent in `CertRenew` now.
2. `Fleet`: `Rotation` with `Naming` in place of `located` and `Announcement`
   in place of `announced`; that a server which has the name shows its place,
   or the POST failed.
3. Proofs: rankings like those of `ComesToRest` for a job of `CertRenew` and a
   request of `Agent`; what remains of `PredecessorsRetired` and
   `AnnounceCurrent` when one of two overlapping runs sweeps the other's
   server.
