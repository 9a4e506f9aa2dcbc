# Rotten Apple: a verification project

TLA+ models of rotten-apple (a Xen appliance written in Rust), the TLC runs
that check them, and TLAPS proofs about them. Paths below are relative to
`src/crates/` unless they say otherwise. `PROJECT.json` lists every run, mutant,
hazard and theorem, and maps each definition to the lines it stands for.

    tlc -workers 2 -config Engine.cfg MCEngine.tla      # model-check
    tlapm Engine_proofs.tla                             # check the proofs

## 1. The system

A host runs **orchestratord**, the daemon that owns libxl. Everything else is a
client of it, a part of the mesh that will one day drive it, or a tool that
installs it.

| part | state | operations | talks to |
|---|---|---|---|
| orchestratord, daemon (`lib.rs`, `transport.rs`, `dispatch.rs`) | shutdown flag, worker handles, sockets | accept, handshake, request loop, shutdown | clients by JSON lines over a socket; actor and engine by channels |
| orchestratord, actor (`actor.rs`, `oneshot.rs`) | the libxl context, a request queue | one libxl call per request, a one-shot reply | backend-xen |
| orchestratord, engine (`engine.rs`) | policy map (shared), cooldowns, availability flag | a tick per second: list, default, plan, balloon | the actor; the event bus |
| orchestratord, event bus (`engine.rs`, `broadcast`) | ring of 1024 events, next sequence number | send, drain_since | engine sends, `events.tail` drains |
| orchestratord, auth (`auth.rs`) | nonce and last seq per connection | authorize | not wired into the request loop yet |
| fabric, log (`chain.rs`, `event.rs`) | envelopes, cached head, trust store | sign, verify, append | peers, through a transport trait |
| fabric, the rest | key file, node id, `mesh.toml`, transport trait | load or generate, parse, send | |
| agent, wanted and refusal (`wanted.rs`, `refuse.rs`) | manifests, lease holder, lease epoch | apply_event, may_apply | fed by the log |
| agent, reconcile and truth | none, a pure planner | reconcile | its plans are not executed yet |
| cockpit, screen thread | mode, selected row, last snapshot, countdown | keys, apply, draw | the worker, by two channels |
| cockpit, worker thread | strategy, connection, call in hand | poll, commands, reconnect and retry | orchestratord or libxl, instances, images |
| cockpit, around the TUI | page, pending action | detect the host, leave, re-exec, lift, shell | tty1, systemd or `/init` |
| dom0-memd | last target, last move | sample, decide, `xl mem-set` | Xen |
| instances, images | TOML registry and index, disks | create, fork, destroy, pull | file system |
| orchestrator (legacy) | last actions | poll and balloon | backend |
| bootstrapper | binaries, services, GRUB entries, ESP and firmware of the host | install, update, boot mode, recover, lift (thin dom0) | host commands |
| `/init` of the thin dom0 (generated) | log on the boot disk, xenstored, COCKPIT_FAILS | mounts, coldplug, Xen services, respawn loop | the kernel, the cockpit on tty1 |
| backend-xen, configuration | a graph of C arrays and strings under construction | plan, allocate, dispose | libxl |
| manifest, detect | none, functions of a text and of `/sys` | parse sizes, validate, probe, plan, classify | cockpit, bootstrapper, backend-xen |
| backend, mcp-server, cli | (almost) none | translation | |

### What is hard in it

* **Interleavings.** The engine reads the domain list, the policies and the
  clock at different moments and then acts on them while clients change
  policies, balloon domains themselves and domains disappear. Connection
  threads, the engine and main share one actor.
* **Ends.** Shutdown is a flag, a join, a command that nobody waits for and a
  poison message in a queue, in an order the comments rely on.
* **Lossy edges.** The ring forgets, `events.tail` truncates, read timeouts cut
  lines in two (and lose a request when they part it from its newline), blank lines are swallowed inside `read_request`; cockpit
  reissues calls after any I/O error.
* **Distribution.** Controllers sign on whatever head they have; each log
  decides alone what it takes; the agent's lease rests on that.
* **Half-done work.** Registries rewritten in place, GRUB snippets written
  before `update-grub` runs, images downloaded onto the file overlays rest on.
* **Old screens.** What the user acts on is a snapshot behind the worker's list,
  which is behind the host; a lost answer makes the worker call again.
* **Nobody to help.** `/init` is PID 1, the cockpit is all there is on tty1, and
  allocations inside a half-built libxl configuration fail one by one.
* **Two hands on one thing.** The governor and the user set dom0's memory, two
  processes write one registry, the manifest and the kernel command line both
  decide whose the GPU is.

### What makes each part correct

* *Event bus*: an attentive client receives every event once, in order; when it
  cannot, the cursor comparison in `drain_since`'s comment tells it.
* *Engine*: policies of clients are never overwritten; a move never leaves the
  policy it was planned with; moves in one direction respect the cooldown; in
  the end each domain is inside its policy.
* *Daemon*: each line is answered once (but for a request cut off from its newline); nobody waits for an answer that cannot
  come; a signal ends the daemon, after the last connection has been served.
* *Log*: one issuer per epoch, no gaps, equal heads mean equal histories.
* *Agent*: its lease is the one its log shows, never an older one, and
  manifests move only by events of the lease holder that the manifest's lease
  policy allows.
* *Bootstrapper*: what a run breaks off, the next one mends; a success message
  means that the host has, whole, what the run was to put there; the operator
  can always have the desktop back.
* *Cockpit*: what reaches libxl is what the user chose; a repeated call makes no
  second domain; each command is reported on; the screen catches up.
* *tty1*: always something on it that a person can use.
* *Instances, images*: what a command reported is so; neither the disk of a live
  domain nor an image below an overlay is written over.
* *dom0's memory*: between its bounds, without flapping, never taken from use.
* *Reconcile*: a plan touches nothing it does not own, and settles.
* *Host, boot, guest*: the split fits the host; a boot entry loads files that
  exist where it looks; the GPU is hidden from dom0 when and only when the guest
  gets it; what libxl is given is the whole plan, and nothing leaks.

## 2. The modules

    Broadcast      the ring, as functions of its state
      EventBus     its publisher, and polling clients        (Engine_proofs)
    Engine         run_tick among clients, guests, libxl     Engine_proofs   MCEngine
    Daemon         threads, framing, actor, shutdown         Daemon_proofs   MCDaemon
    EventLog       envelopes and append, as functions of a log
    Wanted         the agent's refusal layer and desired state, likewise
      Mesh         controllers and agents over a network     Mesh_proofs     MCMesh
      Tenure       what a log promises, abstractly (Mesh implements it)
    Lift           the thin dom0 beside the host's system    Lift_proofs
    Install        install, update, boot mode, recover       Install_proofs  MCInstall
    Instances      registry, catalogue, disks, their callers Instances_proofs MCInstances
    Cockpit        both threads, the daemon, the host        Cockpit_proofs
    ThinBoot       /init of the thin dom0
      Console      tty1: the cockpit's pages and ends, under /init or systemd
    Governor       dom0-memd
    BalloonPrompt  the cockpit's forms for memory, policies, instances
      Dom0Memory   both on one dom0                          Dom0Memory_proofs
    Reconcile      the agent's planner                       (Mesh_proofs)
    BootPlan       disks, entries, command lines, image of a lift
    GuestPlan      from a manifest to the plan of a domain
      HostPlan     memory, CPUs, GPUs, readiness             (Lift_proofs)
      GuestConfig  the plan as a libxl configuration         (Cockpit_proofs)

`Broadcast`, `EventLog`, `Wanted`, `Reconcile`, `BootPlan`, `GuestPlan` and `HostPlan` have no variables: each operator is one
critical section or one function of the code. The modules that use them say who
calls them and when. Mutants (operators marked *Mutant* before the definition
they change) are plausible bugs of that definition; nothing uses them, they
show that each property can fail. The modules of theorems hold what belongs together
besides: `Engine_proofs` also the event bus that the engine sends on, `Lift_proofs` also what a lift concludes about a host and the boot of what it has
put there (ThinBoot), `Cockpit_proofs` also the configuration its commands end in,
`Mesh_proofs` also the planner behind the wanted state.

### EventBus

`bus` is the channel of this life of the daemon; `cursor`, `call`, `reply`,
`seen` belong to a client. `Serve` is the `events.tail` arm of `dispatch`: drain
first, truncate afterwards, and answer with the cursor of the whole drain. The
repository has no client of `events.tail`; the model's client keeps the
returned cursor, as the code's comments expect, compares it with its old one,
and starts from 0 when it connects anew. (`ResetOnReconnect = FALSE` is the
other choice; then a client misses the events of a restarted daemon until its
numbers pass the cursor.)

`InOrderOnce` and `NoSilentLoss` are about a client's whole history.
`NoSilentLoss` covers truncation: events cut off by a limit are lost for good,
since the cursor passes them, but the comparison shows it.

### Engine

`pc` walks through `run_tick`: `ListOk | ListUnavailable | ListFails`, then
`InsertDefaults` (one write lock), `TakeSnapshot` (one read lock, then the
clock), then one `Skip | MoveFails | MoveOk` per listed domain. Between any two
of them a client may `SetPolicy` or `Balloon`, a domain may start, die or finish
ballooning, and, in the loop, the clock may advance (`late`). `listed` and
`snapshot` are the tick's locals and may be stale when they are used. The order
of the loop is that of the list and is left open. `cooldowns` is kept as ages
(`since`), relative to the tick's clock reading through `late`; ages beyond
`Horizon` are not told apart, which loses nothing since no cooldown is longer
than `Horizon - MaxLate`.

What the code does where one may expect otherwise: a failed balloon starts no
cooldown; a policy stays when its domain is gone, so defaults are inserted at
most once per domain id; `set_policy` does not validate. A policy with its floor
above its ceiling makes the engine alternate; `MovesWithinPolicy` and `Converges`
exempt it, by name.

### Daemon

Main is `serving`, `joining`, `stopEngine`, `stopActor`, `returned`, `exited`.
A connection is `greeting`, then goes round `check` (the flag), `reading`,
`calling` (the actor), `writing`. Pieces of lines travel through bounded
sockets. A request may come in two pieces, cut in the middle (`part`, `rest`) or before
its newline (`object`, `newline`); `partial` is the piece `read_line` holds. A read
timeout between the two drops the first (`ReadTimesOut`): a `rest` alone is answered as
a malformed line, a `newline` alone is a blank line and is skipped
(`orchestratord/src/transport.rs:42-44`), so that request is never answered; `cut` counts
these. An end of file does what a newline does (`ReadUnended`), for a client that has
closed its writing side only (`Shut`) as well; a line that is not UTF-8 ends the
connection (`ReadBinary`). `blank` keeps `read_request` inside itself. A line comes in
two pieces at most: a client that drips a byte per timeout is not modelled. The
actor's queue holds callers and the poison message; `slot` is each caller's
one-shot channel, `crashed` when its sender was dropped. Requests answered
without the actor (`ping`, `engine.*`, `events.tail`, bad parameters) go from
reading to writing directly.

### EventLog, Wanted, Mesh, Tenure

A hash is what it commits to, the list of cores up to it, so equal hashes mean
equal histories by collision resistance (`SameHeadSameHistory` is still about
the code: that `append` compares `prev_hash` with the head it caches). A
signature is good or bad. `Sign` lets a member choose seq and epoch freely and
keeps what its own log accepts. `Deliver` gives any member any envelope ever
signed, possibly damaged, at any time and any number of times. An agent applies
what its log has accepted through `MayApply` and `ApplyEvent`. The process that
connects log, refusal layer and desired state is not in the repository; the
order is the one their comments prescribe (`agent/src/refuse.rs:3-7`,
`agent/src/wanted.rs:102-104`).

`Tenure` is the abstract promise: a sequence of tenures, one issuer per epoch,
whose acts are counted without gaps. `Mesh!Tenures` is the refinement mapping
and `ImplementsTenures` says every log implements it.

### Lift, Install

In both, `run` is a run of the tool: the command, the release it was planned for
and the steps that are `left`, in the order of the code. Each step is an action
(`Build`, `Write(f)`, `CreateEntry`, `WriteScript`, `Mask`, `RestartDaemon`, ...);
`Break` ends a run at any step, the file in hand as it was or torn; steps the
code ignores the failure of have an action of their own that fails and goes on
(`EntryFails`, `RestoreFails`, `PackLoses`, `DetectFails`, and the `Losing` halves
of `StopDaemon`, `Unmask`, `Forget`, `UnmaskAll`). The content of a file is the
release that wrote it. Between runs, and for `update-grub` and the image also
during them, the host goes on: new releases, other packages' `update-grub`,
another display manager, a reboot, a firmware that forgets its entries. (`Verify` also
fails when the host's own Ubuntu entry is gone from `grub.cfg`: `UbuntuMissing`.)

`Lift` is `ThinDom0Plan::execute` and `execute_grub_only`; a recovery shares the
steps of the GRUB half. The copies on the ESP are copies of what is in
`/boot/rotten-apple`, not of the plan, so the order of the steps matters
(`LiftedIsWhole`). `nvram.first` is what the firmware boots first, `run.found` what
a run found there, and `meant` a history: what the firmware put first itself, and whether a run
was cut off, or failed, where it had that to put back. A run cut off between `CreateEntry` and `RestoreOrder` leaves Xen first,
and no later run mends it, since `ensure_nvram_entry` returns early when the entry is there
(`OrderKeptUnlessCut`, which holds; `UbuntuStaysDefault`, which does not). `Install` is `install_system` from a build or from the installed
path (then every copy is onto itself and skipped), `enable_cockpit_boot`,
`disable_cockpit_boot` and `cmd_recover`. `TwoDesktopsFree` says two, because one
`boot-mode desktop` unmasks only the display manager on record, and the record
is overwritten by the next `boot-mode cockpit`.

### Instances

`job[c]` is what a process is doing: it loads a file into `job[c]`'s copy, changes the
copy, and writes it back in two steps (`TruncateRegistry`, `WriteRegistry`; likewise
for the catalogue), as `fs::write` does; nobody holds a lock. `create_instance_in`,
`fork_instance_in` and `destroy_instance_in` are sequences of such steps with the
disk, the manifest and the daemon's `domain.create` between them. Two kinds of
creator differ in the code and here: `new` (the CLI; image must be there, domain is
left paused) and `spawn` (cockpit and MCP server; a missing image is downloaded).
`Kill` ends a process between any two steps.

A file is what a reader makes of it, `[list, parses]`: a set of entries, since the code
never uses their order, and none when the text does not parse. Two processes that write
one file at a time leave a mixture (`Overwritten`), a killed one a beginning (`BrokenOff`).
Stamps tell a disk or a download from the one that replaced it; a disk also has the name
of the file it rests on (`of`), because the download of a `spawn` and the overlay that grows
on it are made by one command and must not be taken for one another. A curl that ends
leaves a whole file only when no other was writing to it (`Alone`).

Three histories say what the missing lock and the in-place write cost. `doubt` has the
ids that a kill, a failed unlink, a step from a stale copy or an operator's command
(`image pull`, `image rm`, `rm` of a parent) may have spoilt: a copy is stale when its
*contents* differ from the registry (`Stales`), so a name that was taken away and put
back in between counts by what it is now. A command that finds its id as the registry has
it, and is alone at it, ends older doubts (`Fresh`). `refetched` has the images whose file
is gone or is being fetched over, `lost` the names that the catalogue had and has not. The
properties promise nothing about those, and everything about the rest.

### Cockpit

The screen thread (`Apply`, `Key...`, `AutostartDue`) and the worker (`pc`: pick,
announce, poll, idle, send, await) share two channels. `call` is one request of
`DaemonClient::call`; an I/O error before or after the daemon has carried it out
leads to `Reconnect` and the same request once more (`try = 2`), then `GiveUp`. The
daemon's actor serves `inbox`, also requests whose sender is gone (`heard`). `Cut`,
`Crash`, `Restart` are the connection and the daemon; `GuestEnds`, `OtherCreates` other
clients. `chosen`, `made` and `reported` are histories the properties relate.
`List` is one step: the list changes nothing, so only the moment of its snapshot
matters; an error in answer to it leaves the screen as it is. [t] (`KeyAttach`) leaves the
screen while the process lives on, the worker with it until it has drained its channel, and
`ConsoleEnds` ends both; `Relaunch` is the next process. Whether autostart is off from the start
(`rotten_apple.no_autostart=1` on the kernel's command line, `cockpit/src/lib.rs:2202-2213`)
is a choice of `Init` and `Relaunch`. The library calls inside the direct mode are one step each, for the worker
makes them in its own process.

`CreatesOnce` holds because libxl refuses a name that is in use (`NameTaken`), not
because the worker knows what became of its first attempt. If the first domain ends
between the attempts the second makes another; the property says so.

### Governor, BalloonPrompt, Dom0Memory

`Governor` is the loop `sample`, `census`, `decide`: each reads the host at its own
moment, so load and guests move under it; `SampleFails` ends the process, as the
code does, `CensusFails` counts no guests, `ApplyFails` keeps the target. What dom0
sees as memory is its target less `KeptMb`. `BalloonPrompt` is the prompt of [b] key by
key: it keeps the figures it was opened with. These are zeros when libxl could not give the
status of Domain-0 (`Readings`), and then no entry is too large; `blind` says that the target
stands from such a prompt. Whether libxl takes a target above dom0's ceiling is left open, and
Enter may always do nothing to dom0. The policy editor and the wizard
are functions of a form and a key (`PolicyKeyed`, `WizardKeyed`), with theorems of
their own. `Dom0Memory` puts the governor and a user with the prompt on one dom0.

`grown` is the history `GrowthKept` needs: the governor has grown dom0 for want of memory on
a reading and a count that were still true when it did. Without the count the property
is false, though no bound of the run shows it: a guest that ends between the census and
the decision leaves dom0 grown to a reservation nobody needs, and the next tick gives it back.

### ThinBoot, Console

`machine` is what is given and never changes: the command that hangs, the device whose
driver takes the machine, the hints on the command line. `pc` walks through `/init`;
`Try` is the script's `try` under `timeout` or not, `Says` the log line, `disk` the last
line that is safely on disk (`stage` syncs). `Console` goes on at the respawn loop and
has systemd's `getty@tty1` with the cockpit's drop-in as the other host. `Mode` is
`detect_app_mode`, `Starts` the pages of `run`; `EndsUnder` and `Ends` are what the respawn
loop and the unit (`ExecStart=-`, `Restart=on-failure`) make of an exit status.

### Reconcile, HostPlan, BootPlan, GuestPlan, GuestConfig

Functions of their inputs, as the code's are (but for GuestConfig's steps); their
theorems hold for every input.
`Reconcile!Plan` is the set of actions of `reconcile`; `IsDone` relates a host to the one on
which exactly the plan has been carried out, for `OnceIsEnough`.

`BootPlan` describes a host by the tables the code reads (mountinfo, by-uuid, by-id,
`lsblk`, `/boot`) and defines what `for_this_host` takes from them, every path and
argument in the GRUB entries and `xen.cfg`, what `stage_esp` puts where, which modules and
firmware go into the image, and where `/init` looks for the boot file system. A path is a
sequence of names, so a prefix that is stripped from a mounted `/boot` is stripped here.
`Finds(host, e, p)` says that the file system an entry searches holds the file where the
entry loads it; it is stated with the host's mounts (`MountPoints`, `WellMounted`), which
no code of the repository defines.

`GuestPlan` is the validation against a backend, `select_mode`, the plan of disks,
bridge, display and PCI devices, the manifest of the user's desktop and that of
dom0. `GuestConfig` walks through `OwnedDomainConfig::new`, an allocation at a time, from
`BuildInit` by `BuildNext`: `mem` is what is allocated, and disposal frees what the
configuration leads to (`Reached`).

## 3. The runs

| run | module, cfg | shows | bounds |
|---|---|---|---|
| event_bus | EventBus, EventBus.cfg | order, loss, catch-up | 1 client, 2 slots, 4 events, 2 lives, limits 0, 1, 3 |
| engine | MCEngine, Engine.cfg | policies, cooldowns, convergence | dom0 and one guest, sizes 1 and 2, two policies, cooldowns 0 to 3 ticks, 2 outside events |
| mesh | MCMesh, Mesh.cfg | logs, lease, manifests, refinement | 2 controllers, 1 agent, 1 manifest, 2 epochs, 4 envelopes |
| daemon | MCDaemon, Daemon.cfg | which lines are lost, waiting, shutdown | a client with 2 lines and one that only connects, 2 pieces in, 1 answer out |
| lift | Lift, Lift.cfg | broken, repeated and outdated lifts; the firmware's order unless cut off; every operator gets there | 2 releases, 2 breaks |
| lift_order | Lift, LiftOrder.cfg | *violated*: after a cut-off lift the next one succeeds with Xen first | 1 release, 1 break |
| install | MCInstall, Install.cfg | installs that run, desktops that come back | 2 display managers, 2 releases, 2 breaks |
| instances | MCInstances, Instances.cfg | reports that stay true; disks and images under live domains | 2 processes, 2 ids, 1 image, 3 commands, 1 kill |
| cockpit | Cockpit, Cockpit.cfg | targets, repeated calls, reports, the screen, the countdown | 2 guest names, 2 domids beyond dom0's, 1 command and autostart, channels of 1, 2 upsets |
| dom0_memory | Dom0Memory, Dom0Memory.cfg | bounds, a ceiling that comes back, protection, no flapping, rest | the defaults of dom0-memd, loads 300, 2500 and 3500, 2 guests, 2 upsets, entries 60 and 5000, prompts with and without a reading |
| console | Console, Console.cfg | the log's last word, PID 1's progress, a shell in the end | 2 devices, every command that may hang, every landing page |
| console_stranded | Console, ConsoleStranded.cfg | *violated*: [q] on a landing page leaves tty1 empty | same |

Eleven more configurations refute statements of the code's comments in models
above; they are kept for a reader to run, and `PROJECT.json` has a finding for each:

| cfg, module | violated | what happens |
|---|---|---|
| EngineDom0, MCEngine | `Dom0LeftAlone` | the default policy of dom0 undoes an operator's balloon |
| MeshReclaim, MCMesh | `ClaimsRaiseEpoch` | a claim at the same epoch after a release |
| DaemonTick, MCDaemon | `ActorOutlivesTicks` | a tick sees ActorCrashed on an orderly shutdown |
| DaemonKeepalive, MCDaemon | `SessionsBreak` | blank lines outlive the shutdown flag |
| LiftGrubOnly, Lift | `RecoveredEntriesLoad` | a recovery reports an entry that loads files nobody staged |
| InstallGrub, MCInstall | `GrubFollowsSnippet` | a failed `update-grub` is never retried |
| ConsoleManifest, Console | `ManifestKept` | the cockpit run anew after [t] has dom0's manifest |
| InstancesLost, MCInstances | `StateNotLost` | an empty registry read in the middle of a save |
| InstancesLost with `INVARIANT StartedRuns` for its property | `StartedRuns` | "started" is printed for a paused domain |
| CockpitAutostart, Cockpit | `AutostartRuns` | the autostarted guest stays paused |
| DaemonCut, MCDaemon | `EveryRequestAnswered` | a request cut off from its newline is never answered |
| Dom0Ceiling, Dom0Memory | `SendsInRange` | a prompt without a reading sends 5000 MB of 4096 |

Every module with variables that a run explores has a `TypeOK` (`BusTypeOK` in EventBus); it holds under the
bounds of its passing run (add `INVARIANT TypeOK` to the cfg), and is proved
where section 4 says so.

Why the bounds suffice. EventBus: with two slots and four events the ring turns
over completely between two polls, a limit is below, at and above what is
there, and the second life reuses the numbers of the first. Clients do not
interact, so one is enough. Engine: domains interact only through the order of
the loop and the shared tick; dom0 and one guest are the two kinds the code
tells apart. Two outside events are enough for a policy change and a balloon
within one tick. Mesh: two controllers are needed for a fork, a second epoch for
a takeover and four envelopes for claim, assign, release and claim. Daemon: the
threads share only the actor and the flag; two lines cover a handshake and a
request cut in two, pipelined or not. Lift and Install: runs are not
bounded, only what breaks them is; two breaks are a torn file and a second
failure in the run that mends it, and a file is of the release of the run or of
another. With two display managers one can be installed ahead of the one that
is masked and recorded. Instances: a race needs two processes; three commands are
a create, what races with it and what reads the result, or a create, a destroy and
a create of one id; a second id shows what a stale copy loses and is what a fork needs; one
image, for commands on different images share the catalogue's text only, where the one
name can be lost as well. Cockpit: one key
command and the countdown's make two commands in flight; two upsets are a lost
answer and a change of the host between the two attempts, which is what a
second domain would need, and a cut followed by a crash; two new domids are one
more than a command may use. Dom0Memory: the loads make dom0 slack, middling and short of memory at one
target or another between the smallest and the largest; 60 is a percentage, and
out of range as an amount, 5000 is out of range as either, and accepted
by a prompt without a reading only. Console: two
devices tell the one that kills from another one; every other given of a host is
enumerated.

`CHECK_DEADLOCK FALSE` in Mesh (all envelopes signed and delivered), Daemon (the
process has exited), Instances and Cockpit (no command is left to give, or the user
has left) and Console (a wedged machine, a parked `/init`, an empty tty1): all
really stop.

### The violations

All are statements of comments or messages that the code does not keep:

* *autostart* (`cockpit/src/lib.rs:1854-1855`): the countdown sends `domain.create` and
  nothing else; the guest it makes stays paused. `AutostartNotLost`, which holds, says
  that the countdown itself is not lost to a late backend.
* *sacred rule* (`bootstrapper/src/thin_dom0_efi.rs:114-117`, `:188-190`, `:237-240`): "Ubuntu
  must stay the default boot"; a lift cut off before it puts the order back leaves Xen first,
  and the next one, which finds the entry, reports success and leaves it so.
* *one per response* (`cockpit/src/daemon_client.rs:3-4`): a read timeout between a
  request and its newline drops the request, and the newline is a blank line.
* *ceiling* (`cockpit/src/lib.rs:3682`): "ceiling is dom0_max_mem" is not enforced by a
  prompt that was opened when `status()` failed. `CeilingRestored`, which holds, says that the
  governor undoes it.
* *never stranded* (`cockpit/src/lib.rs:209`, `:292`, `:837`, `bootstrapper/src/boot_mode.rs:91-94`):
  the pages before and beside the TUI end cleanly on [q], and the unit restarts only
  failures, which its `ExecStart=-` never has.
* *dom0's default* (`orchestratord/src/engine.rs:464-469`): a policy with
  `min == max == current` is no no-op, the engine undoes an operator's
  `domain.balloon` of dom0.
* *claims* (`agent/src/wanted.rs:57`, `:125-127`, `fabric/src/event.rs:54`): after
  a release a claim is not compared with the lease epoch. `LeaseEpochGrows`, which
  is proved, is what remains: the log's own rule keeps it from falling.
* *engine before actor* (`orchestratord/src/lib.rs:151-153`, `:211-212`): shutting
  the engine down is only sending it a command.
* *prompt shutdown* (`orchestratord/src/lib.rs:316-317`): the timeout does not
  help against blank lines, which `read_request` answers by calling itself.
* *recovery* (`bootstrapper/src/thin_dom0.rs:369-371`, `:422`): `--grub-only` looks for
  the image and the kernel, then writes the script of today's plan; if the ESP
  was mounted since the lift, that script chainloads files that only a full lift
  stages.
* *drift* (`bootstrapper/src/lib.rs:109-114`, `cli/src/main.rs:112-114`): the snippet is
  written before `update-grub`; if that fails, later runs see no drift and succeed
  with the old command line in `grub.cfg`.
* *back from a console* (`cockpit/src/lib.rs:402-408`): the re-exec passes no
  `--manifest`, and the default one describes dom0 on a ThinDom0.
* *registry* (`instances/src/lib.rs:141-142`, `cli/src/main.rs:1236`): a parse error is an
  empty registry; "started" is said of a domain that is paused.

Disagreements met while translating functions, without a run, are findings too:
h and l in
the wizard (theorem `NoIdWithHOrL`); the `this-host` anchor and the reconciler; the
visible manifest nobody offers; the bridges, the rounding and the sizes of `detect`.

Smaller observations, neither documented otherwise nor wrong by themselves:
`looks_linux` strips `phy:` and `file:`, `strip_phy_prefix` only `phy:`; the planner gives
the desktop of a host with one CPU no CPU, and dom0 more than a host under 1 GB
has; `gpu_group` of the readiness is the first display group by number; the subvolume
of a btrfs root is ignored by `for_this_host`; the policy editor opens on dom0 too, and
its check of the cooldown can never refuse (theorem `PolicyKeepsToLists`).

### Fairness

* EventBus: weak for asking; strong for serving and receiving: a connection may
  break again and again but not before every answer. Nothing makes the engine
  publish.
* Engine: weak for the thread's steps and the clock (a 1 s tick); strong for a
  non-empty domain list and a balloon that could succeed: libxl may fail, not
  for ever. Clients, births and deaths have no fairness; they are bounded by
  `MaxOps`, so "in the end" means after the last of them.
* Daemon: weak for each thread (the OS schedules them), for main's look at the
  flag even while clients keep connecting (it is looked at between accepts),
  and for a client reading its answers. The last is an assumption about
  clients, not about the code: there is no write timeout. Nothing makes a client
  send, close, or the signal arrive.
* Mesh, Instances: none, safety only.
* Lift, Install: weak for the tool's steps, which wait for nothing; strong for the
  operator starting a lift, an install, a `boot-mode desktop` again. Failures are
  bounded by `MaxBreaks`, so "in the end" means after the last of them.
  `DesktopReturns` promises nothing to a user who asks for the cockpit for ever.
* Cockpit: weak for the worker, the screen, the daemon's actor, the service
  manager's restart and the countdown (both threads poll, and none holds what the
  other waits for). No fairness of keys, of other clients or of upsets, which are
  bounded by `MaxUpsets`.
* Dom0Memory: weak for the governor's loop, which sleeps and goes on. Console: weak
  for `/init` and for the cockpit's start and the respawn loop, since a process that
  can run does; a command that hangs simply does not return.

## 4. The proofs

Checked by tlapm for all values of the constants under the named assumptions.

| module | theorem | from |
|---|---|---|
| Engine_proofs | `TypeCorrect`, `UserPoliciesKept`, `DefaultsOnce`, `AllMovesWithinPolicy`, `CooldownsKept` | `EngineAssumption` |
| | of EventBus: `RingIsContiguous`, `EventsInOrderOnce`, `NothingLostSilently` | `BusAssumption`, `CapacityAssumption`; the last one `ResetOnReconnect` |
| Mesh_proofs | `TypeCorrect`, `IssuersAlone`, `HeadsTellHistories`, `LeaseEpochsGrow`, `LeasesFollowLogs`, `ManifestsUnderLease`, `LogsImplementTenures` | `MeshAssumption`, `NoneAssumption` |
| | of Reconcile: `OrphansUntouched`, `WantedSurvive`, `ElsewhereOnlyReported`, `OnceIsEnough` | the types of a fleet and a truth |
| Daemon_proofs | `TypeCorrect`, `ActorOutlives`, `OnlyCutLost`, `WaitersQueued` | `DaemonAssumption` |
| Lift_proofs | `LiftTypes`, `LiftIsWhole`, `FilesBeforeEntries`, `OrderIsKept` | `LiftAssumption` |
| | of ThinBoot: `LastWordNamesTheDevice` | none |
| | of HostPlan: `MemoryFits`, `CpusSplit`, `LeasableIsAlone`, `OneGuestPerGroup`, `DiskStaysWithDom0`, `EntriesLoadWhatIsStaged`, `BootHostFound`, `HiddenIffGiven`, `InitLoadsBundled` | the hypotheses in each statement |
| Install_proofs | `InstallTypes`, `InstallRuns`, `TwoDesktopsAreEnough`, `OneRecoverIsEnough` | `InstallAssumption` |
| Instances_proofs | `InstancesInv`, `InstancesTypes`, `InstancesSuccess`, `InstancesBacking`, `InstancesLiveDisk`, `InstancesGrow` | `InstancesAssumption` |
| Cockpit_proofs | `TargetsAreChosen`, `CommandsCreateOnce` | `CockpitAssumption` |
| | of GuestConfig and GuestPlan: `NoLeak`, `WholePlanHanded`, `DesktopIsValid`, `VisibleDesktop`, `Dom0ManifestIsAccepted` | sizes are naturals |
| Dom0Memory_proofs | `TypeCorrect`, `Dom0InRange`, `OfferedAccepted`, `PolicyOpensAccepted`, `PolicyKeepsToLists`, `NoIdWithHOrL` | `GovernorAssumption`, `TypedAssumption`, `Dom0MemoryAssumption` |
| | `WatermarkHolds`, `GrowthHolds` | these and `WatermarkMargins`, `GrowthMargins`, which `DefaultsHaveMargins` proves of the defaults |

The assumptions say of which kind a constant is and nothing of its size, with two
exceptions of form: `CockpitAssumption` has finitely many names, because a host starts with
a numbered list of guests; `InstallAssumption` has `KnownDMs` a sequence, as `KNOWN_DMS` is.

*Ring.* The ring's type alone does not give its contents; the invariant adds
that the entry in place `i` has the number `LastSeq - Len + i`, and that the
length is the smaller of `LastSeq` and the capacity. `Send` preserves it in two
cases (full or not), everything else leaves the bus or resets it.

*Event bus clients.* `ClientInv` says of each client that it asked from its cursor, that an
answer on its way holds consecutive events above the cursor asked from and none above
the cursor in the answer (`Consecutive`, which `TailConsecutive` proves of `drain_since` and
the truncation), and that the cursor covers every event of this life that was seen.
Then taking an answer keeps what was seen in order (`TakenInOrder`). `NoLossInv` adds that
no cursor is ahead of the bus. That is where a client has to start from 0 on a new
connection: a cursor kept over a restart of the daemon is ahead of its new numbering,
and the events below it are skipped without a sign.

*Engine.* `UserPolicyKept` is inductive with the type invariant, since
`InsertDefaults` writes only where there is no entry. `DefaultOnce` needs that a
domain with a default has an entry, and entries never go. `MovesWithinPolicy`
follows from `plan_move`'s two cases. `CooldownKept` needs the relation between
what the engine remembers and what happened: `quiet` (time since the move
really took place) and `since` (time since the clock reading recorded for it)
differ by at most `MaxLate`, up to the horizon; every clock step and every move
preserves that.

*Mesh.* The invariant `MeshInv` says of every log (`LogOK`) that its cached head is
its last event, that its events are ordered as `OneIssuerPerEpoch` wants, and that
its head hash and every `prev_hash` name the events before them (`Chained`); of
every agent that its lease epoch is not above its log's head epoch. `append`
compares an envelope with the head only, so the proof that it keeps the order
for all pairs of events goes through the last one (`AppendOrdered`). Two logs with
equal head hashes then agree event by event, since the hash determines each
event's core and prev_hash and a good signature the rest. `LeaseFollowsLog` is
inductive only with `OneIssuerPerEpoch`: a claim after a release is not compared
with the lease, but whoever issued the later events of an epoch also issued the
claim in it. For the refinement, an envelope of a later epoch is `TakeOver`, any
other is `Act`.

*Daemon.* `DaemonInv` adds to the four properties: the actor is told to stop, and
stops, only after every connection has ended (`StopsLast`; the request loop's
join comes before `actor.shutdown()`), only a thread inside a call waits
(`CallersWait`), `OnlyCutObjectsLost` holds from the moment the client connects, and
nothing is written before the hello's answer, so that answer has room. Beside it
`Framed` says that the pieces in a socket go on where `read_line` is, and the client where
they end: a second piece comes only after its first, so what a held object owes is owed
once. The properties are about numbers of lines and requests in queues; `CountAppend` and
`CountTail` say how `send` and `recv` change such a number. When the queue is
dropped each waiting slot becomes `crashed`, which keeps `Queued`; a connection's
slot cannot be waiting when the poison message is read, by `StopsLast` and
`CallersWait`. No fairness, bound on the number of lines or size of the sockets is
used.

*Lift.* What a run has achieved is said with what it has left: `Pending(step)`. `LeftOK`
makes that usable: steps are in the order of the code (`Ordered`, by `Rank`), what is left of
a lift is a whole end of its list (`WholeEnd`), and the order of the firmware is not put
back before the entry is made. `DoneSoFar` is then `LiftedIsWhole` piece by piece: each file
is pending or of the release, each copy on the ESP is pending or equal to what it is a copy
of. A copy is taken of what is in `/boot/rotten-apple`, so this needs that the originals are
no longer pending when the copy is made, which is `WholeEnd`. `FilesFirst` chains files,
script and entries over all runs, since any package may run `update-grub` between them.
`OrderKept` says that the order is put back before anything else is done, and that, unless
a run was cut off there, what boots first is what the firmware meant or about to be put back;
`meant` makes this true between runs as well, whatever the firmware forgets.

*Boot.* `BootInv`: once the log is mounted, its last line is on the disk (each `stage` syncs
before it returns), and a machine that is gone was told of the device first. The console
that follows moves none of this (`Console` changes the boot by `BootNext` and
`XenstoredSettles` only), so `LastWord` is proved of `BootSpec`, the boot alone, and the run
checks it of the whole.

*Install.* `InstallInv` lists what may be left of a run of each command (`InstallLists`,
`CockpitLists`, ...; an update skips steps, so only the set of its steps is fixed), and says
of the step a run is at what is done by then (`InstallOK`, `FreeOK`). `freed` counts the
undisturbed runs in a row that freed the desktop. `TwoDesktopsFree` needs that the second one
finds no record: then it unmasks every display manager and not only the recorded one, so
`freed >= 1` carries `record = NoDM`, and the second run, past its unmasking, carries
`masked = {}`. `RecoverFrees` rests on the last step of a recovery alone, whatever its first
half did; it is proved, and in no run.

*Instances.* Nobody holds a lock, so nothing can be said of a process without the others.
`OneChanger`: of two commands that change one id at the same time, that id is in doubt;
`SaversAgree`: two that are in the middle of a save would leave the same entries, but for
ids in doubt. With these the state has two parts. Where no command is past its disk step
(`Underway`), `Settled` says that what was reported, the disk, the manifest and the registry
(the one that is there, or the one that every saver is about to leave: `Known`) agree. Where
one is, `Midway` says how far it has come. `SuccessIsTrue` is `Settled` when nobody is
writing. `LiveDiskKept` needs only that a domain's disk has a stamp (`DomainOK`) and
`Settled`: a command that makes a disk read no entry of its id, so a disk that is there
contradicts `Settled`, or the copy was stale and the id comes into doubt with the step.

`BackingKept` is about downloads. A download begins where the catalogue did not list the
name, so an overlay must not rest on such a name: `Unlisted`, with the names that a save
under way is about to list counted as listed (`Held`), and the lost ones apart. A fork's
backing file and the disk of its parent are told by `of`, which is why no id may be an
image's name (`InstancesAssumption`). `GrowsOnWhole` follows the name the other way: a file
that is not whole is one whose name no catalogue and no process's copy of one has
(`Unseen`, `WholeOrUnseen`), since a name gets into a copy only after the curl has ended,
and the one curl that nobody disturbs is the one whose stamp the file has (`OneCurl`,
`WholeIsThere`). `ShapeOK` says which steps each command goes through. Each conjunct has a
lemma of its own for its preservation; before, TLC checked it under the bounds of the run.

*Cockpit.* `TargetsChosen` is about requests that are under way; for it to be kept when an
answer to `domain.create` comes back and `domain.start` is sent to the domid it names, the
answer must be to that call and of that command. So `HeardOK` says that at most one
request in the daemon's inbox still has a listener, that it is the call the worker waits
for, and that an answer to a create names a domain this command has made. A reconnection
leaves the old request in the inbox without a listener, which is how one command comes to be
carried out twice. `CreatesOnce` then needs that both carry the same name (`NamesOK`:
libxl refuses a name in use, so the second can succeed only when the first domain has
ended), and that no later command has the number of an earlier one (`NumbersOK`). The worker of a
user who has left for a console goes on as before, so the end of the process (`Over`) is a step
of its own. The proof
has one lemma per step of the worker, the daemon and the screen, over views, queues and
histories separately.

*Dom0's memory.* `InRange` is inductive with what the prompt may hold: its ceiling is dom0's
or zero, an entry that `Valid` accepts is not below the floor, nor above the ceiling unless
that is zero, and then the target is `blind`; and `DecideTarget` clamps to a
floor that is itself cut to the ceiling (`ClampInRange`, `ReservedInRange`). A held target is
the one there was. The theorems about forms are about one key or, for the editor
and the wizard, about every sequence of keys, as an invariant of the form.

*Watermarks.* Neither `WatermarkProtects` nor `GrowthKept` holds for every configuration, so
their theorems have hypotheses on the constants, and these are the result. `Moves` says
what a move can be: past the dead band; down by a step at most and for slack; up to the
guests' reservations, or by a step at most and for want of memory. `Short` and `Slack` take
the rounding out of the percentages. A shrink starts above the dead band over the floor
and above the high watermark, so a step and the kernel's share are free there
(`WatermarkMargins`; `Reading` carries the sample and what was used when it was taken to the
decision). A size above the ceiling is cut to it whatever the watermarks say, which
`WatermarkProtects` leaves out by name. For `GrowthKept` the invariant `Grown` says that the size grown to is within the ceiling and `Enough`:
reserved by guests, within the dead band of the floor, or without slack; `GrowthMargins` is
what a step up from just under the low watermark needs for the last. With the defaults
(1024, 12 %, 30 %, 256, 128) both hold for a kernel that keeps between 8 and 101 MB
(`DefaultsHaveMargins`): the model's `KeptMb = 64` is one such. Nothing in the code relates
these constants to each other; changing one may break either property.

*Reconcile.* Each action of a plan comes from one of the outcomes of `consider_wanted`, or
from `Withdrawn`; the theorems split on that. `OnceIsEnough` compares the plans of
two hosts related by `IsDone`, manifest by manifest: what was created is present, what
was ballooned has its size, what was destroyed matches nothing.

*Host, boot, guest.* `MemoryFits` needs 1024 MB: below, dom0's minimum and the reserve
exceed the host. `CpusSplit` needs lists of P- and E-cores without a CPU in common,
and the desktop's CPU exists only beyond one. `DiskStaysWithDom0` has in its
hypotheses what the code takes for granted: the GPU's group is the first display
group. `EntriesLoadWhatIsStaged` follows a path twice, from the place where a lift puts the
file to its file system, and from the file system the entry searches to the path it
loads: the mount that is deepest above the path decides (`DeepestRow`), and the one
prefix the code strips is `/boot` (`InBoot`). It needs a well-formed mount table
(`WellMounted`: each mount point once; `/`, `/boot` and the ESP at their file systems'
own roots; nothing else below `/boot`), without which GRUB and the kernel disagree on
where a file is.

*Configuration.* `NoLeak`: outside a part under construction every object is reached
from the configuration (`Placed`); inside, the array hangs on the local pointer, and
each failing branch enters it, as far as it is filled, before it disposes.
`WholePlanHanded` adds that the finished parts are complete (`WholeSoFar`).

### Only model-checked

Liveness (`CatchUp`, `Converges`, `CallsReturn`, `ShutdownExits`, `LiftConverges`,
`DesktopReturns`, `CommandsReported`, `ViewConverges`, `AutostartNotLost`, `CeilingRestored`, `Settles`, `HandsOff`,
`BrokenCockpitGivesShell`) is out of the prover's reach, and so is ENABLED. What a recursive
definition computes for every input cannot be proved either; there is none. Every invariant
and every action property of the passing runs that is not among these has a theorem.

## 5. What is not modelled, and the plan

Left for later:

1. Reconcile behind Wanted and a host: the agent as a loop, once the repository
   has an actuator for the plans.
2. Authentication (`orchestratord/src/auth.rs`), once a request goes through it:
   sequence numbers and nonces against reconnects.

Left out for good: `protocol` (serde types), the fabric's key file, configuration and
in-memory transport, the legacy `orchestrator` (the engine replaces it), `host_specs`
and widgets (display), the request translation of `mcp-server` and the rest of `cli`,
TOML parsing, what apt and mmdebstrap do inside the image, rendering in cockpit, the
FFI layouts and context setup of backend-xen, and `archive/` (the retired Python
prototype).
