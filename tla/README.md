# Verification of robotctl

`robotctl` is the command a robot's image ships to bring its WiFi up, to give it
its identity and to run its experiments. This directory models the parts of it
that hold state, checks them with TLC on small instances, and proves the most
important properties with TLAPS for every instance. Paths such as
`supervise.rs:175` are relative to the repository's `src/`.

## 1. Inventory

| Component | State it keeps | Operations | Hard behaviour |
|---|---|---|---|
| WiFi supervisor (`wifi/supervise.rs`) | the state (TryClient, ClientUp, FallbackAp), at most one client and one AP session, the attempt and the interval it is in, whether READY was announced | `try_client`, `watch_client`, `serve_ap`, `stop_client`, `stop_ap`, `next_state`, `notify_ready` | one thread, but every call it makes can fail, and daemons, interface, credentials and network change between any two of them; liveness |
| WiFi sessions (`wifi/ap.rs`, `client.rs`, `daemon.rs`, `net.rs`) | wpa_supplicant; hostapd and dnsmasq; the interface's addresses | `connect`, `teardown`, `start`, `Daemon::spawn/stop`, `Drop` | a start that fails halfway must undo what it did; daemons that ignore SIGTERM |
| State hook (`wifi/hook.rs`) | the process that is waited for, and until when | `notify`, `wait_until`, `terminate` | must follow the state, must not stall the loop, and may be left behind by a kill |
| `wifi stop`, `wifi status` (`wifi/mod.rs`) | none of its own; systemd's unit state, the interface | stop the unit, announce off, flush | races a start; check, then act |
| AP configuration (`wifi/config_gen.rs`) | `fallback-ap.conf` | `load_ap_config`, the two renderers | boundaries (32 bytes, 8 to 63 characters, 1 to 14), defaults against empty values |
| Robot identity (`id.rs`) | `robot.conf`, hostname file, hosts file, running hostname, the mDNS responder's name | `id set robot-id`, `id set ros-domain-id`, `id apply` | five artifacts written one after another, by unlocked processes that fail and die between the writes |
| Configuration text (`conf.rs`, the editor in `id.rs`) | the lines of the two edited files | `parse_value`, `upsert_key`, `render_hosts_file`, `write_atomically` | files edited by hand; edits repeated at every boot |
| Experiments (`experiments.rs`) | `enabled.conf`, `experiments.conf`, the stacks on disk; docker's images and containers | `start`, `stop`, `status`, `list` | lists of targets with partial failure, images that are stale, what is selected changing before it is acted on |
| systemd (`systemd.rs`) | none | `is_active`, `stop`, `try_restart_async` | a restart that is queued, not done |
| Run-time configuration and build profiles (`config.rs`, `build.rs`) | what is compiled in; what a start resolves | select, read, validate and compile a profile; `from_env` | precedence; rules that two programs restate |
| Status report (`status/`) | none | gather, render | facts put together from several reads while the files are edited |
| Command line (`main.rs`, `log.rs`) | none | dispatch | an argument that does not parse does nothing |

How they interact. `wifi start` runs for ever under systemd; it reads the
identity and the AP configuration each time it raises the access point, and
calls the hook at each transition. `id` commands are short processes started at
boot and by operators; they share files with each other and, through
`robot.conf`, with the supervisor; they nudge the mDNS responder through
systemd. `experiments start` is ordered after the supervisor's READY=1 at boot,
and shares docker and its two configuration files with operators' commands. No
two invocations share a lock.

What makes each part correct:

* supervisor and sessions: one radio role at a time; no daemon without an owner;
  no address mistaken for a connection; transitions earned by the number of
  attempts and the interval; the hook up to date; every start settles; a
  reachable network is found, credentials are tried, an operator on the AP is
  not disturbed without reason;
* identity: no torn file; a command that ran undisturbed leaves all artifacts
  agreeing; the other key kept; a rename announced;
* configuration text: what is set is read back, other lines survive, repeated
  edits settle;
* experiments: a success means every target runs (or is stopped) as asked; no
  stale image is started; no target is left out; named targets all or none;
* hook and `wifi stop`: nobody waits for ever; the last word is the one that
  shows; a stop that says it succeeded has left nothing behind; no PID is
  signalled that was given away;
* AP configuration: what is accepted is what the standard and the generated file
  allow; what is on the air, and what is reported of it, is what one state of
  the files says;
* profiles and environment: what builds starts, and the layers have the
  precedence that the comments say.

The hazards, line by line, are in `PROJECT.json`.

## 2. Modules

| Module | Models | Refines / extends |
|---|---|---|
| `WifiService` | what the stack promises: one radio, a mode, no step between station and AP | |
| `WifiSupervisor` | the supervisor, sessions, daemons, interface | implements `WifiService` |
| `WifiStack` | `wifi stop`, systemd's unit, the supervisor and the processes they wait for, with their time limits | the whole that `WifiSupervisor` is part of; implements `WifiService` where no supervisor is started beside another's daemon |
| `RobotConf` | `robot.conf` as two assignments, and what a set makes of them | |
| `RobotIdentity` | `id` commands as processes over shared files | extends `RobotConf` |
| `ConfText` | the text of `robot.conf` and of the hosts file | its `robot.conf` implements `RobotConf` |
| `ApConfig` | what the access point is configured from, and raised with | the data `WifiSupervisor` leaves out |
| `ApStatus` | what `status` and `wifi status` report of the access point | extends `ApConfig` |
| `Settings` | build profiles and the environment, up to what a start resolves | the constants of the other modules |
| `Experiments` | `experiments` start, stop and status over docker compose | |
| `MC*` | what TLC needs beside the `.cfg` files | extend the above |
| `*_proof` | theorems and proofs | extend the above |

Each module has definitions whose name is another's with a suffix, under a
comment that begins with `Bug:`. They are used by no specification. Each is the
code with a plausible mistake in it, and putting it in the place of the original
makes a property fail: that is how we know that the property is about the code.

### WifiSupervisor

`pc` names the call the one thread makes next, so that anything else can happen
between two calls. `client` and `ap` are the two `Option<Session>`s in memory;
`proc` is what really runs; `addrs` is whose addresses the interface carries.
`state`, `event`, `attempt`, `elapsed` and `ready` are `run`'s and the handlers'
locals. Each handler is a group of actions in the order of its calls, `?`,
`Drop` and best-effort calls included: `ReadAddr`, for instance, builds the
session or goes on to `drop_wpa`. `next_state` is the operator `NextState`.
Around it are the kill of the process, the reaping of its cgroup, a daemon that
exits, an address removed, an interface that vanishes (and appears as often as
it likes), files edited and networks that come and go.

Time is counted in ticks of the poll and only where the code compares it:
`elapsed` in `serve_ap`. `connect_timeout`, the hook's limit and the grace of
`Daemon::stop` are calls that return; why the last two do is `WifiStack`'s.

### WifiStack

The supervisor is modelled once more, with one daemon (`program` says which) for
all that it runs in a role: `Transition` is a handler that returns, with the
announcement that follows, `SpawnDaemon` and `StopDaemon` begin and end what a
role runs. What comes between these, call by call, is `WifiSupervisor`'s. Beside
it are `wifi stop` (`stop` says where it is, from `Check` to `LinkDown`),
systemd's unit, and the hook processes of both. `at[w]` and `left[w]` are the
deadlines of `wait_until`, `terminate` and `Daemon::stop`: what is waited for,
and the polls that are left. A daemon that exits is a `"zombie"` until somebody
waits for it and `"gone"` when its PID is free; with `SIGCHLD` ignored (which a
program inherits from whoever starts it) it is gone at once, and waiting fails.

`Killed` and the stop job end the supervisor in the middle of any wait. The hook
it was waiting for (`loose`) and its daemon (`strays`) live on: systemd kills
those of the unit before the unit is inactive, and nobody those of a supervisor
started by hand. A start looks for the interface and for nothing else
(supervise.rs:82-104), so a supervisor may be started beside either; that the
unit's never meets what the unit's earlier ones left is the theorem
`UnitIsCleared`.

`clean`, `latest` and `muddled` are ghosts. `clean` records that this `wifi
stop` was told the truth by systemd, has not failed, and met nothing that was
started by hand or left by what was, which is what mod.rs:34-36 says it cannot
reach; a start by the unit between its check and its stop job does not disturb
it. `muddled` records that, as the last word was announced, a hook may have been
running that the program does not undertake to wait for or to stop: another
announcer's, one that a start by hand left or finds, or one met by a `wifi stop`
that is not clean.

### RobotIdentity

Each process has a `pc`; between reading `robot.conf` and renaming its
replacement over it lie three steps (`ReadConf`, `OpenTmp`/`FillTmp`, `Rename`).
`write_if_changed` is `Compare`, which skips the write. A file is its name, or
`Torn` while only part of it is there. `clean[p]` records that no other process
was active and no best-effort call failed since p's command began; it is read by
properties and by no guard. `robot.conf` is two assignments, either of which may
be unset, and `Upsert` is what a set makes of them (`RobotConf`): that this is
what reading and editing the text comes to is not assumed but proved
(`ConfText_proof`, `RobotConfImplemented`).

### ConfText

A line is its key, whether it begins in the first column and its value. The
initial states are every pair of files with up to `MaxLines` lines between them;
the actions are the three commands' edits.

### ApConfig

Raising the access point, with its data: the ID is read, `fallback-ap.conf` is
loaded and validated (`Load`, with an operator for each kind of value), two
files are written and the interface is addressed, with edits and failures
between any two of these. Texts are sequences of characters with a width, since
one limit is on bytes and another on characters. `names` and `writings` record
what either file has said since the raise began.

### ApStatus

Reports beside `ApConfig`, while the access point is up. `Begin` is what `iw`
answers; then the ID and the file are read, once for both fields (`wifi status`)
or once for each (`status`). `look` is the fields that are being worked out and
`todo` those that come after.

### Settings

`step` goes from selecting a profile over reading it (`Assign` for a line) to
what `render` makes of every setting; `Start` lays an environment over it. A
text is a record of what the two programs tell apart: white space outside and
inside of quotes, the kinds of characters, and the number it is. The rules for
robot IDs are there twice (`BuildId`, `RobotId`), each translated from its own
source, and so are those for numbers, with their widths.

### Experiments

One invocation at a time: `pc` goes from the selection of targets, over
`enabled.conf` and `experiments.conf` where they are needed (the check and the
creation of a missing file are two steps, and so are reading `enabled.conf` and
looking for the compose files of what it lists), to a loop over compose calls,
to the exit status. The compose files of several targets are looked for in one
step, and a directory is listed in one. `want` is what `parse_enabled` and then
`select` return, `todo` what is left of it. `local[e][u]` and `run[e][u]` are
the versions of the image and of the container of each service of a stack. A
compose call may fail at any time with any part of its work done. Other
invocations, docker itself and operators are `Elsewhere` (containers),
`SideLoad` (images), `ChangeStack`, `EditEnabled` and `EditSettings`, which
happen between any two steps.

Two ghosts say what others changed since the command was given. `edited` has the
stacks and files that anyone else edited. `late` has the targets for which a
change came too late to be taken into account: of `enabled.conf` once it is
read, of a stack once it is passed over or compose has been run on it, of images
between the pull and the up, of containers once the target is done with. A
command answers for every target that is not late, so also for a stack whose
compose file is edited or removed between its selection and its turn. What
compose does with profiles and orphans is external, and modelled from what
`stop`'s comments and arguments rely on (experiments.rs:482-498).

## 3. Runs

| Run | Instance | Question |
|---|---|---|
| `wifi` | 3 attempts, interval of 3 polls | safety, action properties, the refinement of `WifiService` and liveness, under every fault at every call |
| `wifi_dead_link` | 2 attempts, interval of 2 polls | a statement of a comment that the code does not keep |
| `wifi_stack` | up to one poll in each wait | stops, starts, kills and exits in any order: what is left behind, whose word shows, who is signalled, and that all of it ends |
| `id_safety` | 2 processes, 2 IDs, faults | torn files, agreement, announcements |
| `id_alone` | 1 process, 2 IDs, 2 domain IDs, faults | commands setting different keys after any history |
| `id_responder` | 1 process | a statement of a comment that does not hold |
| `conf_text` | two files with up to 4 lines between them | edits of every file, twice |
| `conf_indented` | same | an assignment that a set does not replace |
| `ap_config` | 4 IDs, 57 files with every boundary, one edit | what is on the air, and what is reported of it |
| `settings` | one setting of each kind, 15 texts, profiles of up to two lines | precedence; that what builds starts |
| `exp_one` | 1 experiment, 1 profile, 1 new version, up to 2 arguments | what success means; stale images |
| `exp_two` | 2 experiments without profiles, up to 2 arguments | what the failure or absence of one means to the other |

Why these bounds suffice. Three attempts distinguish the first, a middle and the
last; an interval of three polls has polls inside, on and past it. The
supervisor has no other counter, and its safety is proved for all values. Two
processes are what an interleaving of unlocked reads and writes needs, and two
IDs what is needed to tell an old name from a new one; the proofs again cover
any number. Four lines put an assignment before, between and after others. An
experiment's fate depends on others only through the list it is in, so profiles
and versions are checked with one experiment and lists with two. `MaxMeddling =
1` allows one intervention by others beside any number of failures of compose
and one new version; `MaxVersion`, `MaxArgs` and `Lists` bound what is
enumerated, and the lists of `MCExperiments` put a line that does not parse
before a good one and a second line for an experiment after its first. A wait of
one poll ends in time or does not, and the hook's grace of none has the second
limit follow the first at once: longer waits add steps in which nothing is
decided (the proofs are for all limits). A start by hand meets at most
`MaxByHand` hooks and daemons that earlier starts by hand left, and `MaxByHand`
is 0, so that there are finitely many; a start by the unit meets any number of
them, and the proofs are for any bound. In `settings` an environment gives all
settings the same value, as none of them looks at another's; the longest ID is 3
characters and a u32 ends at 100000, so that texts lie on both sides of either.
Symmetry is used for the processes of `id_safety`, which checks invariants only.

No run turns deadlock checking off: a command can always be started, and the
supervisor always has a call to make or a launch to wait for.

### Fairness

Only the WiFi runs need it. In `WifiSupervisor` it is weak fairness of the
supervisor's own steps. The thread is scheduled, and each call it waits in is
bounded by the code (the grace of a stop, the timeout given to udhcpc and the
hook, a sleep). A poll of a healthy connection changes nothing, and `MustMove`
keeps fairness from making it fail. No fairness is assumed of the surroundings:
where a property needs faults to have ceased it says so (`Quiet`), and nothing
makes them cease. In `WifiStack` it is weak fairness of the supervisor's
waiting loops, of the steps of a `wifi stop` that has begun, and of systemd's
end of a deactivation, for which it kills what is left in the cgroup. That
`systemctl` gives up is not needed. None is assumed of the hooks and daemons
themselves, nor of what is started by hand: `Returns` must hold of ones that
never exit.
SIGKILL takes effect at once; a process in an uninterruptible sleep would hold
up the code too. `docker compose` is waited for without a limit, so of the
termination of experiments commands only this is claimed: that every call that
does return brings the end nearer (`EveryStepCounts`).

## 4. What was found

Each is a run whose expected result is a violation, described with the line it
contradicts under `findings` in `PROJECT.json`:

* `WatchNoticesDeadLink`: a supplicant that exits leaves the address in place,
  and the connection is watched for ever.
* `ResponderFollows`: a run fails after the hostname file; the next one repairs
  everything but the responder.
* `SetTakesEffect`: an indented `ROBOT_ID` after a plain one survives a set.

Seen while modelling, and checked by no run: an access point whose daemons keep
dying restarts its interval each time (supervise.rs:246), so the client need not
be tried again; `stop e e:g` is merged into `stop e:g` (experiments.rs:202) and
stops less than `stop e`; `Daemon::stop` signals the PID also when `try_wait`
fails (daemon.rs:57), where `hook.rs:54-58` leaves such a process alone
(`SignalsOwn` has the condition); a unit that is deactivating by itself is not
waited for by `wifi stop` (mod.rs:29, the condition of `StopIsClean`); a profile
may set a path to white space in quotes (build.rs:447), which the environment
may not (config.rs:209).

## 5. What is proved

TLAPS checks every proof; nothing is assumed but the named assumptions on
constants in each module (positive tuning values, as `from_env` forces them;
distinct markers for absent and torn files; a valid default ID; limits that are
numbers).

`WifiSupervisor_proof`, for every tuning: `TypeOK`, `RadioExclusive`,
`NoOrphans`, `AddressIsOurs`, `HookTells` as invariants, `EarnedTransitions` as
an action property, and `ImplementsService`. The safety properties are not
inductive: whether a spawn is safe depends on what the handlers before it did.
`IInv` adds which handler each call belongs to (`Control`), where sessions may
exist (`Sessions`), what a teardown is done with (`Drained`), which calls run on
an interface just flushed (`Flushed`) and what an event says of the counters
(`Counted`). `RadioExclusive`, for instance, follows at `spawn_wpa` because a
running hostapd is owned by `ap` or by a killed process, and `Sessions` excludes
`ap` there. The refinement maps a supervisor that is past its boot to its state,
and the daemons to the radio's role.

The same module proves what safety there is in the liveness properties. `Left`
ranks the calls: how many are between this one and the return of its handler,
counted from its place in the handler (`Place`) and from the attempts, or the
polls of the retry interval, that are left (`Rounds`). `HandlersEnd` says that
`Left` is at most `Longest`, that every call lowers it, and that nothing raises
it but the transition into the next handler and a start; a poll of a healthy
connection leaves it. So no handler runs for ever, under any faults and without
any bound of an instance. `StartsAreDecided` adds for the first handlers after a
start that they are left for a connection or an access point, with READY sent,
within `9 * ClientAttempts + 7` calls. `ApIsLeftAlone` lists all that takes a
healthy access point down; `HeldForGood` says that a connection, or an access
point without credentials, is kept once faults have ceased; `AttemptsSucceed`
that an attempt begun then never leaves the way to a connection (`OnTrack`),
which by `HandlersEnd` has an end. What TLC adds, and TLAPS cannot, is the last
inference: that with fairness a rank that falls reaches its end.

`WifiStack_proof`, for all time limits: `TypeOK`, `StopIsClean`, `LastWord` and
`SignalsOwn`. `IInv` says that a hook runs only while it is waited for
(`Waiting`), that a hook or daemon left by the unit's supervisor has a unit that
is on its way down (`InUnit`, from which follows `UnitIsCleared`), and how far a
clean stop has got (`Clean`): that the supervisor has gone by the announcement
rests on the unit being inactive only when its cgroup is empty. `WaitsEnd` and
`StopEnds` are the ranks under `Returns`: `Cost` is what is left of a wait, at
most limit and grace (hook.rs:10) and lowered by each poll, with `Deadlines` as
the invariant it needs (a deadline is set once and not moved); `StopLeft` is
what is left of a `wifi stop`, seven steps and a hook, which nothing else makes
longer. `Role` works out who drives the radio from the processes that are alive,
left behind or not. `Refinement` says that with it the stack is a `WifiService`
as long as no supervisor is started beside a daemon that another one left
(`Crowded`), which the code does not exclude; then a daemon that outlives its
supervisor holds the radio until it exits. `UnitRefinement` has no such premise
where only the unit starts supervisors: systemd's clearing of the cgroup takes
its place.

`RobotIdentity_proof`, for any number of processes and IDs: `TypeOK`,
`NoTornFile`, `CleanRunAgrees`, `RenameIsAnnounced`, `KeepsOtherKey`. `IInv`
says which command may be where and that what is about to be renamed is whole
(`Places`), that a clean run has no company (`Alone`) and what it has
established by each step (`Progress`). Four more theorems need no clean run, or
more than one: `OnlySetsWriteConf` and `OnlyDerivingWritesFiles` say whose value
a file may take, whatever interleaves; `WritesAreNeeded` that a clean run
renames no derived file over an equal one; and `SteadyState` that once every
artifact, and every command in flight, has the ID `robot.conf` has (`Settled`),
any number of commands at once keep it so and begin no write, until
`robot.conf` changes or the robot reboots (id.rs:208). An older ID in the hands
of a command in flight is therefore the only way in which commands undo each
other's work.

`ConfText_proof`, for files of any length: `TypeOK`, `SetTakesHold`,
`KeepsEveryOtherLine`, `Settles`. `Assigned` maps a text to the two assignments
of `RobotConf`, and `RobotConfImplemented` says that `load` finds the same in
both and that a set of the text is `RobotConf`'s `Upsert`, unless the key is
shadowed by an indented assignment; it rests on `EditsOneAssignment` and
`UpsertReads`. `PlainStaysPlain` says that the program never makes such a
shadow: it takes an editor.

`ApConfig_proof`, for all IDs, limits, characters and files: `TypeOK`,
`OneConfiguration`, `RightName`, `NamesDiffer`. `LoadIsFaithful` says that what
is not refused is loaded as written; `IInv` says how much of it has been handed
on at each step. The width of a text is a fold, of which nothing but its
comparison with the limit is used.

`Experiments_proof`, for any experiments, units and profiles: `TypeOK`,
`Delivered`, `StopMeansStop`, `NobodyLeftOut`, `NothingHalfDone` and the action
property `NeverStale`. `IInv` says what a command knows at each `pc` (`Phase`),
that what it has read of `enabled.conf`, and then
what it is to act on, is what was asked and found (`Selected`), that a
target neither left to do, nor failed, nor late is as asked
(`Progress`), and that what is about to be started has been pulled since the
command was given, unless failures are tolerated (`Pulled`). Of single steps,
whatever else goes on: `TargetsOnly` says what a command may change at all - of
the disk only a configuration file that is missing, or that was saved by
somebody else after it was seen to be missing (`SeenAbsent`) -
`AttemptedOnce` that it comes to each target once (with `Untried` as invariant),
and `EveryStepCounts` that it gets nearer to its end, by the stage it is in
and by the targets it has left.

`Settings_proof`, for any settings, texts, profiles and environments: `TypeOK`,
`StartsWorkable` and `Layered`. `RulesAgree` is the two copies of the rule for
IDs; `IInv` relates the map that is read to the last line for each key.

`ApStatus_proof`: `StatusAgrees`, on top of the invariant of `ApConfig_proof`.

Only model-checked: liveness itself (`Returns` of `WifiStack`, and `Settles`,
`Recovers`, `Alternates`, `HoldsAp`, `CredentialsTakeEffect` of
`WifiSupervisor`), since fairness is about what is enabled, which is out of the
prover's reach; the ranks and the stable conditions above are the part of it
that is not. The properties of the violation runs do not hold, and have no
theorem.

## 6. What is not modelled

* Formatting, logging, the JSON and text of reports, `list`, and what `status`
  asks with a single command: no state.
* The rule for what is a valid experiment or profile name: members of a set.
* Two supervisors at once: the second would share interface and files with the
  first, and no code is about it.
* A READY=1 that cannot be sent (supervise.rs:146-150): it is only logged, and
  `ready` is what the program takes for sent.
* An interrupted `wifi stop`, and what a hook starts itself: a hook's process is
  signalled, its descendants are not.
* Whether the file system orders data before a rename: `write_atomically` does
  not fsync, and a power cut in the model keeps the order.
* Line ends and a missing last newline, which `upsert_key` normalises.
* An empty mDNS unit name, which turns the nudge off.
* The order of targets and names: each list is attempted in any order.
* The seconds of the time limits: polls are counted.

## 7. Plan

Done, all with proofs: `WifiService`, `WifiSupervisor`, `WifiStack`,
`RobotConf`, `RobotIdentity`, `ConfText`, `ApConfig`, `ApStatus`, `Settings` and
`Experiments`.

Left: `Boot`, which would have READY=1, `id apply` and the boot-time
`experiments start` in the order the units give them. The units are not in the
repository, so it would model them as external.
