----------------------------- MODULE WifiStack -----------------------------
(***************************************************************************)
(* The WiFi stack as a whole: `wifi stop`, systemd's unit and the          *)
(* supervisor beside each other, with the processes they start and the     *)
(* time they give them.  One daemon stands for all that the supervisor     *)
(* runs in a role; what it does call by call is WifiSupervisor.            *)
(*                                                                         *)
(* A process may exit at any moment and need not.  Time is counted in      *)
(* polls, from the moment that the code starts to wait.  One supervisor    *)
(* runs at a time, and any number of processes that earlier ones left.     *)
(***************************************************************************)
EXTENDS Naturals, FiniteSets

CONSTANTS
  HookLimit,   \* RUN_LIMIT in polls
  HookGrace,   \* the hook's TERM_GRACE
  DaemonGrace, \* the daemons' TERM_GRACE
  MaxByHand,   \* bound on the leftovers of starts by hand that one more start by hand meets
  None

ASSUME PollAssumption == {HookLimit, HookGrace, DaemonGrace} \subseteq Nat
ASSUME BoundAssumption == MaxByHand \in Nat

VARIABLES
  mode,       \* the supervisor's state, "down" when it does not run
  unit,       \* robotctl-wifi.service; "stopping" and "failing" are deactivating
  hand,       \* the supervisor was started by hand, not by the unit
  link, addr, \* the interface: "absent", "down" or "up"; whether it has an address
  hook,       \* the hook process each announcer waits for: its word
  loose,      \* hook processes whose announcer is gone: the word, and whether that
              \*        was started by hand, so that they are not in the unit's cgroup
  at, left,   \* what each is waiting for, and the polls until its deadline
  daemon,     \* "alive", "zombie", or "gone": reaped, and its PID free
  program,    \* what the daemon runs
  strays,     \* daemons whose supervisor is gone, as in loose
  ignored,    \* SIGCHLD is ignored, so that the kernel reaps and waiting fails
  stop,       \* where `wifi stop` is; "ok" or "err" when none is under way
  latest,     \* ghost: the last word announced
  muddled,    \* ghost: a hook that nobody waits for or stops may have been running
  clean       \* ghost: this `wifi stop` was told the truth, had no company, and did
              \*        not fail

sysd == <<unit, hand>>
nic  == <<link, addr>>
proc == <<daemon, program, strays, ignored>>
wait == <<hook, loose, at, left>>
word == <<latest, muddled>>
cmd  == <<stop, clean>>
vars == <<mode, sysd, nic, wait, proc, word, cmd>>

Announcers == {"sup", "stop"}
Waiters    == Announcers \cup {"radio"}
Modes      == {"down", "TryClient", "ClientUp", "FallbackAp"}
Words      == (Modes \ {"down"}) \cup {"off"}
Programs   == {"wpa_supplicant", "hostapd"}
Units      == {"inactive", "activating", "active", "stopping", "failing"}
Running    == {"activating", "active"}

ASSUME NoneAssumption == None \notin Words \cup Programs

(* Processes that nobody waits for any more. *)
Leftovers == loose \cup strays

(* The supervisor that runs is the unit's. *)
Ours == mode # "down" /\ ~hand

(* Something started by hand, or left behind by it, is there. *)
ByHand == hand \/ \E h \in Leftovers : h.by

Init ==
  /\ mode = "down"
  /\ unit = "inactive" /\ hand = FALSE
  /\ link \in {"absent", "down"} /\ addr = FALSE
  /\ hook = [b \in Announcers |-> None] /\ loose = {}
  /\ at = [w \in Waiters |-> "no"] /\ left = [w \in Waiters |-> 0]
  /\ daemon = "none" /\ program = None /\ strays = {} /\ ignored \in BOOLEAN
  /\ stop = "ok" /\ latest = None
  /\ muddled = FALSE /\ clean = FALSE

-----------------------------------------------------------------------------
Starts(w, phase, polls) ==
  at' = [at EXCEPT ![w] = phase] /\ left' = [left EXCEPT ![w] = polls]
Over(w) == Starts(w, "no", 0)

(* notify_within(), and its wait_until() and terminate().  Waiting fails   *)
(* only for a process that is gone, and is then over as well.              *)

(* Without a hook, or one that cannot be run, nothing is waited for. *)
Announce(b, w) ==
  /\ latest' = w
  /\ muddled' = \/ \E c \in Announcers \ {b} : hook[c] # None
                \/ b = "sup" /\ \E h \in loose : hand' \/ h.by
                \/ b = "stop" /\ ~clean /\ loose # {}
  /\ \/ UNCHANGED <<hook, at, left>>
     \/ /\ hook' = [hook EXCEPT ![b] = w]
        /\ Starts(b, "limit", HookLimit)
  /\ UNCHANGED <<loose>>

\* Bug: the hook is run and not waited for.
HookReturns_AtOnce(b) ==
  /\ at[b] # "no"
  /\ Over(b)
  /\ UNCHANGED hook

HookReturns(b) ==
  /\ at[b] # "no" /\ hook[b] = None
  /\ Over(b)
  /\ UNCHANGED hook

\* Bug: the deadline is looked at one poll late.
HookWaits_OneMore(b) ==
  /\ at[b] # "no" /\ hook[b] # None
  /\ left' = [left EXCEPT ![b] = @ - 1]
  /\ UNCHANGED <<hook, at>>

HookWaits(b) ==
  /\ at[b] # "no" /\ hook[b] # None /\ left[b] > 0
  /\ left' = [left EXCEPT ![b] = @ - 1]
  /\ UNCHANGED <<hook, at>>

\* Bug: there is no limit.
Terminates_Never(b) == FALSE /\ UNCHANGED <<hook, at, left>>

Terminates(b) ==
  /\ at[b] = "limit" /\ hook[b] # None /\ left[b] = 0
  /\ Starts(b, "grace", HookGrace)
  /\ UNCHANGED hook

Kills(b) ==
  /\ at[b] = "grace" /\ hook[b] # None /\ left[b] = 0
  /\ hook' = [hook EXCEPT ![b] = None]
  /\ Over(b)

Notify(b) ==
  /\ HookReturns(b) \/ HookWaits(b) \/ Terminates(b) \/ Kills(b)
  /\ UNCHANGED <<mode, sysd, nic, loose, proc, word, cmd>>

(* A process exits by itself, as it may at any time: a hook, or one that   *)
(* was left behind, which init reaps.                                      *)
HookExits(b) ==
  /\ hook[b] # None /\ hook' = [hook EXCEPT ![b] = None]
  /\ UNCHANGED <<mode, sysd, nic, loose, at, left, proc, word, cmd>>

Dies(h) ==
  /\ loose' = loose \ {h} /\ strays' = strays \ {h}
  /\ UNCHANGED <<mode, sysd, nic, hook, at, left, daemon, program, ignored, word, cmd>>

-----------------------------------------------------------------------------
(* The supervisor: run(), between whose calls anything may happen. *)

Free == mode # "down" /\ at["sup"] = "no" /\ at["radio"] = "no"

(* Nothing but the interface is looked for: no other supervisor, and no    *)
(* process that one may have left behind.                                  *)
Launch ==
  /\ mode = "down" /\ mode' = "TryClient"
  /\ link # "absent"
  /\ \/ Cardinality({h \in Leftovers : h.by}) <= MaxByHand
        /\ hand' = TRUE /\ UNCHANGED unit
     \/ unit \in {"inactive", "activating"} /\ hand' = FALSE /\ unit' = "activating"
  /\ clean' = (clean /\ stop = "job" /\ ~hand')
  /\ Announce("sup", "TryClient")
  /\ UNCHANGED <<nic, proc, stop>>

GoesTo(m) == mode' = m /\ Announce("sup", m)

(* A handler returns, and run() announces the state it goes to: connected, *)
(* lost, given up, or a retry, for which it leaves the access point to     *)
(* try_client() to take down.                                              *)
Transition ==
  /\ Free
  /\ UNCHANGED <<sysd, link, proc, cmd>>
  /\ \/ mode = "TryClient" /\ daemon # "none" /\ program = "wpa_supplicant"
        /\ link # "absent" /\ addr' = TRUE /\ GoesTo("ClientUp")
     \/ mode = "ClientUp" /\ daemon = "none" /\ UNCHANGED addr /\ GoesTo("TryClient")
     \/ mode = "TryClient" /\ daemon = "none" /\ UNCHANGED addr /\ GoesTo("FallbackAp")
     \/ mode = "FallbackAp" /\ program = "hostapd" /\ UNCHANGED addr /\ GoesTo("TryClient")

(* notify_ready(). *)
Ready ==
  /\ Free /\ ~hand /\ unit = "activating" /\ mode \in {"ClientUp", "FallbackAp"}
  /\ unit' = "active"
  /\ UNCHANGED <<mode, hand, nic, wait, proc, word, cmd>>

(* Flush, link up, and a daemon; the access point has an address first. *)
SpawnDaemon ==
  /\ Free /\ daemon = "none" /\ link # "absent"
  /\ daemon' = "alive" /\ link' = "up"
  /\ \/ mode = "TryClient" /\ program' = "wpa_supplicant" /\ addr' = FALSE
     \/ mode = "FallbackAp" /\ program' = "hostapd" /\ addr' = TRUE
  /\ UNCHANGED <<mode, sysd, wait, strays, ignored, word, cmd>>

(* Daemon::is_running(), which the access point is watched with. *)
IsRunning ==
  /\ Free /\ mode = "FallbackAp" /\ daemon = "zombie"
  /\ daemon' = "gone"
  /\ UNCHANGED <<mode, sysd, nic, wait, program, strays, ignored, word, cmd>>

(* What try_wait() has to say of a daemon that is not alive. *)
Exited == daemon = "zombie" \/ (daemon = "gone" /\ ~ignored)

NoDaemon == daemon' = "none" /\ program' = None

\* Bug: the PID is signalled without a look at whether it is still ours.
StopDaemon_Signals ==
  /\ Free /\ daemon # "none"
  /\ Starts("radio", "grace", DaemonGrace)
  /\ UNCHANGED <<mode, sysd, nic, hook, loose, proc, word, cmd>>

(* Daemon::stop(): nothing to do for one known to have exited. *)
StopDaemon ==
  /\ Free /\ daemon # "none"
  /\ IF Exited
     THEN NoDaemon /\ UNCHANGED <<at, left>>
     ELSE Starts("radio", "grace", DaemonGrace) /\ UNCHANGED <<daemon, program>>
  /\ UNCHANGED <<mode, sysd, nic, hook, loose, strays, ignored, word, cmd>>

AwaitDaemon ==
  /\ at["radio"] = "grace" /\ left["radio"] > 0
  /\ IF Exited
     THEN NoDaemon /\ Over("radio")
     ELSE left' = [left EXCEPT !["radio"] = @ - 1] /\ UNCHANGED <<daemon, program, at>>
  /\ UNCHANGED <<mode, sysd, nic, hook, loose, strays, ignored, word, cmd>>

KillDaemon ==
  /\ at["radio"] = "grace" /\ left["radio"] = 0
  /\ NoDaemon /\ Over("radio")
  /\ UNCHANGED <<mode, sysd, nic, hook, loose, strays, ignored, word, cmd>>

(* The supervisor's daemon exits by itself. *)
DaemonExits ==
  /\ daemon = "alive"
  /\ daemon' = IF ignored THEN "gone" ELSE "zombie"
  /\ UNCHANGED <<mode, sysd, nic, wait, program, strays, ignored, word, cmd>>

(* A handler returns an error, which drops its daemons: nothing is announced. *)
Ends ==
  /\ Free /\ daemon = "none" /\ mode' = "down" /\ hand' = FALSE
  /\ unit' = IF hand THEN unit ELSE "failing"
  /\ UNCHANGED <<nic, wait, proc, word, cmd>>

(* The supervisor is killed in the middle of anything, and leaves behind   *)
(* what it was waiting for, and the daemon that it had.                    *)
Gone ==
  /\ mode # "down" /\ mode' = "down" /\ hand' = FALSE
  /\ hook' = [hook EXCEPT !["sup"] = None]
  /\ loose' = loose \cup {[word |-> w, by |-> hand] : w \in {hook["sup"]} \ {None}}
  /\ at' = [at EXCEPT !["sup"] = "no", !["radio"] = "no"]
  /\ left' = [left EXCEPT !["sup"] = 0, !["radio"] = 0]
  /\ strays' = strays \cup {[program |-> p, by |-> hand] :
                              p \in IF daemon = "alive" THEN {program} ELSE {}}
  /\ NoDaemon
  /\ UNCHANGED <<nic, ignored, word, clean>>

Killed ==
  /\ Gone
  /\ unit' = IF hand THEN unit ELSE "failing"
  /\ UNCHANGED stop

-----------------------------------------------------------------------------
(* systemd.  It kills what is in the unit's cgroup before the unit is      *)
(* inactive, and a unit that failed may be started again: until then it    *)
(* is "activating".                                                        *)
Deactivated ==
  /\ ~Ours /\ \A h \in Leftovers : h.by
  /\ \/ unit = "stopping" /\ unit' = "inactive"
     \/ unit = "failing" /\ unit' \in {"inactive", "activating"}
  /\ stop' = IF stop = "wait" THEN "announce" ELSE stop
  /\ UNCHANGED <<mode, hand, nic, wait, proc, word, clean>>

NicChanges ==
  /\ link' = IF link = "absent" THEN "down" ELSE "absent"
  /\ addr' = FALSE
  /\ UNCHANGED <<mode, sysd, wait, proc, word, cmd>>

-----------------------------------------------------------------------------
(* wifi::stop(). *)

Begin ==
  /\ stop \in {"ok", "err"}
  /\ stop' = "check" /\ clean' = FALSE
  /\ UNCHANGED <<mode, sysd, nic, wait, proc, word>>

\* Bug: a unit that is still starting is not one to stop.
Check_OnlyActive ==
  /\ stop = "check"
  /\ \E answered \in BOOLEAN :
       /\ stop' = IF answered /\ unit = "active" THEN "job" ELSE "announce"
       /\ clean' = (answered /\ unit \in Running \cup {"inactive"} /\ ~ByHand)
  /\ UNCHANGED <<mode, sysd, nic, wait, proc, word>>

(* is_active(): the state, or "unknown" if systemctl does not say. *)
Check ==
  /\ stop = "check"
  /\ \E answered \in BOOLEAN :
       /\ stop' = IF answered /\ unit \in Running THEN "job" ELSE "announce"
       /\ clean' = (answered /\ unit \in Running \cup {"inactive"} /\ ~ByHand)
  /\ UNCHANGED <<mode, sysd, nic, wait, proc, word>>

(* `systemctl stop`, which returns when the unit is inactive. *)
StopUnit ==
  /\ stop = "job"
  /\ \/ /\ Ours /\ Gone
        /\ unit' = "stopping" /\ stop' = "wait"
     \/ /\ ~Ours
        /\ unit' = IF unit \in {"failing", "stopping"} THEN "stopping" ELSE "inactive"
        /\ stop' = IF unit' = "inactive" THEN "announce" ELSE "wait"
        /\ UNCHANGED <<mode, hand, nic, wait, proc, word, clean>>

StopFails ==
  /\ stop \in {"job", "wait"}
  /\ stop' = "err" /\ clean' = FALSE
  /\ UNCHANGED <<mode, sysd, nic, wait, proc, word>>

AnnounceOff ==
  /\ stop = "announce"
  /\ Announce("stop", "off")
  /\ stop' = "look"
  /\ UNCHANGED <<mode, sysd, nic, proc, clean>>

(* interface_exists(), once the hook is done with. *)
Look ==
  /\ stop = "look" /\ at["stop"] = "no"
  /\ stop' = IF link = "absent" THEN "ok" ELSE "flush"
  /\ UNCHANGED <<mode, sysd, nic, wait, proc, word, clean>>

Flush ==
  /\ stop = "flush"
  /\ \/ link # "absent" /\ addr' = FALSE /\ stop' = "down" /\ UNCHANGED clean
     \/ UNCHANGED addr /\ stop' = "err" /\ clean' = FALSE
  /\ UNCHANGED <<mode, sysd, link, wait, proc, word>>

LinkDown ==
  /\ stop = "down"
  /\ \/ link # "absent" /\ link' = "down" /\ stop' = "ok" /\ UNCHANGED clean
     \/ UNCHANGED link /\ stop' = "err" /\ clean' = FALSE
  /\ UNCHANGED <<mode, sysd, addr, wait, proc, word>>

-----------------------------------------------------------------------------
Supervisor ==
  \/ Transition \/ Ready \/ SpawnDaemon \/ IsRunning
  \/ StopDaemon \/ AwaitDaemon \/ KillDaemon \/ Ends
Command == Check \/ StopUnit \/ AnnounceOff \/ Look \/ Flush \/ LinkDown
Around  ==
  \/ Launch \/ Killed \/ Begin \/ StopFails \/ DaemonExits \/ NicChanges
  \/ \E b \in Announcers : HookExits(b)
  \/ \E h \in Leftovers : Dies(h)

Next ==
  \/ \E b \in Announcers : Notify(b)
  \/ Supervisor \/ Command \/ Deactivated \/ Around

(* The program runs on, and systemd does what it has begun, killing what   *)
(* is left in the cgroup.  Nothing is assumed of hooks, of daemons, of the *)
(* interface or of what is started by hand, nor does systemctl give up.    *)
CgroupKill ==
  /\ unit \in {"stopping", "failing"}
  /\ \E h \in Leftovers : ~h.by /\ Dies(h)

Fairness ==
  /\ WF_vars(Notify("sup") \/ AwaitDaemon \/ KillDaemon)
  /\ WF_vars(Notify("stop") \/ Command)
  /\ WF_vars(Deactivated \/ CgroupKill)

Spec == Init /\ [][Next]_vars /\ Fairness

-----------------------------------------------------------------------------
(* Who drives the radio: the daemon of the supervisor or, when that has    *)
(* none, one that was left behind.                                         *)
Role ==
  LET driving == IF daemon = "alive" THEN {program} ELSE {h.program : h \in strays}
  IN  IF "wpa_supplicant" \in driving THEN "station"
      ELSE IF driving # {} THEN "ap" ELSE "idle"

Service == INSTANCE WifiService WITH role <- Role

(* A supervisor runs beside a daemon that is not its own. *)
Crowded == mode # "down" /\ strays # {}

-----------------------------------------------------------------------------
(* The values that the program and systemd can be in, and no deadline is   *)
(* ever missed: wait_until() looks at the clock before it sleeps.          *)
TypeOK ==
  /\ mode \in Modes
  /\ unit \in Units /\ hand \in BOOLEAN
  /\ link \in {"absent", "down", "up"} /\ addr \in BOOLEAN
  /\ hook \in [Announcers -> Words \cup {None}]
  /\ loose \subseteq [word : Words, by : BOOLEAN]
  /\ at \in [Waiters -> {"no", "limit", "grace"}] /\ left \in [Waiters -> Nat]
  /\ daemon \in {"none", "alive", "zombie", "gone"} /\ ignored \in BOOLEAN
  /\ program \in Programs \cup {None} /\ (program = None <=> daemon = "none")
  /\ strays \subseteq [program : Programs, by : BOOLEAN]
  /\ stop \in {"check", "job", "wait", "announce", "look", "flush", "down", "ok", "err"}
  /\ latest \in Words \cup {None}
  /\ {muddled, clean} \subseteq BOOLEAN

(* A `wifi stop` that succeeds leaves nothing behind: no supervisor, no    *)
(* daemon, no hook, no address, and "off" is the last word - provided that *)
(* systemd answered, the unit was not on its way down by itself, and       *)
(* nothing was started by hand, or left by what was, which mod.rs:34 says  *)
(* it cannot reach.                                                        *)
StopIsClean ==
  stop = "ok" /\ clean =>
    /\ mode = "down" /\ daemon = "none"
    /\ Leftovers = {} /\ \A b \in Announcers : hook[b] = None
    /\ link # "up" /\ ~addr /\ latest = "off"

(* The hook sets the indicator, at any moment while it runs: no hook with  *)
(* an older word than the last one is running, since each is waited for,   *)
(* and killed, before the next is run.  That includes the unit's next      *)
(* supervisor after a kill, and the `wifi stop` that stopped it: systemd   *)
(* has then killed the hook that was left.  It does not include two that   *)
(* announce at once, nor, of those started by hand, the next one.          *)
Showing == {hook[b] : b \in Announcers} \cup {h.word : h \in loose}
LastWord == muddled \/ Showing \subseteq {latest, None}

(* A PID that is signalled is still the daemon's, as daemon.rs:61 argues:  *)
(* not one that was reaped, which the kernel may have given to another     *)
(* process.  The argument needs SIGCHLD not to be ignored.                 *)
SignalsOwn == at["radio"] = "grace" /\ daemon = "gone" => ignored

(* No hook and no daemon holds the program up: the supervisor always gets  *)
(* to go on, and every `wifi stop` ends.                                   *)
Returns ==
  /\ []<>(mode = "down" \/ Free)
  /\ []<>(stop \in {"ok", "err"})

=============================================================================
