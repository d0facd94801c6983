--------------------------- MODULE WifiSupervisor ---------------------------
(***************************************************************************)
(* `robotctl wifi start`: the loop that tries the configured network,      *)
(* watches the connection, and raises a recovery access point when there   *)
(* is none, together with the three daemons it owns, the interface they    *)
(* share, and everything that may go wrong around them.                    *)
(*                                                                         *)
(* The supervisor is one thread.  Its steps are the commands it runs: `pc` *)
(* names the call that comes next, so that a daemon can exit, the          *)
(* interface vanish or the process be killed between any two of them.      *)
(* What it keeps in memory (`client`, `ap`: the two Option<Session>s) and  *)
(* what is really running (`proc`) are separate variables, and most of     *)
(* what can go wrong is a disagreement between the two.                    *)
(***************************************************************************)
EXTENDS Naturals

CONSTANTS
  ClientAttempts,   \* tuning.client_attempts
  ApRetry,          \* tuning.ap_retry_sec, in ticks
  LinkPoll          \* tuning.link_poll_sec, in ticks

\* SuperviseTuning::from_env forces all three to at least 1.
ASSUME AttemptsAssumption == ClientAttempts \in Nat \ {0}
ASSUME ApRetryAssumption  == ApRetry \in Nat \ {0}
ASSUME LinkPollAssumption == LinkPoll \in Nat \ {0}

VARIABLES
  \* the process: where it is and what it holds in memory
  pc,         \* the next call
  state,      \* `state` of run()
  event,      \* what the last step() returned, read when pc = "decide"
  attempt,    \* `attempt` of try_client()
  elapsed,    \* started.elapsed() of serve_ap(), in ticks, at most ApRetry
  client,     \* self.client.is_some()
  ap,         \* self.ap.is_some()
  ready,      \* announced_ready
  \* the robot: what the supervisor's commands act on
  proc,       \* each daemon: not there, running, or sent SIGTERM
  addrs,      \* whose addresses the interface carries
  link,       \* the interface is administratively up
  hook,       \* the last state name handed to the state hook
  \* the surroundings, which no step of the supervisor changes
  iface,      \* the interface exists
  clientConf, \* client.conf is a file
  apConf,     \* the robot ID and the AP settings load and validate
  net,        \* the configured network is in range and hands out leases
  calm        \* no fault happens from here on (never assumed to come)

memory  == <<state, event, attempt, elapsed, client, ap, ready>>
world   == <<proc, addrs, link>>
env     == <<iface, clientConf, apConf, net, calm>>
process == <<pc, memory, world, hook>>
vars    == <<pc, memory, world, hook, env>>

-----------------------------------------------------------------------------
States  == {"TryClient", "ClientUp", "FallbackAp"}
Events  == {"ClientConnected", "ClientFailed", "ClientConfigMissing",
            "LinkLost", "ApRetryDue", "ApDied", "ApHeld"}
Daemons == {"wpa_supplicant", "hostapd", "dnsmasq"}
ProcStates == {"none", "running", "term"}
Hooks   == States \cup {"off"}

Stopped == {"down", "failed"}
DropApPcs == {"stop_hostapd", "await_hostapd", "stop_dnsmasq",
              "await_dnsmasq", "flush_ap"}
StopClientPcs == {"stop_client", "await_client", "flush_client"}
TryPcs   == {"stop_ap", "connect", "flush_for_client", "link_up_for_client",
             "spawn_wpa", "dhcp", "read_addr", "drop_wpa", "await_drop"}
RaisePcs == {"ensure_ap", "load_ap", "flush_for_ap", "add_ap_address",
             "link_up_for_ap", "spawn_dnsmasq", "spawn_hostapd",
             "undo_dnsmasq", "await_undo"}
Pcs == Stopped \cup DropApPcs \cup StopClientPcs \cup TryPcs \cup RaisePcs
         \cup {"boot", "watch", "serve", "decide"}

Alive(d) == proc[d] # "none"
Running  == pc \notin Stopped
ApHealthy == proc["hostapd"] = "running" /\ proc["dnsmasq"] = "running"

\* Bug: a dead AP is taken as a reason to retry the client at once.
NextState_DeadApRetries(ev) ==
  CASE ev = "ClientConnected" -> "ClientUp"
    [] ev \in {"ClientFailed", "ClientConfigMissing", "ApHeld"} -> "FallbackAp"
    [] ev \in {"LinkLost", "ApRetryDue", "ApDied"} -> "TryClient"

\* Bug: a lost connection goes straight to the AP.
NextState_LostRaisesAp(ev) ==
  CASE ev = "ClientConnected" -> "ClientUp"
    [] ev = "ApRetryDue" -> "TryClient"
    [] OTHER -> "FallbackAp"

\* Bug: the interval elapses and the state is re-entered.
NextState_NeverLeavesAp(ev) ==
  CASE ev = "ClientConnected" -> "ClientUp"
    [] ev = "LinkLost" -> "TryClient"
    [] OTHER -> "FallbackAp"

(* The table.  No row reads the current state. *)
NextState(ev) ==
  CASE ev = "ClientConnected" -> "ClientUp"
    [] ev \in {"ClientFailed", "ClientConfigMissing"} -> "FallbackAp"
    [] ev \in {"LinkLost", "ApRetryDue"} -> "TryClient"
    [] ev \in {"ApDied", "ApHeld"} -> "FallbackAp"

(* Where step() enters each state: the first call of its handler. *)
Entry(s) ==
  CASE s = "TryClient"  -> "stop_ap"
    [] s = "ClientUp"   -> "watch"
    [] s = "FallbackAp" -> "stop_client"

(* A program started afresh: nothing of an earlier run is in memory. *)
Fresh ==
  /\ state' = "TryClient" /\ event' = "LinkLost"
  /\ attempt' = 1 /\ elapsed' = 0
  /\ client' = FALSE /\ ap' = FALSE /\ ready' = FALSE

Init ==
  /\ pc = "down"
  /\ state = "TryClient" /\ event = "LinkLost"
  /\ attempt = 1 /\ elapsed = 0
  /\ client = FALSE /\ ap = FALSE /\ ready = FALSE
  /\ proc = [d \in Daemons |-> "none"]
  /\ addrs = {} /\ link = FALSE
  /\ hook = "off"
  /\ iface \in BOOLEAN /\ clientConf \in BOOLEAN
  /\ apConf \in BOOLEAN /\ net \in BOOLEAN
  /\ calm = FALSE

-----------------------------------------------------------------------------
(* How a command or a spawn may end.  A command on a missing interface     *)
(* fails; any other fails for no reason the model shows, until `calm`.     *)

Spawns   == IF calm THEN {TRUE} ELSE BOOLEAN
Commands == IF iface THEN Spawns ELSE {FALSE}

Goto(label) == pc' = label

Returns(ev) == pc' = "decide" /\ event' = ev

(* An error leaves run() through `?`: the process exits.  Both sessions    *)
(* are None at every place that can fail, so nothing is stopped on the     *)
(* way out, and no state is announced.                                     *)
ErrorExit == pc' = "failed" /\ Fresh

(* Daemon::stop up to the SIGTERM: a daemon that has exited is reaped and  *)
(* needs no signal.  AwaitExit is the rest: it exits within the grace or   *)
(* is killed, and is waited for either way.                                *)
StopDaemon(d, await, done) ==
  /\ proc' = [proc EXCEPT ![d] = IF @ = "running" THEN "term" ELSE "none"]
  /\ pc' = IF proc[d] = "running" THEN await ELSE done

AwaitExit(d, done) ==
  /\ proc' = [proc EXCEPT ![d] = "none"]
  /\ pc' = done

(* `ip addr flush`, which a caller may insist on or shrug off. *)
Flush(ok) == IF ok THEN addrs' = {} ELSE UNCHANGED addrs

-----------------------------------------------------------------------------
(* run() *)

\* Bug: the hook is run on changes only, not for the first state.
Boot_Unannounced ==
  /\ pc = "boot"
  /\ \E ok \in Commands :
       IF ok THEN Goto("stop_ap") /\ UNCHANGED memory ELSE ErrorExit
  /\ UNCHANGED <<world, hook>>

(* Startup stops on a missing interface; otherwise the first state is      *)
(* announced before anything is attempted.                                 *)
Boot ==
  /\ pc = "boot"
  /\ \E ok \in Commands :
       IF ok
       THEN /\ Goto("stop_ap") /\ hook' = "TryClient"
            /\ UNCHANGED memory
       ELSE ErrorExit /\ UNCHANGED hook
  /\ UNCHANGED world

\* Bug: only a client connection counts as decided.
Transition_ReadyOnClientOnly ==
  /\ pc = "decide"
  /\ LET next == NextState(event) IN
       /\ state' = next
       /\ hook' = IF next # state THEN next ELSE hook
       /\ ready' = (ready \/ next = "ClientUp")
       /\ Goto(Entry(next))
  /\ UNCHANGED <<event, attempt, elapsed, client, ap, world>>

(* One turn of the loop after step() returned: the table, the hook on a    *)
(* change of state, READY=1 the first time the WiFi is decided.  `ready`   *)
(* is announced_ready: that sending it may fail is only logged.            *)
Transition ==
  /\ pc = "decide"
  /\ LET next == NextState(event) IN
       /\ state' = next
       /\ hook' = IF next # state THEN next ELSE hook
       /\ ready' = (ready \/ next \in {"ClientUp", "FallbackAp"})
       /\ Goto(Entry(next))
  /\ UNCHANGED <<event, attempt, elapsed, client, ap, world>>

-----------------------------------------------------------------------------
(* Dropping the ApSession: hostapd, then dnsmasq, then the address.  Both  *)
(* try_client (before the station) and serve_ap (an unhealthy AP) do it.   *)

StopHostapd ==
  /\ pc = "stop_hostapd"
  /\ StopDaemon("hostapd", "await_hostapd", "stop_dnsmasq")
  /\ UNCHANGED <<memory, addrs, link, hook>>

AwaitHostapd ==
  /\ pc = "await_hostapd"
  /\ AwaitExit("hostapd", "stop_dnsmasq")
  /\ UNCHANGED <<memory, addrs, link, hook>>

StopDnsmasq ==
  /\ pc = "stop_dnsmasq"
  /\ StopDaemon("dnsmasq", "await_dnsmasq", "flush_ap")
  /\ UNCHANGED <<memory, addrs, link, hook>>

AwaitDnsmasq ==
  /\ pc = "await_dnsmasq"
  /\ AwaitExit("dnsmasq", "flush_ap")
  /\ UNCHANGED <<memory, addrs, link, hook>>

(* Best effort: the AP's address may survive its AP. *)
FlushAp ==
  /\ pc = "flush_ap"
  /\ \E ok \in Commands : Flush(ok)
  /\ ap' = FALSE
  /\ IF state = "TryClient"
     THEN Goto("connect") /\ attempt' = 1 /\ UNCHANGED event
     ELSE Returns("ApDied") /\ UNCHANGED attempt
  /\ UNCHANGED <<state, elapsed, client, ready, proc, link, hook>>

-----------------------------------------------------------------------------
(* try_client() *)

\* Bug: the AP is left to be replaced later.
StopAp_KeepsAp ==
  /\ pc = "stop_ap"
  /\ Goto("connect")
  /\ attempt' = 1
  /\ UNCHANGED <<state, event, elapsed, client, ap, ready, world, hook>>

(* "The AP must be fully down before wpa_supplicant touches the interface" *)
StopAp ==
  /\ pc = "stop_ap"
  /\ Goto(IF ap THEN "stop_hostapd" ELSE "connect")
  /\ attempt' = 1
  /\ UNCHANGED <<state, event, elapsed, client, ap, ready, world, hook>>

(* client::connect looks for the credentials, then for the interface. *)
Connect ==
  /\ pc = "connect"
  /\ IF ~clientConf
     THEN Returns("ClientConfigMissing")
     ELSE /\ \E ok \in Commands :
               Goto(IF ok THEN "flush_for_client" ELSE "stop_client")
          /\ UNCHANGED event
  /\ UNCHANGED <<state, attempt, elapsed, client, ap, ready, world, hook>>

\* Bug: run_best_effort in place of run.
FlushForClient_BestEffort ==
  /\ pc = "flush_for_client"
  /\ \E ok \in Commands : Flush(ok)
  /\ Goto("link_up_for_client")
  /\ UNCHANGED <<memory, proc, link, hook>>

(* Not best effort: an address found later is one this attempt obtained. *)
FlushForClient ==
  /\ pc = "flush_for_client"
  /\ \E ok \in Commands :
       /\ Flush(ok)
       /\ Goto(IF ok THEN "link_up_for_client" ELSE "stop_client")
  /\ UNCHANGED <<memory, proc, link, hook>>

LinkUpForClient ==
  /\ pc = "link_up_for_client"
  /\ \E ok \in Commands :
       /\ link' = (link \/ ok)
       /\ Goto(IF ok THEN "spawn_wpa" ELSE "stop_client")
  /\ UNCHANGED <<memory, proc, addrs, hook>>

SpawnWpa ==
  /\ pc = "spawn_wpa"
  /\ \E ok \in Spawns :
       /\ proc' = [proc EXCEPT !["wpa_supplicant"] =
                                  IF ok THEN "running" ELSE @]
       /\ Goto(IF ok THEN "dhcp" ELSE "stop_client")
  /\ UNCHANGED <<memory, addrs, link, hook>>

(* udhcpc -n -q: one lease or none.  It needs the association and the      *)
(* network.  Its exit status is only logged.                               *)
Dhcp ==
  /\ pc = "dhcp"
  /\ \E ok \in Commands :
       addrs' = IF ok /\ link /\ net /\ proc["wpa_supplicant"] = "running"
                THEN addrs \cup {"lease"} ELSE addrs
  /\ Goto("read_addr")
  /\ UNCHANGED <<memory, proc, link, hook>>

\* Bug: the supplicant is not dropped by the failed attempt.
ReadAddr_LeaksSupplicant ==
  /\ pc = "read_addr"
  /\ \E ok \in Commands :
       IF ok /\ addrs # {}
       THEN client' = TRUE /\ Returns("ClientConnected")
       ELSE Goto("stop_client") /\ UNCHANGED <<client, event>>
  /\ UNCHANGED <<state, attempt, elapsed, ap, ready, world, hook>>

(* What decides the attempt is whether the interface shows any address. *)
ReadAddr ==
  /\ pc = "read_addr"
  /\ \E ok \in Commands :
       IF ok /\ addrs # {}
       THEN client' = TRUE /\ Returns("ClientConnected")
       ELSE Goto("drop_wpa") /\ UNCHANGED <<client, event>>
  /\ UNCHANGED <<state, attempt, elapsed, ap, ready, world, hook>>

(* The bail! drops the supplicant on the way out of connect_inner. *)
DropWpa ==
  /\ pc = "drop_wpa"
  /\ StopDaemon("wpa_supplicant", "await_drop", "stop_client")
  /\ UNCHANGED <<memory, addrs, link, hook>>

AwaitDrop ==
  /\ pc = "await_drop"
  /\ AwaitExit("wpa_supplicant", "stop_client")
  /\ UNCHANGED <<memory, addrs, link, hook>>

-----------------------------------------------------------------------------
(* stop_client(): the session, if there is one, is taken and dropped,      *)
(* which stops wpa_supplicant; then the address is flushed, as well as it  *)
(* goes.  What follows depends on who called: a failed attempt goes on to  *)
(* the next one or gives up, a lost connection returns, serve_ap raises    *)
(* its access point.                                                       *)

\* Bug: one attempt too many.
AfterStopClient_OffByOne ==
  \/ /\ state = "TryClient" /\ attempt <= ClientAttempts
     /\ Goto("connect") /\ attempt' = attempt + 1 /\ UNCHANGED event
  \/ /\ state = "TryClient" /\ attempt > ClientAttempts
     /\ Returns("ClientFailed") /\ UNCHANGED attempt
  \/ /\ state = "ClientUp"
     /\ Returns("LinkLost") /\ UNCHANGED attempt
  \/ /\ state = "FallbackAp"
     /\ Goto("ensure_ap") /\ UNCHANGED <<event, attempt>>

\* Bug: the attempts are not counted.
AfterStopClient_TriesForEver ==
  \/ /\ state = "TryClient"
     /\ Goto("connect") /\ UNCHANGED <<event, attempt>>
  \/ /\ state = "ClientUp"
     /\ Returns("LinkLost") /\ UNCHANGED attempt
  \/ /\ state = "FallbackAp"
     /\ Goto("ensure_ap") /\ UNCHANGED <<event, attempt>>

AfterStopClient ==
  \/ /\ state = "TryClient" /\ attempt < ClientAttempts
     /\ Goto("connect") /\ attempt' = attempt + 1 /\ UNCHANGED event
  \/ /\ state = "TryClient" /\ attempt >= ClientAttempts
     /\ Returns("ClientFailed") /\ UNCHANGED attempt
  \/ /\ state = "ClientUp"
     /\ Returns("LinkLost") /\ UNCHANGED attempt
  \/ /\ state = "FallbackAp"
     /\ Goto("ensure_ap") /\ UNCHANGED <<event, attempt>>

StopClient ==
  /\ pc = "stop_client"
  /\ client' = FALSE
  /\ IF client
     THEN /\ StopDaemon("wpa_supplicant", "await_client", "flush_client")
          /\ UNCHANGED <<event, attempt>>
     ELSE AfterStopClient /\ UNCHANGED proc
  /\ UNCHANGED <<state, elapsed, ap, ready, addrs, link, hook>>

AwaitClient ==
  /\ pc = "await_client"
  /\ AwaitExit("wpa_supplicant", "flush_client")
  /\ UNCHANGED <<memory, addrs, link, hook>>

FlushClient ==
  /\ pc = "flush_client"
  /\ \E ok \in Commands : Flush(ok)
  /\ AfterStopClient
  /\ UNCHANGED <<state, elapsed, client, ap, ready, proc, link, hook>>

-----------------------------------------------------------------------------
(* watch_client(): one poll.  Only the address is looked at. *)
Watch ==
  /\ pc = "watch"
  /\ \E ok \in Commands :
       Goto(IF ok /\ addrs # {} THEN "watch" ELSE "stop_client")
  /\ UNCHANGED <<memory, world, hook>>

-----------------------------------------------------------------------------
(* serve_ap(), and ap::start() inside it.  Every `?` is an ErrorExit. *)

(* A session that is still there is served on; its interval starts over. *)
EnsureAp ==
  /\ pc = "ensure_ap"
  /\ Goto(IF ap THEN "serve" ELSE "load_ap")
  /\ elapsed' = 0
  /\ UNCHANGED <<state, event, attempt, client, ap, ready, world, hook>>

(* Identity and settings are read afresh, the interface required, the two  *)
(* daemon configs written.                                                 *)
LoadAp ==
  /\ pc = "load_ap"
  /\ \E ok \in Commands :
       IF ok /\ apConf
       THEN Goto("flush_for_ap") /\ UNCHANGED memory
       ELSE ErrorExit
  /\ UNCHANGED <<world, hook>>

FlushForAp ==
  /\ pc = "flush_for_ap"
  /\ \E ok \in Commands :
       /\ Flush(ok)
       /\ IF ok THEN Goto("add_ap_address") /\ UNCHANGED memory ELSE ErrorExit
  /\ UNCHANGED <<proc, link, hook>>

AddApAddress ==
  /\ pc = "add_ap_address"
  /\ \E ok \in Commands :
       /\ addrs' = IF ok THEN addrs \cup {"ap"} ELSE addrs
       /\ IF ok THEN Goto("link_up_for_ap") /\ UNCHANGED memory ELSE ErrorExit
  /\ UNCHANGED <<proc, link, hook>>

LinkUpForAp ==
  /\ pc = "link_up_for_ap"
  /\ \E ok \in Commands :
       /\ link' = (link \/ ok)
       /\ IF ok THEN Goto("spawn_dnsmasq") /\ UNCHANGED memory ELSE ErrorExit
  /\ UNCHANGED <<proc, addrs, hook>>

SpawnDnsmasq ==
  /\ pc = "spawn_dnsmasq"
  /\ \E ok \in Spawns :
       /\ proc' = [proc EXCEPT !["dnsmasq"] = IF ok THEN "running" ELSE @]
       /\ IF ok THEN Goto("spawn_hostapd") /\ UNCHANGED memory ELSE ErrorExit
  /\ UNCHANGED <<addrs, link, hook>>

(* Only now is there a session.  If hostapd cannot be started, dnsmasq is  *)
(* dropped before the error leaves ap::start().                            *)
SpawnHostapd ==
  /\ pc = "spawn_hostapd"
  /\ \E ok \in Spawns :
       /\ proc' = [proc EXCEPT !["hostapd"] = IF ok THEN "running" ELSE @]
       /\ ap' = ok
       /\ Goto(IF ok THEN "serve" ELSE "undo_dnsmasq")
  /\ elapsed' = 0
  /\ UNCHANGED <<state, event, attempt, client, ready, addrs, link, hook>>

UndoDnsmasq ==
  /\ pc = "undo_dnsmasq"
  /\ proc' = [proc EXCEPT !["dnsmasq"] = IF @ = "running" THEN "term"
                                                          ELSE "none"]
  /\ IF proc["dnsmasq"] = "running"
     THEN Goto("await_undo") /\ UNCHANGED memory
     ELSE ErrorExit
  /\ UNCHANGED <<addrs, link, hook>>

AwaitUndo ==
  /\ pc = "await_undo"
  /\ proc' = [proc EXCEPT !["dnsmasq"] = "none"]
  /\ ErrorExit
  /\ UNCHANGED <<addrs, link, hook>>

(* One poll finds a daemon gone: the session is dropped. *)
ServeUnhealthy ==
  /\ pc = "serve" /\ ~ApHealthy
  /\ Goto("stop_hostapd")
  /\ UNCHANGED <<memory, world, hook>>

(* One poll inside the interval.  A sleep may overrun, never fall short. *)
ServeEarly ==
  /\ pc = "serve" /\ ApHealthy
  /\ \E now \in (elapsed + LinkPoll) .. (ApRetry - 1) : elapsed' = now
  /\ UNCHANGED <<pc, state, event, attempt, client, ap, ready, world, hook>>

\* Bug: the test of client.conf is inverted.
ServeDue_Inverted ==
  /\ pc = "serve" /\ ApHealthy
  /\ elapsed' = ApRetry
  /\ Returns(IF clientConf THEN "ApHeld" ELSE "ApRetryDue")
  /\ UNCHANGED <<state, attempt, client, ap, ready, world, hook>>

\* Bug: client.conf is not looked for before the AP is interrupted.
ServeDue_Unconditional ==
  /\ pc = "serve" /\ ApHealthy
  /\ elapsed' = ApRetry
  /\ Returns("ApRetryDue")
  /\ UNCHANGED <<state, attempt, client, ap, ready, world, hook>>

(* The first poll at or past the interval: interrupt the AP only if there  *)
(* is something to try.                                                    *)
ServeDue ==
  /\ pc = "serve" /\ ApHealthy
  /\ elapsed' = ApRetry
  /\ Returns(IF clientConf THEN "ApRetryDue" ELSE "ApHeld")
  /\ UNCHANGED <<state, attempt, client, ap, ready, world, hook>>

-----------------------------------------------------------------------------
DropApStep     == StopHostapd \/ AwaitHostapd \/ StopDnsmasq \/ AwaitDnsmasq
                    \/ FlushAp
TryClientStep  == StopAp \/ Connect \/ FlushForClient \/ LinkUpForClient
                    \/ SpawnWpa \/ Dhcp \/ ReadAddr \/ DropWpa \/ AwaitDrop
StopClientStep == StopClient \/ AwaitClient \/ FlushClient
ServeApStep    == EnsureAp \/ LoadAp \/ FlushForAp \/ AddApAddress
                    \/ LinkUpForAp \/ SpawnDnsmasq \/ SpawnHostapd
                    \/ UndoDnsmasq \/ AwaitUndo
                    \/ ServeUnhealthy \/ ServeEarly \/ ServeDue

SupervisorStep ==
  /\ \/ Boot \/ Transition \/ Watch
     \/ DropApStep \/ TryClientStep \/ StopClientStep \/ ServeApStep
  /\ UNCHANGED env

-----------------------------------------------------------------------------
(* Outside the program: systemd, the daemons, the operator, the radio.     *)

(* systemd starts the unit only once its cgroup is empty: the daemons are  *)
(* children that share it (KillMode=control-group).                        *)
Launch ==
  /\ pc \in Stopped /\ \A d \in Daemons : ~Alive(d)
  /\ Goto("boot")
  /\ UNCHANGED <<memory, world, hook, env>>

(* `systemctl stop`, or a crash: the thread is gone between two of its     *)
(* steps, and no Drop runs.                                                *)
Kill ==
  /\ ~calm /\ Running
  /\ Goto("down") /\ Fresh
  /\ UNCHANGED <<world, hook, env>>

(* ... and the rest of its cgroup follows, one process at a time. *)
CgroupReap ==
  /\ pc = "down"
  /\ \E d \in Daemons :
       Alive(d) /\ proc' = [proc EXCEPT ![d] = "none"]
  /\ UNCHANGED <<pc, memory, addrs, link, hook, env>>

(* A daemon exits on its own. *)
DaemonExit ==
  /\ ~calm
  /\ \E d \in Daemons :
       proc[d] = "running" /\ proc' = [proc EXCEPT ![d] = "none"]
  /\ UNCHANGED <<pc, memory, addrs, link, hook, env>>

(* Somebody else (an operator, another network manager) takes an address. *)
AddressLost ==
  /\ ~calm
  /\ \E a \in addrs : addrs' = addrs \ {a}
  /\ UNCHANGED <<pc, memory, proc, link, hook, env>>

(* A USB radio is unplugged, and comes back bare. *)
IfaceChange ==
  /\ ~calm
  /\ iface' = ~iface
  /\ addrs' = {} /\ link' = FALSE
  /\ UNCHANGED <<pc, memory, proc, hook, clientConf, apConf, net, calm>>

ClientConfChange ==
  /\ ~calm
  /\ clientConf' = ~clientConf
  /\ UNCHANGED <<process, iface, apConf, net, calm>>

ApConfChange ==
  /\ ~calm
  /\ apConf' = ~apConf
  /\ UNCHANGED <<process, iface, clientConf, net, calm>>

NetChange ==
  /\ ~calm
  /\ net' = ~net
  /\ UNCHANGED <<process, iface, clientConf, apConf, calm>>

BecomeCalm ==
  /\ ~calm
  /\ calm' = TRUE
  /\ UNCHANGED <<process, iface, clientConf, apConf, net>>

Faults == \/ Kill \/ DaemonExit \/ AddressLost \/ IfaceChange
          \/ ClientConfChange \/ ApConfChange \/ NetChange

Next == SupervisorStep \/ Launch \/ CgroupReap \/ Faults \/ BecomeCalm

(* Only the supervisor's own thread is scheduled; nobody owes it a launch, *)
(* a quiet period, or a daemon that stays up.  Every call it waits in      *)
(* returns: a daemon is killed after its grace, udhcpc and the hook are    *)
(* bounded, a sleep ends.  A poll of a healthy connection changes nothing, *)
(* and fairness must not make one fail.                                    *)
MustMove == pc = "watch" => addrs = {} \/ ~iface
Fairness == WF_vars(MustMove /\ SupervisorStep)

Spec == Init /\ [][Next]_vars /\ Fairness

-----------------------------------------------------------------------------
Flags ==
  /\ client \in BOOLEAN /\ ap \in BOOLEAN /\ ready \in BOOLEAN
  /\ link \in BOOLEAN
  /\ iface \in BOOLEAN /\ clientConf \in BOOLEAN /\ apConf \in BOOLEAN
  /\ net \in BOOLEAN /\ calm \in BOOLEAN

Ranges ==
  /\ pc \in Pcs
  /\ state \in States /\ event \in Events
  /\ attempt \in 1..ClientAttempts /\ elapsed \in 0..ApRetry
  /\ proc \in [Daemons -> ProcStates]
  /\ addrs \subseteq {"lease", "ap"}
  /\ hook \in Hooks

(* Every variable has its type; the attempts never pass client_attempts    *)
(* and the clock of serve_ap stops at the interval.                        *)
TypeOK == Flags /\ Ranges

(* One radio: a station and an access point are never driven at the same   *)
(* time, not even while one of them is being stopped, and not by what an   *)
(* earlier, killed supervisor left behind (supervise.rs, try_client and    *)
(* serve_ap: each stops the other side before it starts its own).          *)
RadioExclusive == ~(Alive("wpa_supplicant") /\ Alive("hostapd"))

(* Every live daemon has somebody who will stop it: the session that owns  *)
(* it, the stack frame that is starting or dropping it, or systemd when    *)
(* the process was killed.  So an error exit leaves nothing running, and   *)
(* each attempt's supplicant is gone before its replacement is spawned     *)
(* (client.rs, ap.rs: what a `?` or a bail! drops on its way out).         *)
NoOrphans ==
  /\ Alive("wpa_supplicant") =>
       client \/ pc \in {"dhcp", "read_addr", "drop_wpa", "await_drop",
                         "await_client", "down"}
  /\ Alive("hostapd") => ap \/ pc = "down"
  /\ Alive("dnsmasq") =>
       ap \/ pc \in {"spawn_hostapd", "undo_dnsmasq", "await_undo", "down"}

(* A held address is the address of what is being held: a client session   *)
(* never counts the recovery AP's address as its lease, and the AP never   *)
(* serves beside a stale lease, although every teardown flush is best      *)
(* effort and a killed supervisor flushes nothing (supervise.rs:79-81).    *)
AddressIsOurs ==
  /\ client => "ap" \notin addrs
  /\ ap => "lease" \notin addrs

(* The state hook has been told what the supervisor is doing, from the     *)
(* first state on and whatever the last run had announced (run()).         *)
HookTells == Running /\ pc # "boot" => hook = state

(* The client is given up on only after the full number of attempts or     *)
(* without credentials, and the AP is interrupted only after a full        *)
(* interval (try_client, serve_ap).                                        *)
EarnedTransitions ==
  [][Running' =>
       /\ (state = "TryClient" /\ state' = "FallbackAp" =>
             attempt = ClientAttempts \/ event = "ClientConfigMissing")
       /\ (state = "FallbackAp" /\ state' = "TryClient" =>
             elapsed = ApRetry)]_vars

(* What makes the invariants above inductive: which handler a call belongs *)
(* to, where the two sessions may exist, what each teardown has already    *)
(* finished with, and which calls run on an interface just flushed.        *)
EventFits ==
  \/ state = "TryClient"
       /\ event \in {"ClientConnected", "ClientFailed", "ClientConfigMissing"}
  \/ state = "ClientUp" /\ event = "LinkLost"
  \/ state = "FallbackAp" /\ event \in {"ApRetryDue", "ApDied", "ApHeld"}

Control ==
  /\ pc \in TryPcs \cup Stopped \cup {"boot"} => state = "TryClient"
  /\ pc \in {"watch", "await_client", "flush_client"} => state = "ClientUp"
  /\ pc \in RaisePcs \cup {"serve"} => state = "FallbackAp"
  /\ pc \in DropApPcs => state \in {"TryClient", "FallbackAp"}
  /\ pc = "decide" => EventFits

Sessions ==
  /\ client =>
       \/ state = "ClientUp" /\ pc \in {"watch", "stop_client"}
       \/ state = "TryClient" /\ pc = "decide" /\ event = "ClientConnected"
  /\ ap =>
       \/ pc \in DropApPcs
       \/ state = "TryClient" /\ pc = "stop_ap"
       \/ state = "FallbackAp" /\ pc \in {"stop_client", "ensure_ap", "serve"}
       \/ pc = "decide" /\ event \in {"ApRetryDue", "ApHeld"}

Drained ==
  /\ pc \in {"stop_dnsmasq", "await_dnsmasq", "flush_ap"} => ~Alive("hostapd")
  /\ pc = "flush_ap" => ~Alive("dnsmasq")

Flushed ==
  /\ pc \in {"link_up_for_client", "spawn_wpa", "dhcp", "read_addr"} =>
       "ap" \notin addrs
  /\ pc \in {"add_ap_address", "link_up_for_ap", "spawn_dnsmasq",
            "spawn_hostapd"} => "lease" \notin addrs

Counted ==
  /\ pc = "decide" /\ event = "ClientFailed" => attempt = ClientAttempts
  /\ pc = "decide" /\ event = "ApRetryDue" => elapsed = ApRetry

Core == /\ Ranges /\ Control /\ Sessions /\ Drained /\ Flushed /\ Counted
        /\ RadioExclusive /\ NoOrphans /\ AddressIsOurs /\ HookTells

IInv == Flags /\ Core

(* Seen from outside the stack is the one radio of WifiService. *)
Mode == IF Running /\ pc # "boot" THEN state ELSE "down"
Role == IF Alive("wpa_supplicant") THEN "station"
        ELSE IF Alive("hostapd") THEN "ap" ELSE "idle"

Service == INSTANCE WifiService WITH mode <- Mode, role <- Role

(* The stack implements that service, step by step. *)
ImplementsService == Service!Init /\ [][Service!Next]_Service!vars

-----------------------------------------------------------------------------
(* Liveness.  `Quiet` is the premise that faults have ceased: what is      *)
(* promised only once the surroundings hold still.                         *)
Quiet == calm /\ iface /\ apConf /\ Running

(* Whatever goes wrong, a start ends: in READY=1 being sent (so that what  *)
(* is ordered after the unit is not held up for ever) or in a process that *)
(* is gone.  Whether systemd gets it is not the program's.                 *)
Settles == (pc = "boot") ~> (ready \/ ~Running)

(* With a network in range and its credentials in place, the robot gets    *)
(* onto it, wherever the supervisor was when the faults ceased.  To hold   *)
(* on to an address of a link that has died counts as a connection: that   *)
(* it is not noticed is WatchNoticesDeadLink's.                            *)
Recovers == (Quiet /\ clientConf /\ net) ~> (client \/ ~Running)

(* With a network out of range the supervisor is not stuck: it holds on to *)
(* an address it still has, or it keeps alternating between trying the     *)
(* client and serving the AP for ever (the test in supervise.rs:375-396).  *)
Alternates ==
  (Quiet /\ clientConf /\ ~net)
    ~> (\/ []client \/ ([]<>(state = "TryClient") /\ []<>(pc = "serve"))
        \/ ~Running)

(* With nothing to retry with, an access point is raised and never again   *)
(* interrupted under whoever uses it to repair the robot (serve_ap's       *)
(* comment on ApHeld), unless a connection is still held.                  *)
HoldsAp == (Quiet /\ ~clientConf) ~> ([]client \/ [](ap /\ ApHealthy) \/ ~Running)

(* Credentials written over the access point take effect without a         *)
(* restart (serve_ap: re-checked every interval).                          *)
CredentialsTakeEffect ==
  (Quiet /\ clientConf /\ state = "FallbackAp")
    ~> (state = "TryClient" \/ ~Running)

-----------------------------------------------------------------------------
(* A thing that a comment says of the loop and the code does not do.       *)

(* "Watches an established connection, returning once it is no longer      *)
(* usable": a connection whose supplicant is gone is given up.             *)
WatchNoticesDeadLink ==
  (client /\ ~Alive("wpa_supplicant")) ~> ~client
=============================================================================
