--------------------------- MODULE RobotIdentity ---------------------------
(***************************************************************************)
(* `robotctl id set robot-id`, `id set ros-domain-id` and `id apply`:      *)
(* robot.conf on the data partition is the source of the robot's name; the *)
(* hostname file, the 127.0.1.1 line of the hosts file, the running        *)
(* hostname and the name the mDNS responder answers to are derived from it *)
(* on the rootfs, one write after another.                                 *)
(*                                                                         *)
(* Every invocation is a process of its own and nothing locks the files,   *)
(* so invocations interleave between any two of their reads and writes; a  *)
(* write may fail, a process may be killed, and the robot may reboot.      *)
(***************************************************************************)
EXTENDS RobotConf

CONSTANTS
  Procs,      \* the robotctl processes
  Torn        \* the content of a file only half written

ASSUME TornAssumption == Torn \notin Ids \cup Assignments \cup {NoFile}

VARIABLES
  conf,     \* robot.conf: NoFile, Torn, or its two assignments
  file,     \* the derived files: "hostname", and "hosts" (its 127.0.1.1)
  running,  \* the kernel's hostname
  mdns,     \* the name the mDNS responder announces
  nudged,   \* its restart is queued (systemctl --no-block)
  \* per process
  pc, cmd,
  existing, \* robot.conf as set_key read it
  target,   \* the file being written
  tmp,      \* its temporary file
  loaded,   \* config.robot_id, as load() resolved it
  renamed,  \* what apply_files returned: the hostname file was rewritten
  clean     \* nobody interfered and nothing best-effort failed so far

system == <<conf, file, running, mdns, nudged>>
local  == <<pc, cmd, existing, target, tmp, loaded, renamed, clean>>
vars   == <<system, local>>

-----------------------------------------------------------------------------
Derived     == {"hostname", "hosts"}
Names       == Ids \cup {NoFile}
Active      == {"read_conf", "open_tmp", "fill_tmp", "rename", "load",
                "hostname", "hosts", "runtime", "nudge"}
Pcs         == Active \cup {"idle", "ok", "failed"}

Goto(p, label) == pc' = [pc EXCEPT ![p] = label]

(* A process that is not alone any more, or that someone edited under. *)
Disturb(ps) == clean' = [q \in Procs |-> clean[q] /\ q \notin ps]

(* The processes ps are over without having succeeded: an error was        *)
(* returned, or they were killed.  What they held is gone; a temporary     *)
(* file they may leave behind is named after their pid and never read.     *)
Over(ps) ==
  /\ pc' = [p \in Procs |-> IF p \in ps THEN "failed" ELSE pc[p]]
  /\ existing' = [p \in Procs |-> IF p \in ps THEN NoFile ELSE existing[p]]
  /\ target' = [p \in Procs |-> IF p \in ps THEN "conf" ELSE target[p]]
  /\ tmp' = [p \in Procs |-> IF p \in ps THEN NoFile ELSE tmp[p]]
  /\ loaded' = [p \in Procs |-> IF p \in ps THEN DefaultId ELSE loaded[p]]
  /\ renamed' = [p \in Procs |-> p \notin ps /\ renamed[p]]
  /\ UNCHANGED cmd

Init ==
  /\ \E c \in {NoFile} \cup Assignments :
       /\ conf = c
       /\ file = [f \in Derived |-> Effective(c)]
       /\ running = Effective(c) /\ mdns = Effective(c)
  /\ nudged = FALSE
  /\ pc = [p \in Procs |-> "idle"]
  /\ cmd = [p \in Procs |-> [op |-> "apply"]]
  /\ existing = [p \in Procs |-> NoFile]
  /\ target = [p \in Procs |-> "conf"]
  /\ tmp = [p \in Procs |-> NoFile]
  /\ loaded = [p \in Procs |-> DefaultId]
  /\ renamed = [p \in Procs |-> FALSE]
  /\ clean = [p \in Procs |-> FALSE]

-----------------------------------------------------------------------------
(* Whoever runs robotctl: an operator, a provisioning script, or the unit  *)
(* that applies the identity on every boot.  Arguments are validated       *)
(* before anything is read (RobotId::new, RosDomainId::new).               *)
Start(p, c) ==
  /\ pc[p] \notin Active
  /\ Goto(p, IF c.op = "apply" THEN "load" ELSE "read_conf")
  /\ cmd' = [cmd EXCEPT ![p] = c]
  /\ renamed' = [renamed EXCEPT ![p] = FALSE]
  /\ clean' = [q \in Procs |->
                 q = p /\ \A r \in Procs \ {p} : pc[r] \notin Active]
  /\ UNCHANGED <<system, existing, target, tmp, loaded>>

-----------------------------------------------------------------------------
(* write_atomically(): a temporary file of the process's own, filled, then *)
(* renamed over the target.                                                *)

\* Bug: renamed before the content is written out.
OpenTmp_RenamesFirst(p) ==
  /\ pc[p] = "open_tmp"
  /\ Goto(p, "rename")
  /\ tmp' = [tmp EXCEPT ![p] = Torn]
  /\ UNCHANGED <<system, cmd, existing, target, loaded, renamed, clean>>

OpenTmp(p) ==
  /\ pc[p] = "open_tmp"
  /\ Goto(p, "fill_tmp")
  /\ tmp' = [tmp EXCEPT ![p] = Torn]
  /\ UNCHANGED <<system, cmd, existing, target, loaded, renamed, clean>>

Content(p) == IF target[p] = "conf" THEN Upsert(existing[p], cmd[p])
                                    ELSE loaded[p]

FillTmp(p) ==
  /\ pc[p] = "fill_tmp"
  /\ Goto(p, "rename")
  /\ tmp' = [tmp EXCEPT ![p] = Content(p)]
  /\ UNCHANGED <<system, cmd, existing, target, loaded, renamed, clean>>

(* After the rename: set_dom is over, set_id loads what it wrote and goes  *)
(* on to derive from it, the hostname file is followed by the hosts file   *)
(* and that by the running hostname.                                       *)
AfterWrite(p) ==
  CASE target[p] = "conf" /\ cmd[p].op = "set_id" -> "load"
    [] target[p] = "conf" /\ cmd[p].op # "set_id" -> "ok"
    [] target[p] = "hostname" -> "hosts"
    [] target[p] = "hosts"    -> "runtime"

Rename(p) ==
  /\ pc[p] = "rename"
  /\ IF target[p] = "conf"
     THEN conf' = tmp[p] /\ UNCHANGED file
     ELSE file' = [file EXCEPT ![target[p]] = tmp[p]] /\ UNCHANGED conf
  /\ renamed' = [renamed EXCEPT ![p] = @ \/ target[p] = "hostname"]
  /\ Goto(p, AfterWrite(p))
  /\ tmp' = [tmp EXCEPT ![p] = NoFile]
  /\ existing' = [existing EXCEPT ![p] = NoFile]
  /\ target' = [target EXCEPT ![p] = "conf"]
  /\ UNCHANGED <<running, mdns, nudged, cmd, loaded, clean>>

(* Any of the reads and writes may return the error that ends the command. *)
IoFails(p) ==
  /\ pc[p] \in {"read_conf", "open_tmp", "fill_tmp", "rename", "load",
                "hostname", "hosts"}
  /\ Over({p})
  /\ UNCHANGED <<system, clean>>

-----------------------------------------------------------------------------
(* set_key() reads the whole file; what it writes back was read here. *)
ReadConf(p) ==
  /\ pc[p] = "read_conf"
  /\ existing' = [existing EXCEPT ![p] = conf]
  /\ Goto(p, "open_tmp")
  /\ UNCHANGED <<system, cmd, target, tmp, loaded, renamed, clean>>

\* Bug: what robot.conf does not say is not defaulted.
Load_Raw(p) ==
  /\ pc[p] = "load"
  /\ loaded' = [loaded EXCEPT ![p] = IF conf = NoFile THEN DefaultId ELSE conf.id]
  /\ Goto(p, "hostname")
  /\ UNCHANGED <<system, cmd, existing, target, tmp, renamed, clean>>

(* load(), which set_robot_id runs again after its own write. *)
Load(p) ==
  /\ pc[p] = "load"
  /\ loaded' = [loaded EXCEPT ![p] = Effective(conf)]
  /\ Goto(p, "hostname")
  /\ UNCHANGED <<system, cmd, existing, target, tmp, renamed, clean>>

(* write_if_changed(): no write, and no news, when the file already says it. *)
Compare(p, f, next) ==
  IF file[f] = loaded[p]
  THEN Goto(p, next) /\ UNCHANGED target
  ELSE Goto(p, "open_tmp") /\ target' = [target EXCEPT ![p] = f]

\* Bug: an up-to-date hostname file is taken to mean all is up to date.
WriteHostname_SkipsTheRest(p) ==
  /\ pc[p] = "hostname"
  /\ Compare(p, "hostname", "nudge")
  /\ UNCHANGED <<system, cmd, existing, tmp, loaded, renamed, clean>>

WriteHostname(p) ==
  /\ pc[p] = "hostname"
  /\ Compare(p, "hostname", "hosts")
  /\ UNCHANGED <<system, cmd, existing, tmp, loaded, renamed, clean>>

(* The hosts file, of which only the 127.0.1.1 entry is rewritten: what it *)
(* is rewritten to depends on the ID alone, so the two reads are one.      *)
WriteHosts(p) ==
  /\ pc[p] = "hosts"
  /\ Compare(p, "hosts", "runtime")
  /\ UNCHANGED <<system, cmd, existing, tmp, loaded, renamed, clean>>

(* apply_runtime_hostname(): hostnamectl, then hostname, then a warning. *)
SetRuntime(p) ==
  /\ pc[p] = "runtime"
  /\ \E ok \in BOOLEAN :
       /\ running' = IF ok THEN loaded[p] ELSE running
       /\ clean' = [clean EXCEPT ![p] = @ /\ ok]
  /\ Goto(p, "nudge")
  /\ UNCHANGED <<conf, file, mdns, nudged, cmd, existing, target, tmp, loaded,
                 renamed>>

\* Bug: the condition is the wrong way round.
Nudge_Inverted(p) ==
  /\ pc[p] = "nudge"
  /\ \E ok \in BOOLEAN :
       /\ nudged' = (nudged \/ (~renamed[p] /\ ok))
       /\ clean' = [clean EXCEPT ![p] = @ /\ ok]
  /\ Goto(p, "ok")
  /\ loaded' = [loaded EXCEPT ![p] = DefaultId]
  /\ UNCHANGED <<conf, file, running, mdns, cmd, existing, target, tmp,
                 renamed>>

(* try_restart_async(), if this very invocation rewrote the hostname file. *)
Nudge(p) ==
  /\ pc[p] = "nudge"
  /\ \E ok \in BOOLEAN :
       /\ nudged' = (nudged \/ (renamed[p] /\ ok))
       /\ clean' = [clean EXCEPT ![p] = @ /\ ok]
  /\ Goto(p, "ok")
  /\ loaded' = [loaded EXCEPT ![p] = DefaultId]
  /\ UNCHANGED <<conf, file, running, mdns, cmd, existing, target, tmp,
                 renamed>>

-----------------------------------------------------------------------------
(* Outside the program. *)

(* The responder restarts and takes up the name it then finds. *)
MdnsRestart ==
  /\ nudged
  /\ nudged' = FALSE /\ mdns' = running
  /\ UNCHANGED <<conf, file, running, local>>

Kill(p) ==
  /\ pc[p] \in Active
  /\ Over({p})
  /\ UNCHANGED <<system, clean>>

(* Power off and on, perhaps into an updated rootfs that brings no         *)
(* hostname files of ours: every process is gone, the kernel takes its     *)
(* name from the hostname file, the responder takes the kernel's.          *)
Reboot ==
  /\ Over({p \in Procs : pc[p] \in Active})
  /\ \E image \in {file, [f \in Derived |-> NoFile]} :
       /\ file' = image
       /\ running' = image["hostname"] /\ mdns' = image["hostname"]
  /\ nudged' = FALSE
  /\ Disturb(Procs)
  /\ UNCHANGED conf

(* robot.conf is edited by hand, or removed. *)
Edit ==
  /\ conf' \in {NoFile} \cup Assignments
  /\ Disturb(Procs)
  /\ UNCHANGED <<file, running, mdns, nudged, pc, cmd, existing, target, tmp,
                 loaded, renamed>>

Step(p) ==
  \/ OpenTmp(p) \/ FillTmp(p) \/ Rename(p) \/ IoFails(p)
  \/ ReadConf(p) \/ Load(p) \/ WriteHostname(p)
  \/ WriteHosts(p) \/ SetRuntime(p) \/ Nudge(p)

Next ==
  \/ \E p \in Procs : Step(p) \/ Kill(p) \/ \E c \in Commands : Start(p, c)
  \/ MdnsRestart \/ Reboot \/ Edit

Spec == Init /\ [][Next]_vars

-----------------------------------------------------------------------------
TypeOK ==
  /\ conf \in Assignments \cup {NoFile, Torn}
  /\ file \in [Derived -> Names \cup {Torn}]
  /\ running \in Names \cup {Torn} /\ mdns \in Names \cup {Torn}
  /\ nudged \in BOOLEAN
  /\ pc \in [Procs -> Pcs]
  /\ cmd \in [Procs -> Commands]
  /\ existing \in [Procs -> Assignments \cup {NoFile, Torn}]
  /\ target \in [Procs -> Derived \cup {"conf"}]
  /\ tmp \in [Procs -> Assignments \cup Names \cup {Torn}]
  /\ loaded \in [Procs -> Ids]
  /\ renamed \in [Procs -> BOOLEAN] /\ clean \in [Procs -> BOOLEAN]

(* Whoever reads a file, at whatever moment and after whatever crash,      *)
(* reads all of an old content or all of a new one (conf.rs:79-80).        *)
NoTornFile == conf # Torn /\ \A f \in Derived : file[f] # Torn

Derives(p) == cmd[p].op \in {"set_id", "apply"}

(* A command that derives and that nobody disturbed leaves every artifact  *)
(* agreeing with robot.conf, whatever it found: a crash, a failed write or *)
(* a new image is healed by the next apply (main.rs:81-85, id.rs:206-219). *)
CleanRunAgrees ==
  \A p \in Procs : pc[p] = "ok" /\ clean[p] /\ Derives(p) =>
    /\ file = [f \in Derived |-> Effective(conf)]
    /\ running = Effective(conf)
    /\ cmd[p].op = "set_id" => Effective(conf) = cmd[p].arg

(* An undisturbed command keeps the assignment it was not asked to change  *)
(* (set_key: "preserving every other line").                               *)
KeepsOtherKey ==
  [][\A p \in Procs : clean[p] /\ Rename(p) /\ target[p] = "conf" /\ conf # NoFile =>
       IF cmd[p].op = "set_id" THEN conf'.dom = conf.dom
                               ELSE conf'.id = conf.id]_vars

(* A command that rewrote the hostname file has the responder follow it,   *)
(* now or when the queued restart runs (apply).                            *)
RenameIsAnnounced ==
  \A p \in Procs : pc[p] = "ok" /\ clean[p] /\ renamed[p] =>
    nudged \/ mdns = Effective(conf)

-----------------------------------------------------------------------------
(* The inductive invariant. *)

Flags ==
  /\ nudged \in BOOLEAN
  /\ renamed \in [Procs -> BOOLEAN] /\ clean \in [Procs -> BOOLEAN]

Ranges ==
  /\ conf \in Assignments \cup {NoFile}
  /\ file \in [Derived -> Names]
  /\ running \in Names /\ mdns \in Names
  /\ pc \in [Procs -> Pcs]
  /\ cmd \in [Procs -> Commands]
  /\ existing \in [Procs -> Assignments \cup {NoFile}]
  /\ target \in [Procs -> Derived \cup {"conf"}]
  /\ tmp \in [Procs -> Assignments \cup Names \cup {Torn}]
  /\ loaded \in [Procs -> Ids]

Writing(p)  == pc[p] \in {"open_tmp", "fill_tmp", "rename"}
Deriving(p) == \/ pc[p] \in {"load", "hostname", "hosts", "runtime", "nudge"}
               \/ (Writing(p) /\ target[p] # "conf")

(* Which command is where, and that what is about to be renamed is whole.  *)
Places ==
  \A p \in Procs :
    /\ Deriving(p) \/ renamed[p] => Derives(p)
    /\ ~Writing(p) => target[p] = "conf"
    /\ (Writing(p) /\ target[p] = "conf") \/ pc[p] = "read_conf" =>
         cmd[p].op # "apply"
    /\ pc[p] = "rename" => tmp[p] = Content(p)

(* A clean run had no company, and has none until it is over. *)
Alone ==
  \A p, q \in Procs : clean[p] /\ p # q => pc[q] \notin Active

(* What a clean run has established by the time it gets to each step. *)
Progress ==
  \A p \in Procs : clean[p] =>
    /\ Writing(p) /\ target[p] = "conf" => existing[p] = conf
    /\ Deriving(p) /\ cmd[p].op = "set_id" => Effective(conf) = cmd[p].arg
    /\ Deriving(p) /\ pc[p] # "load" => loaded[p] = Effective(conf)
    /\ \/ pc[p] \in {"hosts", "runtime", "nudge"}
       \/ (Writing(p) /\ target[p] = "hosts")
       => file["hostname"] = Effective(conf)
    /\ pc[p] \in {"runtime", "nudge"} => file["hosts"] = Effective(conf)
    /\ pc[p] = "nudge" => running = Effective(conf)

IInv ==
  /\ Flags /\ Ranges /\ Places /\ Alone /\ Progress
  /\ CleanRunAgrees /\ RenameIsAnnounced

-----------------------------------------------------------------------------
(* "The mDNS responder to nudge after a hostname change": after a clean    *)
(* run the responder answers to the hostname.                              *)
ResponderFollows ==
  \A p \in Procs : pc[p] = "ok" /\ clean[p] /\ Derives(p) =>
    nudged \/ mdns = running
=============================================================================
