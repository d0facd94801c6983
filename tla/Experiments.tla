---------------------------- MODULE Experiments ----------------------------
(***************************************************************************)
(* `robotctl experiments` start, stop and status: one command at a time    *)
(* walking over docker compose stacks, on a robot where everything it      *)
(* reads and drives may change under it.  The boot-time unit runs `start`  *)
(* without arguments; operators run all three, with and without.           *)
(*                                                                         *)
(* A stack is a directory with a compose file, which declares services:    *)
(* those without a `profiles:` key, taken together as one, and those of    *)
(* each profile.  An image or a container is the version of the experiment *)
(* it was built from, 0 when there is none.  The order of the targets is   *)
(* abstracted: each list is attempted in any order.                        *)
(*                                                                         *)
(* Docker, the registry, editors and whatever else touches the stacks are  *)
(* the surroundings.  A call to compose fails whenever it likes, and does  *)
(* then any part of its work.                                              *)
(***************************************************************************)
EXTENDS Naturals, FiniteSets, Sequences

CONSTANTS
  Exp,         \* experiment names
  Profile,     \* the profiles compose files declare
  Base,        \* the services with no profile of their own
  Star,        \* the wildcard, every profile
  NoFile,      \* the configuration file does not exist
  Bad,         \* a line of enabled.conf that does not parse
  NotChosen,   \* an experiment the command does not act on
  MaxVersion,  \* how many times experiments are built and pushed
  MaxArgs,     \* how many targets a command line names
  Lists,       \* what enabled.conf may say, without comments and blank lines
  MaxMeddling  \* how often anything else changes something

Unit == Profile \cup {Base}

(* Profiles: none, all of them, or those named. *)
ProfileSet == (SUBSET Profile) \cup {{Star}}
Target     == [name : Exp, profiles : ProfileSet]
Version    == 0..MaxVersion

ASSUME ProfileAssumption == Star \notin Profile /\ Base \notin Profile
ASSUME AbsenceAssumption == \A P \in ProfileSet : P # NotChosen
ASSUME LineAssumption    == \A t \in Target : t # Bad
ASSUME BoundAssumption   ==
  MaxVersion \in Nat \ {0} /\ {MaxArgs, MaxMeddling} \subseteq Nat
\* The template enables nothing.
ASSUME ListsAssumption   == <<>> \in Lists /\ Lists \subseteq Seq(Target \cup {Bad})
ASSUME NoFileAssumption  == NoFile \notin Lists
\* No experiment's name has a dot in it.
ASSUME NameAssumption    == {"enabled.conf", "experiments.conf"} \cap Exp = {}

VARIABLES
  file,     \* file[e]: what e's compose file declares; nothing, without one
  enabled,  \* enabled.conf
  setting,  \* IGNORE_PULL_FAILURES: "true", or anything else as "false"
  latest,   \* what the registry serves
  local,    \* local[e][u]: the image docker has
  run,      \* run[e][u]: the image the container runs
  pc, cmd,  \* the command, and how it ended
  want,     \* want[e]: the profiles to act on e with
  todo, cur, failed, ignore,
  asked,    \* ghost: what the registry served when the command was given
  tried,    \* ghost: what compose was run for
  edited,   \* ghost: the stacks and the files edited by anyone else since
  late,     \* ghost: whose stack, place in the list, images or containers
            \*        anyone else changed after the command could tell
  meddled

disk   == <<file, enabled, setting>>
dock   == <<local, run>>
walk   == <<cmd, want, todo, cur, failed, ignore, asked, tried>>
others == <<edited, late, meddled>>
vars   == <<disk, dock, latest, pc, walk, others>>

Ended == {"none", "ok", "failed", "refused", "error", "killed"}
Idle  == pc \in Ended

-----------------------------------------------------------------------------
(* Targets. *)

OnDisk == {e \in Exp : file[e] # {}}

\* Bug: the wildcard does not absorb what it is combined with.
Merged_KeepsOthers(targets) ==
  [e \in Exp |->
     LET mine == {t \in targets : t.name = e}
     IN  IF mine = {} THEN NotChosen ELSE UNION {t.profiles : t \in mine}]

\* merge_duplicates(): one target per name, with the union of the profiles.
Merged(targets) ==
  [e \in Exp |->
     LET mine == {t \in targets : t.name = e}
         all  == UNION {t.profiles : t \in mine}
     IN  IF mine = {} THEN NotChosen ELSE IF Star \in all THEN {Star} ELSE all]

\* parse_enabled(): the first valid line for a name counts.
Lines(list, e) == {i \in DOMAIN list : list[i] # Bad /\ list[i].name = e}

\* Bug: a line that does not parse ends the list.
ParseEnabled_StopsAtBad(list) ==
  [e \in Exp |->
     LET good == {i \in Lines(list, e) : \A j \in 1..i : list[j] # Bad}
     IN  IF good = {} THEN NotChosen
         ELSE list[CHOOSE i \in good : \A j \in good : i <= j].profiles]

ParseEnabled(list) ==
  [e \in Exp |->
     IF Lines(list, e) = {} THEN NotChosen
     ELSE list[CHOOSE i \in Lines(list, e) :
                 \A j \in Lines(list, e) : i <= j].profiles]

Everything == [e \in Exp |-> IF e \in OnDisk THEN {} ELSE NotChosen]

Chosen(w) == {e \in Exp : w[e] # NotChosen}

-----------------------------------------------------------------------------
(* What compose does. *)

Active(e, P) == IF Star \in P THEN file[e] ELSE file[e] \cap ({Base} \cup P)

(* `up` fetches an image that is not there at all. *)
Image(e, u) == IF local[e][u] = 0 THEN latest ELSE local[e][u]

Fetch(e, us) ==
  local' = [local EXCEPT ![e] = [u \in Unit |-> IF u \in us THEN latest
                                                            ELSE @[u]]]

Containers(e, up, down) ==
  run' = [run EXCEPT ![e] = [u \in Unit |-> IF u \in up THEN Image(e, u)
                                            ELSE IF u \in down THEN 0
                                            ELSE @[u]]]

-----------------------------------------------------------------------------
Init ==
  /\ file \in [Exp -> SUBSET Unit]
  /\ enabled \in {NoFile} \cup Lists
  /\ setting \in {"true", "false", NoFile}
  /\ latest = 1
  /\ \E v \in [Exp -> {0, 1}] : local = [e \in Exp |-> [u \in Unit |-> v[e]]]
  /\ run = [e \in Exp |-> [u \in Unit |-> 0]]
  /\ pc = "none"
  /\ cmd = [op |-> "status", args |-> {}, override |-> "unset"]
  /\ want = [e \in Exp |-> NotChosen]
  /\ todo = {} /\ cur = {} /\ failed = {} /\ ignore = FALSE
  /\ asked = 1 /\ tried = {} /\ edited = {} /\ late = {} /\ meddled = 0

(* A command is given, and docker is there.  Which targets it is for comes *)
(* from its arguments or, for `stop`, from the disk; otherwise from        *)
(* enabled.conf, which is made sure of first.                              *)
Start(op, args, override) ==
  /\ Idle
  /\ cmd' = [op |-> op, args |-> args, override |-> override]
  /\ pc' = IF args = {} /\ op # "stop" THEN "enabled" ELSE "select"
  /\ want' = [e \in Exp |-> NotChosen]
  /\ todo' = {} /\ cur' = {} /\ failed' = {} /\ ignore' = FALSE
  /\ asked' = latest /\ tried' = {} /\ edited' = {} /\ late' = {}
  /\ UNCHANGED <<disk, dock, latest, meddled>>

Act(w) ==
  /\ want' = w
  /\ todo' = Chosen(w)
  /\ pc' = CASE cmd.op = "start"  -> "settings"
             [] cmd.op = "stop"   -> "down"
             [] cmd.op = "status" -> "ps"
  /\ UNCHANGED <<disk, dock, latest, cmd, cur, failed, ignore, asked, tried,
                 others>>

End(how) == pc' = how /\ UNCHANGED <<disk, dock, latest, walk, others>>

\* Bug: a missing one is dropped with a warning, as for enabled.conf.
Select_DropsMissing ==
  /\ pc = "select"
  /\ Act(IF cmd.args = {} THEN Everything
         ELSE [e \in Exp |-> IF e \in OnDisk THEN Merged(cmd.args)[e]
                                             ELSE NotChosen])

(* select(): nothing is done when a named experiment has no compose file. *)
Select ==
  /\ pc = "select"
  /\ IF cmd.args = {} THEN Act(Everything)
     ELSE IF Chosen(Merged(cmd.args)) \subseteq OnDisk THEN Act(Merged(cmd.args))
     ELSE End("refused")

(* ensure_file(): the check, and the template written after it. *)
EnsureEnabled ==
  /\ pc = "enabled"
  /\ pc' = IF enabled = NoFile THEN "template" ELSE "read"
  /\ UNCHANGED <<disk, dock, latest, walk, others>>

CreateEnabled ==
  /\ pc = "template"
  /\ enabled' = <<>>
  /\ pc' = "read"
  /\ UNCHANGED <<file, setting, dock, latest, walk, others>>

(* A file that is gone again reads as an empty one. *)
ReadEnabled ==
  /\ pc = "read"
  /\ want' = ParseEnabled(IF enabled = NoFile THEN <<>> ELSE enabled)
  /\ pc' = "filter"
  /\ UNCHANGED <<disk, dock, latest, cmd, todo, cur, failed, ignore, asked, tried,
                 others>>

(* What is listed and has no compose file is skipped with a warning. *)
Filter ==
  /\ pc = "filter"
  /\ Act([e \in Exp |-> IF e \in OnDisk THEN want[e] ELSE NotChosen])

EnsureSettings ==
  /\ pc = "settings"
  /\ pc' = IF setting = NoFile THEN "defaults" ELSE "ignore"
  /\ UNCHANGED <<disk, dock, latest, walk, others>>

CreateSettings ==
  /\ pc = "defaults"
  /\ setting' = "false"
  /\ pc' = "ignore"
  /\ UNCHANGED <<file, enabled, dock, latest, walk, others>>

\* Bug: the command line can only loosen the setting.
ReadSettings_OnlyLoosens ==
  /\ pc = "ignore"
  /\ ignore' = (setting = "true" \/ cmd.override = "true")
  /\ pc' = "pull"
  /\ UNCHANGED <<disk, dock, latest, cmd, want, todo, cur, failed, asked, tried,
                 others>>

ReadSettings ==
  /\ pc = "ignore"
  /\ ignore' = IF cmd.override = "unset" THEN setting = "true"
                                         ELSE cmd.override = "true"
  /\ pc' = "pull"
  /\ UNCHANGED <<disk, dock, latest, cmd, want, todo, cur, failed, asked, tried,
                 others>>

(* What is not a compose call, and fails: the command ends there. *)
IoFails ==
  /\ pc \in {"select", "enabled", "template", "read", "settings", "defaults",
             "ignore"}
  /\ End("error")

(* A target is done with, and has failed or not. *)
Done(e, ok) ==
  /\ todo' = todo \ {e}
  /\ failed' = IF ok THEN failed ELSE failed \cup {e}
  /\ cur' = {}

Pull(e) ==
  /\ pc = "pull" /\ e \in todo /\ e \in OnDisk
  /\ tried' = tried \cup {e}
  /\ Fetch(e, Active(e, want[e]))
  /\ cur' = {e}
  /\ pc' = "up"
  /\ UNCHANGED <<disk, run, latest, cmd, want, todo, failed, ignore, asked,
                 others>>

\* Bug: the command gives up at the first failure.
PullFails_EndsTheRun(e) ==
  /\ pc = "pull" /\ e \in todo
  /\ tried' = tried \cup {e}
  /\ \E some \in SUBSET Active(e, want[e]) : Fetch(e, some)
  /\ IF ignore
     THEN cur' = {e} /\ pc' = "up" /\ UNCHANGED <<todo, failed>>
     ELSE todo' = {} /\ cur' = {} /\ failed' = failed \cup {e} /\ UNCHANGED pc
  /\ UNCHANGED <<disk, run, latest, cmd, want, ignore, asked, others>>

(* The stack is not started, unless failed pulls are to be ignored. *)
PullFails(e) ==
  /\ pc = "pull" /\ e \in todo
  /\ tried' = tried \cup {e}
  /\ \E some \in SUBSET Active(e, want[e]) : Fetch(e, some)
  /\ IF ignore
     THEN cur' = {e} /\ pc' = "up" /\ UNCHANGED <<todo, failed>>
     ELSE Done(e, FALSE) /\ UNCHANGED pc
  /\ UNCHANGED <<disk, run, latest, cmd, want, ignore, asked, others>>

(* `up -d --remove-orphans`: what is not declared at all is removed, what  *)
(* belongs to a profile that is not active stays as it is.                 *)
Up(e) ==
  /\ pc = "up" /\ e \in cur /\ e \in OnDisk
  /\ LET us == Active(e, want[e])
     IN  /\ Containers(e, us, Unit \ file[e])
         /\ local' = [local EXCEPT ![e] =
                        [u \in Unit |-> IF u \in us THEN Image(e, u) ELSE @[u]]]
  /\ Done(e, TRUE)
  /\ pc' = "pull"
  /\ UNCHANGED <<disk, latest, cmd, want, ignore, asked, tried, others>>

UpFails(e) ==
  /\ pc = "up" /\ e \in cur
  /\ \E up \in SUBSET Active(e, want[e]), down \in SUBSET (Unit \ file[e]) :
       /\ Containers(e, up, down)
       /\ local' = [local EXCEPT ![e] =
                      [u \in Unit |-> IF u \in up THEN Image(e, u) ELSE @[u]]]
  /\ Done(e, FALSE)
  /\ pc' = "pull"
  /\ UNCHANGED <<disk, latest, cmd, want, ignore, asked, tried, others>>

\* Bug: without profiles none is active.
Goes_OnlyActive(e) == Active(e, want[e]) \cup (Unit \ file[e])

(* `down`: every profile and the orphans, unless profiles are named. *)
Goes(e) == IF want[e] \in {{}, {Star}} THEN Unit ELSE Active(e, want[e])

Down(e) ==
  /\ pc = "down" /\ e \in todo /\ e \in OnDisk
  /\ tried' = tried \cup {e}
  /\ Containers(e, {}, Goes(e))
  /\ Done(e, TRUE)
  /\ UNCHANGED <<disk, local, latest, pc, cmd, want, ignore, asked, others>>

DownFails(e) ==
  /\ pc = "down" /\ e \in todo
  /\ tried' = tried \cup {e}
  /\ \E some \in SUBSET (IF e \in OnDisk THEN Goes(e) ELSE {}) :
       Containers(e, {}, some)
  /\ Done(e, FALSE)
  /\ UNCHANGED <<disk, local, latest, pc, cmd, want, ignore, asked, others>>

(* `ps`, whose failure is a warning. *)
Query(e) ==
  /\ pc = "ps" /\ e \in todo
  /\ tried' = tried \cup {e}
  /\ todo' = todo \ {e}
  /\ UNCHANGED <<disk, dock, latest, pc, cmd, want, cur, failed, ignore, asked,
                 others>>

(* The targets are done with: report(), or the end of `status`. *)
Report ==
  /\ pc \in {"pull", "down", "ps"} /\ todo = {}
  /\ End(IF failed = {} THEN "ok" ELSE "failed")

-----------------------------------------------------------------------------
(* The surroundings. *)

Meddle == meddled < MaxMeddling /\ meddled' = meddled + 1

\* What is to be acted on is still being worked out.
Selecting == pc \in {"select", "enabled", "template", "read", "filter"}

(* A new version of every experiment is pushed to the registry. *)
Deploy ==
  /\ latest < MaxVersion
  /\ latest' = latest + 1
  /\ UNCHANGED <<disk, dock, pc, walk, others>>

(* A stack directory comes, goes, or has its compose file edited: too late *)
(* once the target is passed over or compose has been run for it.          *)
ChangeStack(e) ==
  /\ Meddle
  /\ \E f \in SUBSET Unit : file' = [file EXCEPT ![e] = f]
  /\ edited' = edited \cup {e}
  /\ late' = IF Selecting \/ e \in todo \ tried THEN late ELSE late \cup {e}
  /\ UNCHANGED <<enabled, setting, dock, latest, pc, walk>>

EditEnabled ==
  /\ Meddle
  /\ enabled' \in {NoFile} \cup Lists
  /\ edited' = edited \cup {"enabled.conf"}
  /\ late' = IF \/ cmd.args # {} \/ cmd.op = "stop"
                \/ pc \in {"enabled", "template", "read"}
             THEN late ELSE Exp
  /\ UNCHANGED <<file, setting, dock, latest, pc, walk>>

EditSettings ==
  /\ Meddle
  /\ setting' \in {"true", "false", NoFile}
  /\ edited' = edited \cup {"experiments.conf"}
  /\ UNCHANGED <<file, enabled, dock, latest, pc, walk, late>>

(* Containers exit, restart or are driven by hand or by another robotctl:  *)
(* too late when the target is done with.                                  *)
Elsewhere(e) ==
  /\ Meddle
  /\ \E r \in [Unit -> 0..latest] : run' = [run EXCEPT ![e] = r]
  /\ late' = IF Selecting \/ e \in todo THEN late ELSE late \cup {e}
  /\ UNCHANGED <<disk, local, latest, pc, walk, edited>>

(* Images are side-loaded, or removed: too late between a pull and an up.  *)
SideLoad(e) ==
  /\ Meddle
  /\ \E l \in [Unit -> 0..latest] : local' = [local EXCEPT ![e] = l]
  /\ late' = IF e \in cur THEN late \cup {e} ELSE late
  /\ UNCHANGED <<disk, run, latest, pc, walk, edited>>

Kill ==
  /\ ~Idle
  /\ Meddle
  /\ pc' = "killed"
  /\ UNCHANGED <<disk, dock, latest, walk, edited, late>>

Args == {a \in SUBSET Target : Cardinality(a) <= MaxArgs}

Command ==
  \/ \E args \in Args, override \in {"unset", "true", "false"} :
       Start("start", args, override)
  \/ \E args \in Args, op \in {"stop", "status"} : Start(op, args, "unset")

Robotctl ==
  \/ Select \/ EnsureEnabled \/ CreateEnabled \/ ReadEnabled
  \/ Filter \/ EnsureSettings \/ CreateSettings \/ ReadSettings \/ IoFails \/ Report
  \/ \E e \in Exp :
       \/ Pull(e) \/ PullFails(e) \/ Up(e) \/ UpFails(e)
       \/ Down(e) \/ DownFails(e) \/ Query(e)

Surroundings ==
  \/ Deploy \/ EditEnabled \/ EditSettings \/ Kill
  \/ \E e \in Exp : ChangeStack(e) \/ Elsewhere(e) \/ SideLoad(e)

Next == Command \/ Robotctl \/ Surroundings
Spec == Init /\ [][Next]_vars

-----------------------------------------------------------------------------
TypeOK ==
  /\ file \in [Exp -> SUBSET Unit]
  /\ enabled \in {NoFile} \cup Lists
  /\ setting \in {"true", "false", NoFile}
  /\ latest \in Version \ {0}
  /\ local \in [Exp -> [Unit -> 0..latest]] /\ run \in [Exp -> [Unit -> 0..latest]]
  /\ pc \in Ended \cup {"select", "enabled", "template", "read", "filter",
                        "settings", "defaults", "ignore", "pull", "up", "down", "ps"}
  /\ cmd \in [op : {"start", "stop", "status"}, args : SUBSET Target,
              override : {"unset", "true", "false"}]
  /\ want \in [Exp -> {NotChosen} \cup ProfileSet]
  /\ todo \subseteq Chosen(want) /\ failed \subseteq Chosen(want)
  /\ cur \subseteq todo /\ ignore \in BOOLEAN
  /\ asked \in 1..latest /\ tried \subseteq Exp /\ late \subseteq Exp
  /\ edited \subseteq Exp \cup {"enabled.conf", "experiments.conf"}
  /\ meddled \in 0..MaxMeddling

(* What the command was asked to act on, stated apart from how it finds    *)
(* out: its arguments, what is first in enabled.conf, or what is there.    *)
Listed ==
  IF enabled = NoFile THEN {}
  ELSE {enabled[i] : i \in {i \in DOMAIN enabled :
          /\ enabled[i] # Bad
          /\ \A j \in 1..(i - 1) : enabled[j] = Bad \/ enabled[j].name # enabled[i].name}}

Asked ==
  IF cmd.args # {} THEN cmd.args
  ELSE IF cmd.op = "stop" THEN [name : OnDisk, profiles : {{}}]
  ELSE {t \in Listed : t.name \in OnDisk}

Reported == pc \in {"ok", "failed"}

\* Whom a command that has ended so answers for.
Answered(t) == t.name \notin late \cup (IF pc = "ok" THEN {} ELSE failed)

(* A `start` that does not report a target as failed has it run, with      *)
(* every profile asked for and nothing undeclared left, at a version at    *)
(* least as new as the registry had when the command was given, or at some *)
(* version if failed pulls were to be ignored.  That goes for a compose    *)
(* file edited or removed before compose was run on it too.                *)
Delivered ==
  (Reported /\ cmd.op = "start") =>
    \A t \in Asked : Answered(t) =>
      /\ t.name \in OnDisk
      /\ \A u \in Active(t.name, t.profiles) :
           run[t.name][u] >= (IF ignore THEN 1 ELSE asked)
      /\ \A u \in Unit \ file[t.name] : run[t.name][u] = 0

(* No container is ever brought up from an image older than what the       *)
(* registry had when the command was given, unless this run, or else the   *)
(* robot, is told to ignore failed pulls: not of a target that fails       *)
(* halfway either.                                                         *)
Tolerant == cmd.override = "true" \/ (cmd.override = "unset" /\ ignore)

NeverStale ==
  [][\A e \in Exp \ late, u \in Unit :
       (pc = "up" /\ meddled' = meddled /\ run'[e][u] \notin {0, run[e][u]})
         => Tolerant \/ run'[e][u] >= asked]_vars

(* A `stop` that does not report a target as failed leaves nothing of it   *)
(* running: none of its profiles and no orphan, whether it is enabled or   *)
(* not, when profiles are not named; the ones named otherwise.  So a stack *)
(* whose compose file went away after it was selected is a failure.        *)
Bare(t) == t.profiles \in {{}, {Star}}

StopMeansStop ==
  (Reported /\ cmd.op = "stop") =>
    \A t \in Asked : Answered(t) =>
      \A u \in (IF \A s \in Asked : s.name = t.name => Bare(s)
                THEN Unit ELSE Active(t.name, t.profiles)) : run[t.name][u] = 0

(* A command that ends by itself has attempted every target, whatever      *)
(* failed before.                                                          *)
NobodyLeftOut == Reported => \A t \in Asked : t.name \in tried \cup late

(* Named targets are acted on all or not at all: none is, when one of   *)
(* them does not exist.                                                    *)
NothingHalfDone ==
  (cmd.args # {} /\ tried # {}) =>
    \A t \in cmd.args : t.name \in OnDisk \cup edited
=============================================================================
