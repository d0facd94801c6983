------------------------- MODULE Experiments_proof -------------------------
(***************************************************************************)
(* Proofs about Experiments, for any experiments, profiles and lists.      *)
(* First what selection gives; then the invariant, which relates what is   *)
(* to be acted on to what was asked for, and what has been acted on to     *)
(* what docker runs; then each property from it.                           *)
(***************************************************************************)
EXTENDS Experiments, WellFoundedInduction, TLAPS

Selections == [Exp -> {NotChosen} \cup ProfileSet]

-----------------------------------------------------------------------------
(* Selection. *)

LEMMA MergedIsTyped ==
  ASSUME NEW T \in SUBSET Target
  PROVE  Merged(T) \in Selections
<1> SUFFICES ASSUME NEW e \in Exp
             PROVE  Merged(T)[e] \in {NotChosen} \cup ProfileSet
  BY DEF Selections, Merged
<1> DEFINE mine == {t \in T : t.name = e}
           all  == UNION {t.profiles : t \in mine}
<1>1. Merged(T)[e] = IF mine = {} THEN NotChosen ELSE IF Star \in all THEN {Star} ELSE all
  BY DEF Merged
<1>2. \A t \in mine : t.profiles \in SUBSET Profile \/ t.profiles = {Star}
  BY DEF Target, ProfileSet
<1>3. Star \notin all => all \in SUBSET Profile
  BY <1>2
<1> QED  BY <1>1, <1>3 DEF ProfileSet

(* A merged target has at least the services of each target merged into it.*)
LEMMA MergedCovers ==
  ASSUME NEW T \in SUBSET Target, NEW t \in T
  PROVE  /\ Merged(T)[t.name] # NotChosen
         /\ Active(t.name, t.profiles) \subseteq Active(t.name, Merged(T)[t.name])
<1> DEFINE e    == t.name
           mine == {s \in T : s.name = e}
           all  == UNION {s.profiles : s \in mine}
<1>1. e \in Exp /\ t.profiles \in ProfileSet /\ t \in mine
  BY DEF Target
<1>2. Merged(T)[e] = IF Star \in all THEN {Star} ELSE all
  BY <1>1 DEF Merged
<1>3. Merged(T)[e] # NotChosen
  <2>1. Merged(T)[e] \in {NotChosen} \cup ProfileSet
    BY <1>1, MergedIsTyped DEF Selections
  <2>2. CASE Star \in all
    BY <2>2, <1>2, AbsenceAssumption DEF ProfileSet
  <2>3. CASE Star \notin all
    <3>1. \A s \in mine : s.profiles \in SUBSET Profile \/ s.profiles = {Star}
      BY DEF Target, ProfileSet
    <3>2. all \in ProfileSet
      BY <2>3, <3>1 DEF ProfileSet
    <3> QED  BY <2>3, <3>2, <1>2, AbsenceAssumption
  <2> QED  BY <2>2, <2>3
<1>4. Active(e, t.profiles) \subseteq Active(e, Merged(T)[e])
  <2>1. CASE Star \in all
    BY <2>1, <1>2 DEF Active
  <2>2. CASE Star \notin all
    <3>1. t.profiles \subseteq all /\ Star \notin t.profiles
      BY <1>1, <2>2
    <3> QED  BY <2>2, <3>1, <1>2 DEF Active
  <2> QED  BY <2>1, <2>2
<1> QED  BY <1>3, <1>4

(* Only what is named is chosen. *)
LEMMA MergedIsNamed ==
  ASSUME NEW T \in SUBSET Target, NEW e \in Chosen(Merged(T))
  PROVE  \E t \in T : t.name = e
BY DEF Chosen, Merged

(* Without profiles in any of them, or with the wildcard in some, the      *)
(* merged target is as bare.                                               *)
LEMMA MergedIsBare ==
  ASSUME NEW T \in SUBSET Target, NEW t \in T,
         \A s \in T : s.name = t.name => s.profiles \in {{}, {Star}}
  PROVE  Merged(T)[t.name] \in {{}, {Star}}
<1> DEFINE mine == {s \in T : s.name = t.name}
           all  == UNION {s.profiles : s \in mine}
<1>1. t.name \in Exp /\ t \in mine
  BY DEF Target
<1>2. Merged(T)[t.name] = IF Star \in all THEN {Star} ELSE all
  BY <1>1 DEF Merged
<1>3. Star \notin all => all = {}
  OBVIOUS
<1> QED  BY <1>2, <1>3

LEMMA LeastLine ==
  ASSUME NEW S \in SUBSET Nat, S # {}
  PROVE  \E i \in S : \A j \in S : i <= j
<1>1. \E i \in S : \A j \in S : ~(<<j, i>> \in OpToRel(<, Nat))
  BY NatLessThanWellFounded, WFMin
<1>2. PICK i \in S : \A j \in S : ~(<<j, i>> \in OpToRel(<, Nat))
  BY <1>1
<1>3. \A j \in S : i <= j
  <2> SUFFICES ASSUME NEW j \in S  PROVE i <= j
    OBVIOUS
  <2>1. ~(j < i)
    BY <1>2 DEF OpToRel
  <2> QED  BY <2>1
<1> QED  BY <1>3

(* The line that counts for an experiment, if there is one. *)
LEMMA FirstLine ==
  ASSUME NEW list \in Lists, NEW e \in Exp, Lines(list, e) # {}
  PROVE  \E i \in Lines(list, e) :
           /\ \A j \in Lines(list, e) : i <= j
           /\ i = CHOOSE k \in Lines(list, e) : \A j \in Lines(list, e) : k <= j
           /\ list[i] \in Target /\ list[i].name = e
<1>1. list \in Seq(Target \cup {Bad})
  BY ListsAssumption
<1>2. Lines(list, e) \in SUBSET Nat
  BY <1>1 DEF Lines
<1>3. \E i \in Lines(list, e) : \A j \in Lines(list, e) : i <= j
  BY <1>2, LeastLine
<1> DEFINE i == CHOOSE k \in Lines(list, e) : \A j \in Lines(list, e) : k <= j
<1>4. i \in Lines(list, e) /\ \A j \in Lines(list, e) : i <= j
  BY <1>3
<1>5. list[i] \in Target /\ list[i].name = e
  BY <1>1, <1>4 DEF Lines
<1> QED  BY <1>4, <1>5

LEMMA ParseIsTyped ==
  ASSUME NEW list \in Lists
  PROVE  ParseEnabled(list) \in Selections
<1> SUFFICES ASSUME NEW e \in Exp
             PROVE  ParseEnabled(list)[e] \in {NotChosen} \cup ProfileSet
  BY DEF Selections, ParseEnabled
<1>1. CASE Lines(list, e) = {}
  BY <1>1 DEF ParseEnabled
<1>2. CASE Lines(list, e) # {}
  <2>1. PICK i \in Lines(list, e) :
           /\ i = CHOOSE k \in Lines(list, e) : \A j \in Lines(list, e) : k <= j
           /\ list[i] \in Target
    BY <1>2, FirstLine
  <2>2. ParseEnabled(list)[e] = list[i].profiles
    BY <1>2, <2>1 DEF ParseEnabled
  <2> QED  BY <2>1, <2>2 DEF Target
<1> QED  BY <1>1, <1>2

(* What is listed first for an experiment is what is read for it.          *)
LEMMA ListedIsParsed ==
  ASSUME NEW list \in Lists, NEW n \in DOMAIN list, list[n] # Bad,
         \A j \in 1..(n - 1) : list[j] = Bad \/ list[j].name # list[n].name
  PROVE  ParseEnabled(list)[list[n].name] = list[n].profiles
<1> DEFINE e == list[n].name
<1>0. list \in Seq(Target \cup {Bad}) /\ n \in Nat /\ e \in Exp
  BY ListsAssumption DEF Target
<1>1. n \in Lines(list, e)
  BY DEF Lines
<1>2. PICK i \in Lines(list, e) :
        /\ \A j \in Lines(list, e) : i <= j
        /\ i = CHOOSE k \in Lines(list, e) : \A j \in Lines(list, e) : k <= j
  BY <1>0, <1>1, FirstLine
<1>3. i = n
  <2>1. i <= n /\ i \in DOMAIN list /\ list[i] # Bad /\ list[i].name = e
    BY <1>1, <1>2 DEF Lines
  <2>2. i \in 1..Len(list) /\ n \in 1..Len(list)
    BY <1>0, <2>1
  <2>3. ~(i < n)
    <3> SUFFICES ASSUME i < n  PROVE FALSE
      OBVIOUS
    <3>1. i \in 1..(n - 1)
      BY <2>2
    <3> QED  BY <2>1, <3>1
  <2> QED  BY <2>1, <2>2, <2>3
<1> QED  BY <1>0, <1>1, <1>2, <1>3 DEF ParseEnabled

LEMMA EverythingIsTyped == Everything \in Selections
  BY DEF Everything, Selections, ProfileSet

-----------------------------------------------------------------------------
(* The invariant. *)

Acting == {"settings", "defaults", "ignore", "pull", "up", "down", "ps",
           "ok", "failed"}

(* Which command may be where, and what is untouched until targets are. *)
Phase ==
  /\ pc \in {"settings", "defaults", "ignore", "pull", "up"} => cmd.op = "start"
  /\ pc = "down" => cmd.op = "stop"
  /\ pc = "ps" => cmd.op = "status"
  /\ pc = "select" => cmd.args # {} \/ cmd.op = "stop"
  /\ pc \in {"enabled", "template", "read", "filter"} => cmd.args = {} /\ cmd.op # "stop"
  /\ pc \in {"settings", "defaults", "ignore"} =>
       todo = Chosen(want) /\ cur = {} /\ failed = {}
  /\ pc \in {"select", "enabled", "template", "read", "filter"} =>
       todo = {} /\ cur = {} /\ failed = {} /\ tried = {}
  /\ pc \in {"pull", "down", "ps"} => cur = {}
  /\ pc \in {"ok", "failed"} => todo = {}
  /\ pc = "ok" => failed = {}

\* What is listed.
Parsed == ParseEnabled(IF enabled = NoFile THEN <<>> ELSE enabled)

(* What has been read of enabled.conf, and then what is to be acted on, is *)
(* what was asked for, but for what changed late.                          *)
AsListed == pc = "filter" => \A e \in Exp \ late : want[e] = Parsed[e]

AsAsked ==
  pc \in Acting =>
    /\ cmd.args # {} =>
         /\ want = Merged(cmd.args)
         /\ \A t \in cmd.args : t.name \in OnDisk \cup edited
    /\ cmd.args = {} /\ cmd.op = "stop" =>
         /\ \A e \in Chosen(want) : want[e] = {}
         /\ OnDisk \ late \subseteq Chosen(want)
    /\ cmd.args = {} /\ cmd.op # "stop" =>
         \A e \in (OnDisk \cup Chosen(want)) \ late : want[e] = Parsed[e]

Selected == AsListed /\ AsAsked

(* What a target that is done with is like, if nobody changed it since. *)
Started(e) ==
  /\ e \in OnDisk
  /\ \A u \in Active(e, want[e]) : run[e][u] >= (IF ignore THEN 1 ELSE asked)
  /\ \A u \in Unit \ file[e] : run[e][u] = 0

Stopped(e) == \A u \in Goes(e) : run[e][u] = 0

DoneWith == Chosen(want) \ (todo \cup failed \cup late)

Progress ==
  pc \in Acting =>
    /\ cmd.op = "start" => \A e \in DoneWith : Started(e)
    /\ cmd.op = "stop" => \A e \in DoneWith : Stopped(e)
    /\ Chosen(want) \ todo \subseteq tried

(* What has been pulled, and what is not required to be. *)
Pulled ==
  /\ pc = "up" => cur \subseteq tried
  /\ pc = "up" /\ ~ignore =>
       \A e \in cur \ late : \A u \in Active(e, want[e]) : local[e][u] >= asked
  /\ pc \in {"pull", "up"} /\ ignore => Tolerant

IInv == TypeOK /\ Phase /\ Selected /\ Progress /\ Pulled /\ NothingHalfDone

LEMMA TypeInit == Init => TypeOK
<1> SUFFICES ASSUME Init PROVE TypeOK
  OBVIOUS
<1>1. latest \in Version \ {0} /\ asked \in 1..latest /\ meddled \in 0..MaxMeddling
  BY BoundAssumption DEF Init, Version
<1>2. local \in [Exp -> [Unit -> 0..latest]] /\ run \in [Exp -> [Unit -> 0..latest]]
  BY DEF Init
<1>3. want \in Selections /\ Chosen(want) = {}
  BY DEF Init, Selections, Chosen
<1>4. cmd \in [op : {"start", "stop", "status"}, args : SUBSET Target,
              override : {"unset", "true", "false"}]
  BY DEF Init
<1> QED  BY <1>1, <1>2, <1>3, <1>4 DEF Init, TypeOK, Selections, Ended

LEMMA InitEstablishes == Init => IInv
<1> SUFFICES ASSUME Init PROVE IInv
  OBVIOUS
<1>1. TypeOK
  BY TypeInit
<1>2. pc = "none" /\ tried = {} /\ cmd.args = {}
  BY DEF Init
<1> QED  BY <1>1, <1>2 DEF IInv, Phase, Selected, AsListed, AsAsked, Progress, Pulled,
     Acting, NothingHalfDone

-----------------------------------------------------------------------------
(* Types, action by action. *)

LEMMA ActTyped ==
  ASSUME TypeOK, NEW w \in Selections, Act(w), failed = {}, cur = {}
  PROVE  TypeOK'
<1>1. want' \in [Exp -> {NotChosen} \cup ProfileSet] /\ todo' = Chosen(want')
  BY DEF Act, Selections, Chosen
<1>2. pc' \in {"settings", "down", "ps"}
  BY DEF TypeOK, Act
<1>3. /\ file' = file /\ enabled' = enabled /\ setting' = setting /\ local' = local
      /\ run' = run /\ latest' = latest /\ cmd' = cmd /\ cur' = cur
      /\ failed' = failed /\ ignore' = ignore /\ asked' = asked /\ tried' = tried
      /\ edited' = edited /\ late' = late /\ meddled' = meddled
  BY DEF Act, disk, dock, others
<1> QED  BY <1>1, <1>2, <1>3 DEF TypeOK

LEMMA FetchTyped ==
  ASSUME TypeOK, NEW e \in Exp, NEW us \in SUBSET Unit, Fetch(e, us)
  PROVE  local' \in [Exp -> [Unit -> 0..latest]]
<1>1. [u \in Unit |-> IF u \in us THEN latest ELSE local[e][u]] \in [Unit -> 0..latest]
  BY DEF TypeOK, Version
<1> QED  BY <1>1 DEF Fetch, TypeOK

LEMMA ImageTyped ==
  ASSUME TypeOK, NEW e \in Exp, NEW u \in Unit
  PROVE  Image(e, u) \in 1..latest
  BY DEF TypeOK, Version, Image

LEMMA ContainersTyped ==
  ASSUME TypeOK, NEW e \in Exp, NEW up, NEW down, Containers(e, up, down)
  PROVE  run' \in [Exp -> [Unit -> 0..latest]]
<1>1. [u \in Unit |-> IF u \in up THEN Image(e, u) ELSE IF u \in down THEN 0
                                                 ELSE run[e][u]]
        \in [Unit -> 0..latest]
  BY ImageTyped DEF TypeOK, Version
<1> QED  BY <1>1 DEF Containers, TypeOK

LEMMA ActiveTyped ==
  ASSUME TypeOK, NEW e \in Exp, NEW P
  PROVE  Active(e, P) \subseteq Unit
  BY DEF TypeOK, Active

LEMMA ImagesTyped ==
  ASSUME TypeOK, NEW e \in Exp, NEW us,
         local' = [local EXCEPT ![e] =
                     [u \in Unit |-> IF u \in us THEN Image(e, u) ELSE @[u]]]
  PROVE  local' \in [Exp -> [Unit -> 0..latest]]
<1>1. [u \in Unit |-> IF u \in us THEN Image(e, u) ELSE local[e][u]] \in [Unit -> 0..latest]
  BY ImageTyped DEF TypeOK, Version
<1> QED  BY <1>1 DEF TypeOK

LEMMA TypeStep == TypeOK /\ Phase /\ [Next]_vars => TypeOK'
<1> SUFFICES ASSUME TypeOK, Phase, [Next]_vars  PROVE TypeOK'
  OBVIOUS
<1>1. ASSUME NEW op \in {"start", "stop", "status"}, NEW args \in Args,
             NEW override \in {"unset", "true", "false"}, Start(op, args, override)
      PROVE  TypeOK'
  <2>1. args \in SUBSET Target
    BY DEF Args
  <2>2. want' \in [Exp -> {NotChosen} \cup ProfileSet] /\ Chosen(want') = {}
    BY <1>1 DEF Start, Chosen
  <2>3. asked' \in 1..latest
    BY <1>1 DEF Start, TypeOK, Version
  <2> QED  BY <1>1, <2>1, <2>2, <2>3 DEF Start, TypeOK, disk, dock, others
<1>2. CASE Select
  <2>0. failed = {} /\ cur = {} /\ todo = {}
    BY <1>2 DEF Select, Phase
  <2>1. CASE End("refused")
    BY <2>1 DEF End, TypeOK, disk, dock, walk, Ended, others
  <2>2. CASE Act(Everything)
    BY <2>0, <2>2, ActTyped, EverythingIsTyped
  <2>3. CASE Act(Merged(cmd.args))
    <3>1. Merged(cmd.args) \in Selections
      BY MergedIsTyped DEF TypeOK
    <3> QED  BY <2>0, <2>3, <3>1, ActTyped
  <2> QED  BY <1>2, <2>1, <2>2, <2>3 DEF Select
<1>3. CASE EnsureEnabled
  BY <1>3 DEF EnsureEnabled, TypeOK, disk, dock, walk, others
<1>4. CASE CreateEnabled
  BY <1>4, ListsAssumption DEF CreateEnabled, TypeOK, dock, walk, others
<1>5. CASE ReadEnabled
  <2>0. failed = {} /\ cur = {} /\ todo = {}
    BY <1>5 DEF ReadEnabled, Phase
  <2>1. (IF enabled = NoFile THEN <<>> ELSE enabled) \in Lists
    BY ListsAssumption DEF TypeOK
  <2>2. want' \in Selections
    BY <1>5, <2>1, ParseIsTyped DEF ReadEnabled
  <2> QED  BY <1>5, <2>0, <2>2 DEF ReadEnabled, TypeOK, Selections, disk, dock, others
<1>5a. CASE Filter
  <2>0. failed = {} /\ cur = {} /\ todo = {}
    BY <1>5a DEF Filter, Phase
  <2>1. [e \in Exp |-> IF e \in OnDisk THEN want[e] ELSE NotChosen] \in Selections
    BY DEF TypeOK, Selections
  <2> QED  BY <1>5a, <2>0, <2>1, ActTyped DEF Filter
<1>6. CASE EnsureSettings
  BY <1>6 DEF EnsureSettings, TypeOK, disk, dock, walk, others
<1>7. CASE CreateSettings
  BY <1>7 DEF CreateSettings, TypeOK, dock, walk, others
<1>8. CASE ReadSettings
  BY <1>8 DEF ReadSettings, TypeOK, disk, dock, Ended, others
<1>9. CASE IoFails
  BY <1>9 DEF IoFails, End, TypeOK, disk, dock, walk, Ended, others
<1>10. CASE Report
  BY <1>10 DEF Report, End, TypeOK, disk, dock, walk, Ended, others
<1>11. ASSUME NEW e \in Exp, Pull(e)  PROVE TypeOK'
  <2>1. local' \in [Exp -> [Unit -> 0..latest]]
    BY <1>11, ActiveTyped, FetchTyped DEF Pull
  <2>2. pc' = "up" /\ cur' = {e} /\ e \in todo /\ tried' = tried \cup {e}
    BY <1>11 DEF Pull
  <2> QED  BY <1>11, <2>1, <2>2 DEF Pull, TypeOK, disk, others
<1>12. ASSUME NEW e \in Exp, PullFails(e)  PROVE TypeOK'
  <2>1. local' \in [Exp -> [Unit -> 0..latest]]
    <3>1. PICK some \in SUBSET Active(e, want[e]) : Fetch(e, some)
      BY <1>12 DEF PullFails
    <3>2. some \in SUBSET Unit
      BY <3>1, ActiveTyped
    <3> QED  BY <3>1, <3>2, FetchTyped
  <2>2. /\ pc' \in {"pull", "up"} /\ e \in todo /\ tried' = tried \cup {e}
        /\ todo' \subseteq todo /\ cur' \subseteq todo' /\ failed' \subseteq failed \cup {e}
    BY <1>12 DEF PullFails, Done, TypeOK
  <2> QED  BY <1>12, <2>1, <2>2 DEF PullFails, TypeOK, disk, others
<1>13. ASSUME NEW e \in Exp, Up(e)  PROVE TypeOK'
  <2>1. local' \in [Exp -> [Unit -> 0..latest]]
    BY <1>13, ImagesTyped DEF Up
  <2>2. run' \in [Exp -> [Unit -> 0..latest]]
    BY <1>13, ContainersTyped DEF Up
  <2>3. pc' = "pull" /\ todo' \subseteq todo /\ cur' = {} /\ failed' = failed
    BY <1>13 DEF Up, Done
  <2> QED  BY <1>13, <2>1, <2>2, <2>3 DEF Up, TypeOK, disk, others
<1>14. ASSUME NEW e \in Exp, UpFails(e)  PROVE TypeOK'
  <2>1. PICK up \in SUBSET Active(e, want[e]), down \in SUBSET (Unit \ file[e]) :
          /\ Containers(e, up, down)
          /\ local' = [local EXCEPT ![e] =
                         [u \in Unit |-> IF u \in up THEN Image(e, u) ELSE @[u]]]
    BY <1>14 DEF UpFails
  <2>2. local' \in [Exp -> [Unit -> 0..latest]]
    BY <2>1, ImagesTyped
  <2>3. run' \in [Exp -> [Unit -> 0..latest]]
    BY <2>1, ContainersTyped
  <2>4. /\ pc' = "pull" /\ todo' \subseteq todo /\ cur' = {} /\ e \in todo
        /\ failed' = failed \cup {e}
    BY <1>14 DEF UpFails, Done, TypeOK
  <2> QED  BY <1>14, <2>2, <2>3, <2>4 DEF UpFails, TypeOK, disk, others
<1>15. ASSUME NEW e \in Exp, Down(e)  PROVE TypeOK'
  <2>1. run' \in [Exp -> [Unit -> 0..latest]]
    BY <1>15, ContainersTyped DEF Down
  <2> QED  BY <1>15, <2>1 DEF Down, Done, TypeOK, disk, others
<1>16. ASSUME NEW e \in Exp, DownFails(e)  PROVE TypeOK'
  <2>1. run' \in [Exp -> [Unit -> 0..latest]]
    BY <1>16, ContainersTyped DEF DownFails
  <2> QED  BY <1>16, <2>1 DEF DownFails, Done, TypeOK, disk, others
<1>17. ASSUME NEW e \in Exp, Query(e)  PROVE TypeOK'
  BY <1>17 DEF Query, TypeOK, disk, dock, Phase, others
<1>18. CASE Deploy
  <2>1. latest' \in Version \ {0} /\ latest' = latest + 1 /\ latest \in Nat
    BY <1>18, BoundAssumption DEF Deploy, TypeOK, Version
  <2>2. 0..latest \subseteq 0..latest' /\ 1..latest \subseteq 1..latest'
    BY <2>1
  <2>3. local' \in [Exp -> [Unit -> 0..latest']] /\ run' \in [Exp -> [Unit -> 0..latest']]
    BY <1>18, <2>2 DEF Deploy, TypeOK, dock, others
  <2> QED  BY <1>18, <2>1, <2>2, <2>3 DEF Deploy, TypeOK, disk, walk, others
<1>19. meddled < MaxMeddling /\ meddled' = meddled + 1 => meddled' \in 0..MaxMeddling
  BY BoundAssumption DEF TypeOK
<1>20. CASE EditEnabled
  BY <1>19, <1>20 DEF EditEnabled, Meddle, TypeOK, dock, walk, others
<1>21. CASE EditSettings
  BY <1>19, <1>21 DEF EditSettings, Meddle, TypeOK, dock, walk, others
<1>22. CASE Kill
  BY <1>19, <1>22 DEF Kill, Meddle, TypeOK, disk, dock, walk, Ended, others
<1>23. ASSUME NEW e \in Exp, ChangeStack(e)  PROVE TypeOK'
  BY <1>19, <1>23 DEF ChangeStack, Meddle, TypeOK, dock, walk, others
<1>24. ASSUME NEW e \in Exp, Elsewhere(e)  PROVE TypeOK'
  BY <1>19, <1>24 DEF Elsewhere, Meddle, TypeOK, disk, walk, others
<1>25. ASSUME NEW e \in Exp, SideLoad(e)  PROVE TypeOK'
  BY <1>19, <1>25 DEF SideLoad, Meddle, TypeOK, disk, walk, others
<1>26. CASE UNCHANGED vars
  BY <1>26 DEF vars, TypeOK, disk, dock, walk, others
<1> QED
  BY <1>1, <1>2, <1>3, <1>4, <1>5, <1>5a, <1>6, <1>7, <1>8, <1>9, <1>10, <1>11, <1>12,
     <1>13, <1>14, <1>15, <1>16, <1>17, <1>18, <1>20, <1>21, <1>22, <1>23, <1>24,
     <1>25, <1>26 DEF Next, Command, Robotctl, Surroundings

-----------------------------------------------------------------------------
(* The phases of a command. *)

LEMMA PhaseStep == TypeOK /\ Phase /\ [Next]_vars => Phase'
<1> SUFFICES ASSUME TypeOK, Phase, [Next]_vars  PROVE Phase'
  OBVIOUS
<1>1. ASSUME NEW op \in {"start", "stop", "status"}, NEW args \in Args,
             NEW override \in {"unset", "true", "false"}, Start(op, args, override)
      PROVE  Phase'
  BY <1>1 DEF Start, Phase
<1>2. ASSUME NEW w, Act(w), pc \in {"select", "filter"}  PROVE Phase'
  <2>1. /\ pc' = CASE cmd.op = "start" -> "settings" [] cmd.op = "stop" -> "down"
                   [] cmd.op = "status" -> "ps"
        /\ cmd.op \in {"start", "stop", "status"}
        /\ todo' = Chosen(want')
    BY <1>2 DEF Act, TypeOK, Chosen
  <2> QED  BY <1>2, <2>1 DEF Act, Phase
<1>3. CASE Select
  <2>1. CASE End("refused")
    BY <2>1 DEF End, Phase, walk
  <2> QED  BY <1>2, <1>3, <2>1 DEF Select
<1>4. CASE EnsureEnabled
  BY <1>4 DEF EnsureEnabled, Phase, walk
<1>5. CASE CreateEnabled
  BY <1>5 DEF CreateEnabled, Phase, walk
<1>6. CASE ReadEnabled
  BY <1>6 DEF ReadEnabled, Phase
<1>6a. CASE Filter
  BY <1>2, <1>6a DEF Filter
<1>7. CASE EnsureSettings
  BY <1>7 DEF EnsureSettings, Phase, walk, Chosen
<1>8. CASE CreateSettings
  BY <1>8 DEF CreateSettings, Phase, walk, Chosen
<1>9. CASE ReadSettings
  BY <1>9 DEF ReadSettings, Phase
<1>10. CASE IoFails
  BY <1>10 DEF IoFails, End, Phase, walk
<1>11. CASE Report
  BY <1>11 DEF Report, End, Phase, walk
<1>12. ASSUME NEW e \in Exp, Pull(e)  PROVE Phase'
  BY <1>12 DEF Pull, Phase
<1>13. ASSUME NEW e \in Exp, PullFails(e)  PROVE Phase'
  BY <1>13 DEF PullFails, Done, Phase
<1>14. ASSUME NEW e \in Exp, Up(e)  PROVE Phase'
  BY <1>14 DEF Up, Done, Phase
<1>15. ASSUME NEW e \in Exp, UpFails(e)  PROVE Phase'
  BY <1>15 DEF UpFails, Done, Phase
<1>16. ASSUME NEW e \in Exp, Down(e)  PROVE Phase'
  BY <1>16 DEF Down, Done, Phase
<1>17. ASSUME NEW e \in Exp, DownFails(e)  PROVE Phase'
  BY <1>17 DEF DownFails, Done, Phase
<1>18. ASSUME NEW e \in Exp, Query(e)  PROVE Phase'
  BY <1>18 DEF Query, Phase
<1>19. CASE UNCHANGED <<pc, walk>>
  BY <1>19 DEF Phase, walk, Chosen
<1>20. CASE Kill
  BY <1>20 DEF Kill, Phase, walk
<1> QED
  BY <1>1, <1>3, <1>4, <1>5, <1>6, <1>6a, <1>7, <1>8, <1>9, <1>10, <1>11, <1>12, <1>13,
     <1>14, <1>15, <1>16, <1>17, <1>18, <1>19, <1>20
  DEF Next, Command, Robotctl, Surroundings, Deploy, EditEnabled, EditSettings,
      ChangeStack, Elsewhere, SideLoad, vars

-----------------------------------------------------------------------------
(* Selection stands, but for late changes. *)

LEMMA SameList ==
  ASSUME enabled' = enabled
  PROVE  Parsed' = Parsed
BY DEF Parsed, ParseEnabled, Lines

(* Whatever changes a stack that is not to be acted on, or enabled.conf,   *)
(* is late.                                                                *)
LEMMA SelectionStands ==
  ASSUME TypeOK, TypeOK', AsAsked, pc \in Acting,
         cmd' = cmd, want' = want, edited \subseteq edited', late \subseteq late',
         \A e \in Exp \ edited' : file'[e] = file[e],
         \A e \in Exp \ late' : file'[e] = file[e] \/ e \in Chosen(want),
         \/ enabled' = enabled
         \/ Exp \subseteq late' \/ cmd.args # {} \/ cmd.op = "stop"
  PROVE  AsAsked'
<1>0. Chosen(want)' = Chosen(want)
  BY DEF Chosen
<1>1. \A e \in OnDisk' \ late' : e \in OnDisk \ late \/ e \in Chosen(want)
  BY DEF OnDisk
<1>2. CASE cmd.args # {}
  <2>1. \A e \in Exp : e \in OnDisk \cup edited => e \in OnDisk' \cup edited'
    BY DEF OnDisk
  <2>2. \A t \in cmd.args : t.name \in Exp
    BY DEF TypeOK, Target
  <2>3. \A t \in cmd.args : t.name \in OnDisk' \cup edited'
    BY <1>2, <2>1, <2>2 DEF AsAsked
  <2> QED  BY <1>2, <2>3 DEF AsAsked, Merged
<1>3. CASE cmd.args = {} /\ cmd.op = "stop"
  BY <1>0, <1>1, <1>3 DEF AsAsked
<1>4. CASE cmd.args = {} /\ cmd.op # "stop"
  <2>1. \A e \in (OnDisk' \cup Chosen(want)) \ late' : want[e] = Parsed[e] /\ e \in Exp
    BY <1>1, <1>4 DEF AsAsked, OnDisk, Chosen
  <2>2. CASE enabled' = enabled
    BY <1>0, <1>4, <2>1, <2>2, SameList DEF AsAsked
  <2>3. CASE Exp \subseteq late'
    BY <1>0, <1>4, <2>1, <2>3 DEF AsAsked
  <2> QED  BY <1>4, <2>2, <2>3
<1> QED  BY <1>2, <1>3, <1>4

(* A command begins to act by selecting what to act on. *)
LEMMA OnlySelectionActs ==
  ASSUME [Next]_vars, pc \notin Acting, pc' \in Acting
  PROVE  Select \/ Filter
<1> SUFFICES ASSUME ~Select, ~Filter  PROVE FALSE
  OBVIOUS
<1>1. ~Command
  BY DEF Command, Start, Acting
<1>2. ~Surroundings
  BY DEF Surroundings, Deploy, EditEnabled, EditSettings, Kill, ChangeStack,
         Elsewhere, SideLoad, Acting
<1>3. ~Robotctl
  BY DEF Robotctl, EnsureEnabled, CreateEnabled, ReadEnabled, EnsureSettings,
         CreateSettings, ReadSettings, IoFails, Report, End, Pull, PullFails, Up,
         UpFails, Down, DownFails, Query, Acting
<1> QED  BY <1>1, <1>2, <1>3 DEF Next, vars

LEMMA ReadStep == TypeOK /\ Phase /\ AsListed /\ [Next]_vars => AsListed'
<1> SUFFICES ASSUME TypeOK, Phase, AsListed, [Next]_vars, pc' = "filter"
             PROVE  \A e \in Exp \ late' : want'[e] = Parsed'[e]
  BY DEF AsListed
<1>1. CASE ReadEnabled
  <2>1. want' = Parsed /\ enabled' = enabled
    BY <1>1 DEF ReadEnabled, Parsed, disk
  <2> QED  BY <2>1, SameList
<1>2. CASE Surroundings \/ UNCHANGED vars
  <2>1. pc = "filter" /\ want' = want /\ cmd.args = {} /\ cmd.op # "stop"
    BY <1>2 DEF Surroundings, Deploy, EditEnabled, EditSettings, Kill, ChangeStack,
       Elsewhere, SideLoad, walk, vars, Phase
  <2>2. late \subseteq late' /\ (enabled' = enabled \/ late' = Exp)
    BY <1>2, <2>1 DEF Surroundings, Deploy, EditEnabled, EditSettings, Kill, ChangeStack,
       Elsewhere, SideLoad, disk, vars, others, TypeOK
  <2>3. CASE enabled' = enabled
    BY <2>1, <2>2, <2>3, SameList DEF AsListed
  <2>4. CASE late' = Exp
    BY <2>4
  <2> QED  BY <2>2, <2>3, <2>4
<1>3. Command \/ Robotctl => ReadEnabled
  BY DEF Command, Start, Robotctl, Select, EnsureEnabled, CreateEnabled, Filter, Act,
     EnsureSettings, CreateSettings, ReadSettings, IoFails, Report, End, Pull, PullFails,
     Up, UpFails, Down, DownFails, Query, TypeOK
<1> QED  BY <1>1, <1>2, <1>3 DEF Next

LEMMA AskedStep ==
  TypeOK /\ Phase /\ AsListed /\ AsAsked /\ [Next]_vars => AsAsked'
<1> SUFFICES ASSUME TypeOK, Phase, AsListed, AsAsked, [Next]_vars  PROVE AsAsked'
  OBVIOUS
<1>0. TypeOK'
  BY TypeStep
<1>1. CASE pc' \notin Acting
  BY <1>1 DEF AsAsked
<1>2. CASE Select /\ pc' \in Acting
  <2>0. /\ OnDisk' = OnDisk /\ cmd' = cmd /\ late' = late
        /\ \/ cmd.args = {} /\ want' = Everything
           \/ /\ cmd.args # {} /\ want' = Merged(cmd.args)
              /\ Chosen(Merged(cmd.args)) \subseteq OnDisk
    BY <1>2 DEF Select, Act, End, disk, others, Acting, OnDisk
  <2>1. CASE cmd.args = {}
    <3>1. cmd.op = "stop"
      BY <1>2, <2>1 DEF Select, Phase
    <3>2. {} # NotChosen
      BY AbsenceAssumption DEF ProfileSet
    <3>3. Chosen(want') = OnDisk /\ \A e \in OnDisk : want'[e] = {}
      BY <2>0, <2>1, <3>2 DEF Chosen, Everything, OnDisk
    <3> QED  BY <2>0, <2>1, <3>1, <3>3 DEF AsAsked, Chosen
  <2>2. CASE cmd.args # {}
    <3>1. \A t \in cmd.args : t.name \in Chosen(Merged(cmd.args))
      BY MergedCovers DEF TypeOK, Target, Chosen
    <3>2. \A t \in cmd.args : t.name \in OnDisk'
      BY <2>0, <2>2, <3>1
    <3> QED  BY <2>0, <2>2, <3>2 DEF AsAsked, Merged
  <2> QED  BY <2>1, <2>2
<1>3. CASE Filter
  <2>0. /\ OnDisk' = OnDisk /\ enabled' = enabled /\ cmd' = cmd /\ late' = late
        /\ want' = [e \in Exp |-> IF e \in OnDisk THEN want[e] ELSE NotChosen]
        /\ cmd.args = {} /\ cmd.op # "stop" /\ pc = "filter"
    BY <1>3 DEF Filter, Act, disk, others, Phase, OnDisk
  <2>1. \A e \in OnDisk' \cup Chosen(want') : e \in Exp /\ want'[e] = want[e]
    BY <2>0 DEF Chosen, OnDisk
  <2>2. \A e \in (OnDisk' \cup Chosen(want')) \ late' : want'[e] = Parsed'[e]
    BY <2>0, <2>1, SameList DEF AsListed
  <2> QED  BY <2>0, <2>2 DEF AsAsked, Chosen
<1>4. CASE /\ pc \in Acting /\ cmd' = cmd /\ want' = want /\ edited \subseteq edited'
           /\ late \subseteq late' /\ file' = file /\ enabled' = enabled
  BY <1>0, <1>4, SelectionStands
<1>5. CASE pc \in Acting /\ EditEnabled
  <2>1. /\ cmd' = cmd /\ want' = want /\ file' = file
        /\ edited \subseteq edited' /\ late \subseteq late'
        /\ cmd.args = {} /\ cmd.op # "stop" => late' = Exp
    BY <1>5 DEF EditEnabled, walk, TypeOK, Acting
  <2> QED  BY <1>0, <1>5, <2>1, SelectionStands
<1>6. ASSUME pc \in Acting, NEW e \in Exp, ChangeStack(e)  PROVE AsAsked'
  <2>1. /\ cmd' = cmd /\ want' = want /\ edited' = edited \cup {e} /\ enabled' = enabled
        /\ \A x \in Exp \ {e} : file'[x] = file[x]
        /\ late \subseteq late' /\ (e \in late' \/ e \in todo)
    BY <1>6 DEF ChangeStack, Selecting, Acting, walk, TypeOK
  <2>2. e \in late' \/ e \in Chosen(want)
    BY <2>1 DEF TypeOK
  <2> QED  BY <1>0, <1>6, <2>1, <2>2, SelectionStands
<1>7. pc \notin Acting /\ pc' \in Acting => Select \/ Filter
  BY OnlySelectionActs
<1>8. pc \in Acting /\ Robotctl =>
        /\ cmd' = cmd /\ want' = want /\ edited' = edited /\ late' = late
        /\ file' = file /\ enabled' = enabled
  BY DEF Robotctl, Select, EnsureEnabled, CreateEnabled, ReadEnabled, Filter, EnsureSettings,
         CreateSettings, ReadSettings, IoFails, Report, End, Pull, PullFails, Up,
         UpFails, Down, DownFails, Query, Acting, walk, disk, others
<1>9. ASSUME NEW e \in Exp,
             \/ Deploy \/ EditSettings \/ Kill \/ UNCHANGED vars
             \/ Elsewhere(e) \/ SideLoad(e)
      PROVE  /\ cmd' = cmd /\ want' = want /\ edited \subseteq edited' /\ late \subseteq late'
             /\ file' = file /\ enabled' = enabled
  BY <1>9 DEF Deploy, EditSettings, Kill, Elsewhere, SideLoad, walk, disk, vars, others
<1>10. Deploy \/ EditSettings \/ Kill \/ UNCHANGED vars =>
         /\ cmd' = cmd /\ want' = want /\ edited \subseteq edited' /\ late \subseteq late'
         /\ file' = file /\ enabled' = enabled
  BY DEF Deploy, EditSettings, Kill, walk, disk, vars, others
<1>11. Command => pc' \notin Acting
  BY DEF Command, Start, Acting
<1> QED
  BY <1>1, <1>2, <1>3, <1>4, <1>5, <1>6, <1>7, <1>8, <1>9, <1>10, <1>11
  DEF Next, Surroundings

-----------------------------------------------------------------------------
(* Targets that are done with stay as they are, but for late changes. *)

LEMMA ProgressStands ==
  ASSUME TypeOK, Progress, pc \in Acting, cmd' = cmd, want' = want, asked' = asked,
         Chosen(want) \ todo' \subseteq tried',
         \A e \in DoneWith' : /\ e \in DoneWith /\ ignore' = ignore
                             /\ file'[e] = file[e] /\ run'[e] = run[e]
  PROVE  Progress'
<1>0. \A e \in DoneWith' : e \in Exp
  BY DEF DoneWith, Chosen
<1>1. ASSUME cmd.op = "start", NEW e \in DoneWith'  PROVE Started(e)'
  <2>1. Started(e)
    BY <1>1 DEF Progress
  <2>2. e \in OnDisk'
    BY <1>0, <1>1, <2>1 DEF Started, OnDisk
  <2>3. Active(e, want[e])' = Active(e, want[e])
    BY <1>1 DEF Active
  <2> QED  BY <1>1, <2>1, <2>2, <2>3 DEF Started
<1>2. ASSUME cmd.op = "stop", NEW e \in DoneWith'  PROVE Stopped(e)'
  <2>1. Stopped(e)
    BY <1>2 DEF Progress
  <2>2. Goes(e)' = Goes(e)
    BY <1>2 DEF Goes, Active
  <2> QED  BY <1>2, <2>1, <2>2 DEF Stopped
<1>3. Chosen(want)' = Chosen(want)
  BY DEF Chosen
<1> QED  BY <1>1, <1>2, <1>3 DEF Progress

LEMMA ProgressStep == TypeOK /\ Phase /\ Progress /\ Pulled /\ [Next]_vars => Progress'
<1> SUFFICES ASSUME TypeOK, Phase, Progress, Pulled, [Next]_vars  PROVE Progress'
  OBVIOUS
<1>1. CASE pc' \notin Acting
  BY <1>1 DEF Progress
<1>2. ASSUME NEW w, Act(w)  PROVE Progress'
  <2>1. todo' = Chosen(want)'
    BY <1>2 DEF Act, Chosen
  <2> QED  BY <2>1 DEF Progress, DoneWith
<1>3. CASE Select /\ pc' \in Acting
  BY <1>2, <1>3 DEF Select, End, Acting
<1>4. CASE Filter
  BY <1>2, <1>4 DEF Filter
<1>5. CASE EnsureSettings \/ CreateSettings \/ ReadSettings
  <2>1. /\ todo = Chosen(want) /\ todo' = todo /\ want' = want /\ cmd' = cmd
    BY <1>5 DEF EnsureSettings, CreateSettings, ReadSettings, Phase, walk
  <2>2. todo' = Chosen(want)'
    BY <2>1 DEF Chosen
  <2> QED  BY <2>2 DEF Progress, DoneWith
<1>6. CASE Report
  BY <1>6, ProgressStands DEF Report, End, walk, dock, disk, others, Acting, Progress,
     DoneWith, Chosen
<1>7. ASSUME NEW e \in Exp, Pull(e)  PROVE Progress'
  <2>1. /\ pc \in Acting /\ cmd' = cmd /\ want' = want /\ asked' = asked /\ todo' = todo
        /\ failed' = failed /\ late' = late /\ ignore' = ignore
        /\ file' = file /\ run' = run /\ tried \subseteq tried'
    BY <1>7 DEF Pull, disk, others, Acting
  <2>2. DoneWith' = DoneWith
    BY <2>1 DEF DoneWith, Chosen
  <2>3. Chosen(want) \ todo' \subseteq tried'
    BY <2>1 DEF Progress
  <2> QED  BY <2>1, <2>2, <2>3, ProgressStands
<1>8. ASSUME NEW e \in Exp, PullFails(e)  PROVE Progress'
  <2>1. /\ pc \in Acting /\ cmd' = cmd /\ want' = want /\ asked' = asked
        /\ late' = late /\ ignore' = ignore
        /\ file' = file /\ run' = run /\ tried' = tried \cup {e}
        /\ \/ todo' = todo /\ failed' = failed
           \/ todo' = todo \ {e} /\ failed' = failed \cup {e}
    BY <1>8 DEF PullFails, Done, disk, others, Acting
  <2>2. DoneWith' \subseteq DoneWith
    BY <2>1 DEF DoneWith, Chosen
  <2>3. Chosen(want) \ todo' \subseteq tried'
    BY <2>1 DEF Progress
  <2> QED  BY <2>1, <2>2, <2>3, ProgressStands
<1>9. ASSUME NEW e \in Exp, Up(e)  PROVE Progress'
  <2>1. /\ pc = "up" /\ e \in cur /\ cmd' = cmd /\ want' = want /\ asked' = asked
        /\ late' = late /\ ignore' = ignore /\ file' = file /\ tried' = tried
        /\ todo' = todo \ {e} /\ failed' = failed /\ e \in OnDisk /\ cmd.op = "start"
        /\ Containers(e, Active(e, want[e]), Unit \ file[e])
    BY <1>9 DEF Up, Done, disk, others, Phase
  <2>2. \A x \in Exp \ {e} : run'[x] = run[x]
    BY <2>1 DEF Containers, TypeOK
  <2>3. \A u \in Unit : run'[e][u] = IF u \in Active(e, want[e]) THEN Image(e, u)
                                    ELSE IF u \in Unit \ file[e] THEN 0 ELSE run[e][u]
    BY <2>1 DEF Containers, TypeOK
  <2>4. e \in DoneWith' => Started(e)'
    <3> SUFFICES ASSUME e \in DoneWith'  PROVE Started(e)'
      OBVIOUS
    <3>1. e \notin late
      BY <2>1 DEF DoneWith
    <3>2. Active(e, want[e])' = Active(e, want[e]) /\ Active(e, want[e]) \subseteq file[e]
      BY <2>1 DEF Active
    <3>3. \A u \in Active(e, want[e]) : Image(e, u) >= (IF ignore THEN 1 ELSE asked)
      <4> SUFFICES ASSUME NEW u \in Active(e, want[e])
                   PROVE  Image(e, u) >= (IF ignore THEN 1 ELSE asked)
        OBVIOUS
      <4>1. u \in Unit /\ Image(e, u) \in 1..latest /\ asked \in 1..latest /\ latest \in Nat
        BY ActiveTyped, ImageTyped DEF TypeOK, Version
      <4>2. CASE ignore
        BY <4>1, <4>2
      <4>3. CASE ~ignore
        <5>1. local[e][u] >= asked
          BY <2>1, <3>1, <4>3 DEF Pulled
        <5> QED  BY <4>1, <4>3, <5>1 DEF Image
      <4> QED  BY <4>2, <4>3
    <3>4. \A u \in Active(e, want[e]) : u \in Unit
      BY ActiveTyped
    <3>5. \A u \in Active(e, want[e]) : run'[e][u] >= (IF ignore THEN 1 ELSE asked)
      BY <2>3, <3>3, <3>4
    <3>6. \A u \in Unit \ file[e] : run'[e][u] = 0
      BY <2>3, <3>2
    <3>7. e \in OnDisk'
      BY <2>1 DEF OnDisk
    <3> QED  BY <2>1, <3>2, <3>5, <3>6, <3>7 DEF Started
  <2>5. ASSUME NEW x \in DoneWith', x # e  PROVE Started(x)'
    <3>1. x \in DoneWith /\ x \in Exp
      BY <2>1, <2>5 DEF DoneWith, Chosen
    <3>2. Started(x)
      BY <2>1, <3>1 DEF Progress, Acting
    <3>3. Active(x, want[x])' = Active(x, want[x]) /\ x \in OnDisk'
      BY <2>1, <3>2 DEF Active, Started, OnDisk
    <3> QED  BY <2>1, <2>2, <2>5, <3>1, <3>2, <3>3 DEF Started
  <2>6. Chosen(want)' \ todo' \subseteq tried'
    BY <2>1 DEF Progress, Pulled, Acting, Chosen
  <2> QED  BY <2>1, <2>4, <2>5, <2>6 DEF Progress
<1>10. ASSUME NEW e \in Exp, UpFails(e)  PROVE Progress'
  <2>0. PICK up \in SUBSET Active(e, want[e]), down \in SUBSET (Unit \ file[e]) :
          Containers(e, up, down)
    BY <1>10 DEF UpFails
  <2>1. /\ pc = "up" /\ e \in cur /\ cmd' = cmd /\ want' = want /\ asked' = asked
        /\ late' = late /\ ignore' = ignore /\ file' = file /\ tried' = tried
        /\ todo' = todo \ {e} /\ failed' = failed \cup {e}
    BY <1>10 DEF UpFails, Done, disk, others
  <2>2. \A x \in Exp \ {e} : run'[x] = run[x]
    BY <2>0 DEF Containers, TypeOK
  <2>3. \A x \in DoneWith' : x \in DoneWith /\ x \in Exp /\ x # e
    BY <2>1 DEF DoneWith, Chosen
  <2>4. Chosen(want) \ todo' \subseteq tried'
    BY <2>1 DEF Progress, Pulled, Acting
  <2>5. pc \in Acting
    BY <2>1 DEF Acting
  <2> QED  BY <2>1, <2>2, <2>3, <2>4, <2>5, ProgressStands
<1>11. ASSUME NEW e \in Exp, Down(e)  PROVE Progress'
  <2>1. /\ pc = "down" /\ e \in todo /\ cmd' = cmd /\ want' = want /\ asked' = asked
        /\ late' = late /\ file' = file /\ tried' = tried \cup {e}
        /\ todo' = todo \ {e} /\ failed' = failed /\ cmd.op = "stop"
        /\ Containers(e, {}, Goes(e))
    BY <1>11 DEF Down, Done, disk, others, Phase
  <2>2. \A x \in Exp \ {e} : run'[x] = run[x]
    BY <2>1 DEF Containers, TypeOK
  <2>3. \A x \in Exp : Goes(x)' = Goes(x) /\ Goes(x) \subseteq Unit
    BY <2>1, ActiveTyped DEF Goes, Active
  <2>4. Stopped(e)'
    BY <2>1, <2>3 DEF Stopped, Containers, TypeOK
  <2>5. ASSUME NEW x \in DoneWith', x # e  PROVE Stopped(x)'
    <3>1. x \in DoneWith /\ x \in Exp
      BY <2>1, <2>5 DEF DoneWith, Chosen
    <3>2. Stopped(x)
      BY <2>1, <3>1 DEF Progress, Acting
    <3> QED  BY <2>2, <2>3, <2>5, <3>1, <3>2 DEF Stopped
  <2>6. Chosen(want)' \ todo' \subseteq tried'
    BY <2>1 DEF Progress, Acting, Chosen
  <2> QED  BY <2>1, <2>4, <2>5, <2>6 DEF Progress
<1>12. ASSUME NEW e \in Exp, DownFails(e)  PROVE Progress'
  <2>1. /\ pc = "down" /\ cmd' = cmd /\ want' = want /\ asked' = asked
        /\ late' = late /\ ignore' = ignore /\ file' = file /\ tried' = tried \cup {e}
        /\ todo' = todo \ {e} /\ failed' = failed \cup {e}
        /\ \E some : Containers(e, {}, some)
    BY <1>12 DEF DownFails, Done, disk, others
  <2>2. \A x \in Exp \ {e} : run'[x] = run[x]
    BY <2>1 DEF Containers, TypeOK
  <2>3. \A x \in DoneWith' : x \in DoneWith /\ x \in Exp /\ x # e
    BY <2>1 DEF DoneWith, Chosen
  <2>4. Chosen(want) \ todo' \subseteq tried' /\ pc \in Acting
    BY <2>1 DEF Progress, Acting
  <2> QED  BY <2>1, <2>2, <2>3, <2>4, ProgressStands
<1>13. ASSUME NEW e \in Exp, Query(e)  PROVE Progress'
  <2>1. /\ pc = "ps" /\ cmd' = cmd /\ want' = want /\ cmd.op = "status"
        /\ tried' = tried \cup {e} /\ todo' = todo \ {e}
    BY <1>13 DEF Query, Phase
  <2> QED  BY <2>1 DEF Progress, Acting, Chosen
<1>14. ASSUME pc \in Acting, cmd' = cmd, want' = want, asked' = asked, todo' = todo,
              failed' = failed, ignore' = ignore, tried' = tried, late \subseteq late',
              \A e \in Exp \ (todo \cup late') : file'[e] = file[e] /\ run'[e] = run[e]
       PROVE  Progress'
  <2>1. \A e \in DoneWith' : e \in DoneWith /\ e \in Exp \ (todo \cup late')
    BY <1>14 DEF DoneWith, Chosen
  <2>2. Chosen(want) \ todo' \subseteq tried'
    BY <1>14 DEF Progress
  <2> QED  BY <1>14, <2>1, <2>2, ProgressStands
<1>15. CASE pc \in Acting /\ (Deploy \/ EditEnabled \/ EditSettings \/ Kill \/ UNCHANGED vars)
  <2>1. /\ cmd' = cmd /\ want' = want /\ asked' = asked /\ todo' = todo
        /\ failed' = failed /\ ignore' = ignore /\ tried' = tried
        /\ late \subseteq late' /\ file' = file /\ run' = run
    BY <1>15 DEF Deploy, EditEnabled, EditSettings, Kill, vars, walk, disk, dock, others, TypeOK
  <2> QED  BY <1>14, <1>15, <2>1
<1>16. ASSUME NEW e \in Exp, pc \in Acting, ChangeStack(e) \/ Elsewhere(e) \/ SideLoad(e)
       PROVE  Progress'
  <2>1. /\ cmd' = cmd /\ want' = want /\ asked' = asked /\ todo' = todo
        /\ failed' = failed /\ ignore' = ignore /\ tried' = tried
        /\ late \subseteq late' /\ late' \in SUBSET Exp
        /\ \A x \in Exp \ (todo \cup late') : file'[x] = file[x] /\ run'[x] = run[x]
    BY <1>16 DEF ChangeStack, Elsewhere, SideLoad, Selecting, Acting,
       walk, disk, dock, TypeOK
  <2> QED  BY <1>14, <1>16, <2>1
<1>17. pc \notin Acting /\ pc' \in Acting => Select \/ Filter
  BY OnlySelectionActs
<1>18. (Command \/ EnsureEnabled \/ CreateEnabled \/ ReadEnabled \/ IoFails)
          => pc' \notin Acting
  BY DEF Command, Start, EnsureEnabled, CreateEnabled, ReadEnabled, IoFails, End, Acting
<1> QED
  BY <1>1, <1>3, <1>4, <1>5, <1>6, <1>7, <1>8, <1>9, <1>10, <1>11, <1>12, <1>13,
     <1>15, <1>16, <1>17, <1>18 DEF Next, Robotctl, Surroundings

-----------------------------------------------------------------------------
(* What is about to be started has been pulled, unless that may fail. *)

LEMMA PulledStep == TypeOK /\ Phase /\ Pulled /\ [Next]_vars => Pulled'
<1> SUFFICES ASSUME TypeOK, Phase, Pulled, [Next]_vars  PROVE Pulled'
  OBVIOUS
<1>1. CASE pc' \notin {"pull", "up"}
  BY <1>1 DEF Pulled
<1>2. CASE ReadSettings
  BY <1>2 DEF ReadSettings, Pulled, Tolerant, TypeOK
<1>3. ASSUME NEW e \in Exp, Pull(e)  PROVE Pulled'
  <2>1. /\ cmd' = cmd /\ want' = want /\ file' = file /\ ignore' = ignore
        /\ asked' = asked /\ cur' = {e} /\ tried' = tried \cup {e}
        /\ Fetch(e, Active(e, want[e]))
    BY <1>3 DEF Pull, disk
  <2>2. \A u \in Active(e, want[e]) : local'[e][u] = latest /\ latest >= asked
    BY <2>1, ActiveTyped DEF Fetch, TypeOK, Version
  <2>3. Active(e, want[e])' = Active(e, want[e])
    BY <2>1 DEF Active
  <2>4. ignore' => Tolerant'
    BY <1>3, <2>1 DEF Pull, Pulled, Tolerant
  <2> QED  BY <2>1, <2>2, <2>3, <2>4 DEF Pulled
<1>4. ASSUME NEW e \in Exp, PullFails(e)  PROVE Pulled'
  <2>1. /\ cmd' = cmd /\ ignore' = ignore /\ tried' = tried \cup {e} /\ pc = "pull"
        /\ (pc' = "up" => ignore /\ cur' = {e})
    BY <1>4 DEF PullFails
  <2> QED  BY <2>1 DEF Pulled, Tolerant
<1>5. ASSUME NEW e \in Exp, Up(e) \/ UpFails(e)  PROVE Pulled'
  <2>1. cmd' = cmd /\ ignore' = ignore /\ pc = "up" /\ pc' = "pull"
    BY <1>5 DEF Up, UpFails
  <2> QED  BY <2>1 DEF Pulled, Tolerant
<1>6. ASSUME pc' = pc, cmd' = cmd, want' = want, asked' = asked, cur' = cur,
             ignore' = ignore, tried' = tried, late \subseteq late',
             \A e \in cur \ late' : file'[e] = file[e] /\ local'[e] = local[e]
      PROVE  Pulled'
  <2>1. \A e \in cur : e \in Exp
    BY DEF TypeOK, Chosen
  <2>2. \A e \in cur \ late' : Active(e, want[e])' = Active(e, want[e])
    BY <1>6 DEF Active
  <2> QED  BY <1>6, <2>1, <2>2 DEF Pulled, Tolerant
<1>7. CASE Deploy \/ EditEnabled \/ EditSettings \/ UNCHANGED vars
  <2>1. /\ pc' = pc /\ cmd' = cmd /\ want' = want /\ asked' = asked /\ cur' = cur
        /\ ignore' = ignore /\ tried' = tried
        /\ late \subseteq late' /\ file' = file /\ local' = local
    BY <1>7 DEF Deploy, EditEnabled, EditSettings, vars, walk, disk, dock, others, TypeOK
  <2> QED  BY <1>6, <2>1
<1>8. ASSUME NEW e \in Exp, ChangeStack(e) \/ Elsewhere(e) \/ SideLoad(e), pc' = "up"
      PROVE  Pulled'
  <2>1. /\ pc' = pc /\ cmd' = cmd /\ want' = want /\ asked' = asked /\ cur' = cur
        /\ ignore' = ignore /\ tried' = tried /\ late \subseteq late'
    BY <1>8 DEF ChangeStack, Elsewhere, SideLoad, walk
  <2>2. cur \subseteq Exp /\ cur \subseteq tried
    BY <1>8, <2>1 DEF TypeOK, Chosen, Pulled
  <2>3. \A x \in cur \ late' : file'[x] = file[x] /\ local'[x] = local[x]
    BY <1>8, <2>1, <2>2 DEF ChangeStack, Elsewhere, SideLoad, Selecting, disk, dock, TypeOK
  <2> QED  BY <1>6, <2>1, <2>3
<1>8a. ASSUME NEW e \in Exp, ChangeStack(e) \/ Elsewhere(e) \/ SideLoad(e), pc' = "pull"
      PROVE  Pulled'
  BY <1>8a DEF ChangeStack, Elsewhere, SideLoad, walk, Pulled, Tolerant
<1>9. pc' \in {"pull", "up"} =>
        \/ ReadSettings
        \/ \E e \in Exp : Pull(e) \/ PullFails(e) \/ Up(e) \/ UpFails(e)
        \/ Deploy \/ EditEnabled \/ EditSettings \/ UNCHANGED vars
        \/ \E e \in Exp : ChangeStack(e) \/ Elsewhere(e) \/ SideLoad(e)
  <2>1. Command \/ Kill => pc' \notin {"pull", "up"}
    BY DEF Command, Start, Kill
  <2>2. Select \/ ReadEnabled \/ Filter => pc' \notin {"pull", "up"}
    BY DEF Select, ReadEnabled, Filter, Act, End, TypeOK
  <2>3. EnsureEnabled \/ CreateEnabled \/ EnsureSettings \/ CreateSettings \/ IoFails
          \/ Report => pc' \notin {"pull", "up"}
    BY DEF EnsureEnabled, CreateEnabled, EnsureSettings, CreateSettings, IoFails,
           Report, End
  <2>4. \A e \in Exp : Down(e) \/ DownFails(e) \/ Query(e) => pc' \notin {"pull", "up"}
    BY DEF Down, DownFails, Query
  <2> QED  BY <2>1, <2>2, <2>3, <2>4 DEF Next, Robotctl, Surroundings
<1> QED
  BY <1>1, <1>2, <1>3, <1>4, <1>5, <1>7, <1>8, <1>8a, <1>9

(* Named targets that are not there keep the command from beginning. *)
LEMMA WholeStep ==
  TypeOK /\ Phase /\ Selected /\ NothingHalfDone /\ [Next]_vars => NothingHalfDone'
<1> SUFFICES ASSUME TypeOK, Phase, Selected, NothingHalfDone, [Next]_vars
             PROVE  NothingHalfDone'
  OBVIOUS
<1>1. ASSUME cmd' = cmd, edited \subseteq edited',
             \A e \in Exp \ edited' : file'[e] = file[e],
             tried' = tried \/ pc \in Acting
      PROVE  NothingHalfDone'
  <2>1. \A e \in Exp : e \in OnDisk \cup edited => e \in OnDisk' \cup edited'
    BY <1>1 DEF OnDisk
  <2>2. \A t \in cmd.args : t.name \in Exp
    BY DEF TypeOK, Target
  <2> QED  BY <1>1, <2>1, <2>2 DEF NothingHalfDone, Selected, AsAsked
<1>2. CASE Command
  BY <1>2 DEF Command, Start, NothingHalfDone
<1>3. CASE Robotctl
  <2>1. cmd' = cmd /\ edited' = edited /\ file' = file
    BY <1>3 DEF Robotctl, Select, EnsureEnabled, CreateEnabled, ReadEnabled, Filter, Act,
         EnsureSettings, CreateSettings, ReadSettings, IoFails, Report, End, Pull,
         PullFails, Up, UpFails, Down, DownFails, Query, walk, disk, others
  <2>2. tried' = tried \/ pc \in Acting
    BY <1>3 DEF Robotctl, Select, EnsureEnabled, CreateEnabled, ReadEnabled, Filter, Act,
         EnsureSettings, CreateSettings, ReadSettings, IoFails, Report, End, Pull,
         PullFails, Up, UpFails, Down, DownFails, Query, walk, Acting
  <2> QED  BY <1>1, <2>1, <2>2
<1>4. CASE Deploy \/ EditEnabled \/ EditSettings \/ Kill \/ UNCHANGED vars
  <2>1. cmd' = cmd /\ edited \subseteq edited' /\ file' = file /\ tried' = tried
    BY <1>4 DEF Deploy, EditEnabled, EditSettings, Kill, vars, walk, disk, others, TypeOK
  <2> QED  BY <1>1, <2>1
<1>5. ASSUME NEW e \in Exp, ChangeStack(e) \/ Elsewhere(e) \/ SideLoad(e)
      PROVE  NothingHalfDone'
  <2>1. /\ cmd' = cmd /\ edited \subseteq edited' /\ tried' = tried
        /\ \A x \in Exp \ edited' : file'[x] = file[x]
    BY <1>5 DEF ChangeStack, Elsewhere, SideLoad, walk, disk, TypeOK
  <2> QED  BY <1>1, <2>1
<1> QED  BY <1>2, <1>3, <1>4, <1>5 DEF Next, Surroundings

-----------------------------------------------------------------------------
(* The inductive invariant of the experiments commands.                    *)
THEOREM Invariance == Spec => []IInv
<1>1. IInv /\ [Next]_vars => IInv'
  BY TypeStep, PhaseStep, ReadStep, AskedStep, ProgressStep, PulledStep, WholeStep
  DEF IInv, Selected, AsAsked
<1> QED  BY <1>1, InitEstablishes, PTL DEF Spec

(* Type correctness.                                                       *)
THEOREM TypeCorrect == Spec => []TypeOK
<1>1. IInv => TypeOK
  BY DEF IInv
<1> QED  BY <1>1, Invariance, PTL

(* Named targets are acted on all or not at all.                           *)
THEOREM AllOrNone == Spec => []NothingHalfDone
<1>1. IInv => NothingHalfDone
  BY DEF IInv
<1> QED  BY <1>1, Invariance, PTL

(* A target that was asked for, and that nobody has changed late, is       *)
(* chosen, with at least the services asked for.                           *)
LEMMA AskedIsChosen ==
  ASSUME IInv, pc \in Acting, NEW t \in Asked, t.name \notin late
  PROVE  /\ t.name \in Chosen(want)
         /\ Active(t.name, t.profiles) \subseteq Active(t.name, want[t.name])
<1>1. CASE cmd.args # {}
  <2>1. t \in cmd.args /\ want = Merged(cmd.args)
    BY <1>1 DEF Asked, IInv, Selected, AsAsked
  <2>2. cmd.args \in SUBSET Target
    BY DEF IInv, TypeOK
  <2>3. want[t.name] # NotChosen /\ Active(t.name, t.profiles) \subseteq Active(t.name, want[t.name])
    BY <2>1, <2>2, MergedCovers
  <2>4. t.name \in Exp
    BY <2>1, <2>2 DEF Target
  <2> QED  BY <2>3, <2>4 DEF Chosen
<1>2. CASE cmd.args = {} /\ cmd.op = "stop"
  <2>1. t.name \in OnDisk /\ t.profiles = {}
    BY <1>2 DEF Asked
  <2>2. t.name \in Chosen(want) /\ want[t.name] = {}
    BY <1>2, <2>1 DEF IInv, Selected, AsAsked
  <2> QED  BY <2>1, <2>2
<1>3. CASE cmd.args = {} /\ cmd.op # "stop"
  <2>1. t \in Listed /\ t.name \in OnDisk
    BY <1>3 DEF Asked
  <2>2. enabled # NoFile /\ enabled \in Lists
    BY <2>1 DEF Listed, IInv, TypeOK
  <2>3. PICK n \in DOMAIN enabled :
          /\ t = enabled[n] /\ enabled[n] # Bad
          /\ \A j \in 1..(n - 1) : enabled[j] = Bad \/ enabled[j].name # enabled[n].name
    BY <2>1, <2>2 DEF Listed
  <2>4. ParseEnabled(enabled)[enabled[n].name] = enabled[n].profiles
    BY <2>2, <2>3, ListedIsParsed
  <2>5. want[t.name] = t.profiles
    BY <1>3, <2>1, <2>2, <2>3, <2>4 DEF IInv, Selected, AsAsked, Parsed
  <2>6. t \in Target
    BY <2>2, <2>3, ListsAssumption
  <2>7. t.profiles # NotChosen
    BY <2>6, AbsenceAssumption DEF Target
  <2> QED  BY <2>1, <2>5, <2>7 DEF Chosen, OnDisk
<1> QED  BY <1>1, <1>2, <1>3

(* A `start` that does not report a target as failed has it run as asked.  *)
THEOREM StartsDeliver == Spec => []Delivered
<1>1. IInv => Delivered
  <2> SUFFICES ASSUME IInv, Reported, cmd.op = "start", NEW t \in Asked, Answered(t)
               PROVE  /\ t.name \in OnDisk
                      /\ \A u \in Active(t.name, t.profiles) :
                           run[t.name][u] >= (IF ignore THEN 1 ELSE asked)
                      /\ \A u \in Unit \ file[t.name] : run[t.name][u] = 0
    BY DEF Delivered
  <2>1. pc \in Acting /\ todo = {} /\ t.name \notin late \cup failed
    BY DEF Reported, Answered, IInv, Phase, Acting
  <2>2. t.name \in DoneWith /\ Active(t.name, t.profiles) \subseteq Active(t.name, want[t.name])
    BY <2>1, AskedIsChosen DEF DoneWith
  <2>3. Started(t.name)
    BY <2>1, <2>2 DEF IInv, Progress
  <2> QED  BY <2>2, <2>3 DEF Started
<1> QED  BY <1>1, Invariance, PTL

(* A `stop` that does not report a target as failed leaves none of it.     *)
THEOREM StopsStop == Spec => []StopMeansStop
<1>1. IInv => StopMeansStop
  <2> SUFFICES ASSUME IInv, Reported, cmd.op = "stop", NEW t \in Asked, Answered(t),
                      NEW u \in (IF \A s \in Asked : s.name = t.name => Bare(s)
                                 THEN Unit ELSE Active(t.name, t.profiles))
               PROVE  run[t.name][u] = 0
    BY DEF StopMeansStop
  <2>1. pc \in Acting /\ todo = {} /\ t.name \notin late \cup failed
    BY DEF Reported, Answered, IInv, Phase, Acting
  <2>2. t.name \in DoneWith /\ Active(t.name, t.profiles) \subseteq Active(t.name, want[t.name])
    BY <2>1, AskedIsChosen DEF DoneWith
  <2>3. Stopped(t.name)
    BY <2>1, <2>2 DEF IInv, Progress
  <2>4. Active(t.name, t.profiles) \subseteq Goes(t.name)
    <3>1. t.name \in Exp
      BY <2>2 DEF DoneWith, Chosen
    <3> QED  BY <2>2, <3>1, ActiveTyped DEF Goes, IInv
  <2>5. (\A s \in Asked : s.name = t.name => Bare(s)) => want[t.name] \in {{}, {Star}}
    <3> SUFFICES ASSUME \A s \in Asked : s.name = t.name => Bare(s)
                 PROVE  want[t.name] \in {{}, {Star}}
      OBVIOUS
    <3>1. CASE cmd.args # {}
      <4>1. /\ want = Merged(cmd.args) /\ t \in cmd.args /\ cmd.args \in SUBSET Target
            /\ \A s \in cmd.args : s.name = t.name => s.profiles \in {{}, {Star}}
        BY <2>1, <3>1 DEF IInv, Selected, AsAsked, Asked, Bare, TypeOK
      <4>2. Merged(cmd.args)[t.name] \in {{}, {Star}}
        BY <4>1, MergedIsBare
      <4> QED  BY <4>1, <4>2
    <3>2. CASE cmd.args = {}
      BY <2>1, <2>2, <3>2 DEF IInv, Selected, AsAsked, DoneWith
    <3> QED  BY <3>1, <3>2
  <2>6. u \in Goes(t.name)
    BY <2>4, <2>5 DEF Goes
  <2> QED  BY <2>3, <2>6 DEF Stopped
<1> QED  BY <1>1, Invariance, PTL

(* A command that ends by itself has attempted every target.               *)
THEOREM AllAttempted == Spec => []NobodyLeftOut
<1>1. IInv => NobodyLeftOut
  <2> SUFFICES ASSUME IInv, Reported, NEW t \in Asked, t.name \notin late
               PROVE  t.name \in tried
    BY DEF NobodyLeftOut
  <2>1. pc \in Acting /\ todo = {}
    BY DEF Reported, IInv, Phase, Acting
  <2>2. t.name \in Chosen(want)
    BY <2>1, AskedIsChosen
  <2> QED  BY <2>1, <2>2 DEF IInv, Progress
<1> QED  BY <1>1, Invariance, PTL

(* Nothing is brought up from an image older than what the registry had    *)
(* when the command was given, unless failed pulls are to be ignored.      *)
THEOREM NothingStale == Spec => NeverStale
<1> DEFINE Fresh == \A e \in Exp \ late, u \in Unit :
             (pc = "up" /\ meddled' = meddled /\ run'[e][u] \notin {0, run[e][u]})
               => Tolerant \/ run'[e][u] >= asked
<1>1. IInv /\ [Next]_vars => [Fresh]_vars
  <2> SUFFICES ASSUME IInv, Next, NEW e \in Exp \ late, NEW u \in Unit,
                      pc = "up", meddled' = meddled, run'[e][u] \notin {0, run[e][u]}
               PROVE  Tolerant \/ run'[e][u] >= asked
    BY DEF vars
  <2>0. meddled \in Nat
    BY DEF IInv, TypeOK
  <2>1. PICK x \in Exp : Up(x) \/ UpFails(x)
    <3>1. ~Command
      BY DEF Command, Start, Idle, Ended
    <3>2. ~Surroundings
      BY <2>0 DEF Surroundings, Deploy, EditEnabled, EditSettings, Kill, ChangeStack,
                  Elsewhere, SideLoad, Meddle, dock, others
    <3>3. Robotctl => \E x \in Exp : Up(x) \/ UpFails(x)
      BY DEF Robotctl, Select, EnsureEnabled, CreateEnabled, ReadEnabled, Filter,
             Act, EnsureSettings, CreateSettings, ReadSettings, IoFails, Report, Pull, PullFails, Down,
             DownFails, Query
    <3> QED  BY <3>1, <3>2, <3>3 DEF Next
  <2>2. PICK up \in SUBSET Active(x, want[x]), down \in SUBSET Unit : Containers(x, up, down)
    BY <2>1 DEF Up, UpFails
  <2>3. x = e /\ u \in up /\ run'[e][u] = Image(e, u)
    BY <2>2 DEF Containers, IInv, TypeOK
  <2>4. e \in cur
    BY <2>1, <2>3 DEF Up, UpFails
  <2>5. CASE ignore
    BY <2>5 DEF IInv, Pulled
  <2>6. CASE ~ignore
    <3>1. local[e][u] >= asked
      BY <2>2, <2>3, <2>4, <2>6 DEF IInv, Pulled
    <3>2. latest >= asked
      BY DEF IInv, TypeOK, Version
    <3> QED  BY <2>3, <3>1, <3>2 DEF Image
  <2> QED  BY <2>5, <2>6
<1> QED  BY <1>1, Invariance, PTL DEF Spec, NeverStale

-----------------------------------------------------------------------------
(* What a step of the program may do, whatever is on the robot. *)

(* How far a command is from its end.  Between the targets it is the       *)
(* targets left that count.                                                *)
Stages ==
  [enabled |-> 8, template |-> 7, read |-> 6, filter |-> 5, select |-> 5,
   settings |-> 4, defaults |-> 3, ignore |-> 2, pull |-> 1, up |-> 1, down |-> 1, ps |-> 1,
   none |-> 0, ok |-> 0, failed |-> 0, refused |-> 0, error |-> 0, killed |-> 0]
Stage == Stages[pc]

Closer ==
  \/ Stage' < Stage
  \/ Stage' = Stage /\ todo' \subseteq todo /\ todo' # todo
  \/ todo' = todo /\ pc = "pull" /\ pc' = "up"

(* Every step brings the command nearer to its end: it comes back to no    *)
(* file and to no target, and nothing else moves it, short of a kill.      *)
CommandsEnd ==
  [][/\ Robotctl => Closer
     /\ Surroundings => UNCHANGED <<Stage, todo>> \/ Stage' = 0]_vars

THEOREM EveryStepCounts == Spec => CommandsEnd
<1>1. ASSUME TypeOK, Robotctl  PROVE Closer
  <2>1. CASE \/ Select \/ EnsureEnabled \/ CreateEnabled \/ ReadEnabled \/ Filter
             \/ EnsureSettings \/ CreateSettings \/ ReadSettings \/ IoFails \/ Report
    <3>1. Stage' < Stage
      BY <1>1, <2>1 DEF Stage, Stages, Select, EnsureEnabled, CreateEnabled, ReadEnabled, Filter,
         Act, EnsureSettings, CreateSettings, ReadSettings, IoFails, Report, End, TypeOK
    <3> QED  BY <3>1 DEF Closer
  <2>2. ASSUME NEW e \in Exp, Pull(e)  PROVE Closer
    BY <2>2 DEF Closer, Pull
  <2>3. ASSUME NEW e \in Exp, PullFails(e)  PROVE Closer
    BY <2>3 DEF Closer, Stage, Stages, PullFails, Done
  <2>4. ASSUME NEW e \in Exp, Up(e) \/ UpFails(e)  PROVE Closer
    <3>1. Stage' = Stage /\ todo' = todo \ {e} /\ e \in todo
      BY <1>1, <2>4 DEF Stage, Stages, Up, UpFails, Done, TypeOK
    <3> QED  BY <3>1 DEF Closer
  <2>5. ASSUME NEW e \in Exp, Down(e) \/ DownFails(e) \/ Query(e)  PROVE Closer
    <3>1. Stage' = Stage /\ todo' = todo \ {e} /\ e \in todo
      BY <2>5 DEF Stage, Down, DownFails, Query, Done
    <3> QED  BY <3>1 DEF Closer
  <2> QED  BY <1>1, <2>1, <2>2, <2>3, <2>4, <2>5 DEF Robotctl
<1>2. ASSUME TypeOK, Surroundings  PROVE UNCHANGED <<Stage, todo>> \/ Stage' = 0
  BY <1>2 DEF Surroundings, Deploy, EditEnabled, EditSettings, Kill, ChangeStack, Elsewhere,
     SideLoad, Stage, Stages, walk
<1>3. TypeOK /\ [Next]_vars =>
        [/\ Robotctl => Closer
         /\ Surroundings => UNCHANGED <<Stage, todo>> \/ Stage' = 0]_vars
  BY <1>1, <1>2
<1> QED  BY <1>3, TypeCorrect, PTL DEF Spec, CommandsEnd

(* Which targets are still to be tried. *)
Untried ==
  /\ pc \in {"settings", "defaults", "ignore"} => tried = {}
  /\ pc \in {"pull", "down", "ps"} => tried \cap todo = {}
  /\ pc = "up" => \E x \in Exp : cur = {x} /\ tried \cap todo \subseteq cur

LEMMA UntriedStep == IInv /\ Untried /\ [Next]_vars => Untried'
<1> SUFFICES ASSUME IInv, Untried, [Next]_vars  PROVE Untried'
  OBVIOUS
<1>1. CASE Command
  BY <1>1 DEF Command, Start, Untried
<1>2. CASE Select \/ ReadEnabled \/ Filter
  <2>1. tried = {} /\ tried' = tried
    BY <1>2 DEF IInv, Phase, Select, ReadEnabled, Filter, Act, End, walk
  <2>2. pc' # "up"
    BY <1>2 DEF IInv, TypeOK, Select, ReadEnabled, Filter, Act, End
  <2> QED  BY <2>1, <2>2 DEF Untried
<1>3. CASE EnsureEnabled \/ CreateEnabled \/ EnsureSettings \/ CreateSettings
  BY <1>3 DEF EnsureEnabled, CreateEnabled, EnsureSettings, CreateSettings, walk, Untried
<1>4. CASE ReadSettings
  BY <1>4 DEF ReadSettings, Untried
<1>5. CASE IoFails \/ Report
  BY <1>5 DEF IoFails, Report, End, Untried
<1>6. ASSUME NEW e \in Exp, Pull(e) \/ PullFails(e)  PROVE Untried'
  BY <1>6 DEF IInv, TypeOK, Pull, PullFails, Done, Untried
<1>7. ASSUME NEW e \in Exp, Up(e) \/ UpFails(e)  PROVE Untried'
  <2>1. cur = {e} /\ tried \cap todo \subseteq cur
    BY <1>7 DEF Up, UpFails, Untried
  <2>2. pc' = "pull" /\ tried' = tried /\ todo' = todo \ {e}
    BY <1>7 DEF Up, UpFails, Done
  <2> QED  BY <2>1, <2>2 DEF Untried
<1>8. ASSUME NEW e \in Exp, Down(e) \/ DownFails(e) \/ Query(e)  PROVE Untried'
  BY <1>8 DEF Down, DownFails, Query, Done, Untried
<1>9. CASE Surroundings \/ UNCHANGED vars
  <2>1. \/ UNCHANGED <<pc, tried, todo, cur>>
        \/ pc' = "killed"
    BY <1>9 DEF Surroundings, Deploy, EditEnabled, EditSettings, Kill, ChangeStack,
       Elsewhere, SideLoad, walk, vars
  <2> QED  BY <2>1 DEF Untried
<1> QED
  BY <1>1, <1>2, <1>3, <1>4, <1>5, <1>6, <1>7, <1>8, <1>9 DEF Next, Robotctl

(* No target of a command is attempted twice, whatever fails of it.        *)
OnceEach ==
  [][\A e \in Exp :
       Pull(e) \/ PullFails(e) \/ Down(e) \/ DownFails(e) \/ Query(e) =>
         e \notin tried /\ e \in tried']_vars

THEOREM AttemptedOnce == Spec => OnceEach
<1>1. Init => Untried
  BY DEF Init, Untried
<1>2. Untried =>
        [\A e \in Exp :
           Pull(e) \/ PullFails(e) \/ Down(e) \/ DownFails(e) \/ Query(e) =>
             e \notin tried /\ e \in tried']_vars
  BY DEF Untried, Pull, PullFails, Down, DownFails, Query
<1> QED  BY <1>1, <1>2, UntriedStep, Invariance, PTL DEF Spec, OnceEach

(* A command changes what it is for and nothing else: of docker only the   *)
(* targets that are still to do, images only for a `start`, and containers *)
(* go away only for a `stop` (`status` changes nothing); of the disk only  *)
(* the two configuration files, to give a robot that has none the          *)
(* template: one that is there is never replaced, unless somebody saved it *)
(* after the command had seen that it was missing.                         *)
OnlyItsTargets ==
  [][Robotctl =>
       /\ UNCHANGED <<file, latest>>
       /\ enabled' # enabled =>
            /\ cmd.args = {} /\ cmd.op # "stop" /\ enabled' = <<>>
            /\ enabled = NoFile \/ "enabled.conf" \in edited
       /\ setting' # setting =>
            /\ cmd.op = "start" /\ setting' = "false"
            /\ setting = NoFile \/ "experiments.conf" \in edited
       /\ \A e \in Exp :
            /\ local'[e] # local[e] => cmd.op = "start" /\ e \in todo
            /\ run'[e] # run[e] =>
                 /\ e \in todo /\ e \in Chosen(want)
                 /\ \/ cmd.op = "start"
                    \/ /\ cmd.op = "stop"
                       /\ \A u \in Unit : run'[e][u] \in {0, run[e][u]}]_vars

(* A template is written only where the file was missing, or has been      *)
(* saved by somebody else since the command looked.                        *)
SeenAbsent ==
  /\ pc = "template" => enabled = NoFile \/ "enabled.conf" \in edited
  /\ pc = "defaults" => setting = NoFile \/ "experiments.conf" \in edited

LEMMA SeenAbsentStep == IInv /\ SeenAbsent /\ [Next]_vars => SeenAbsent'
<1> SUFFICES ASSUME IInv, SeenAbsent, [Next]_vars  PROVE SeenAbsent'
  OBVIOUS
<1>1. CASE EnsureEnabled
  BY <1>1 DEF EnsureEnabled, SeenAbsent, disk, others
<1>2. CASE EnsureSettings
  BY <1>2 DEF EnsureSettings, SeenAbsent, disk, others
<1>3. CASE /\ Robotctl \/ Command
           /\ ~EnsureEnabled /\ ~EnsureSettings
  <2>1. pc' \notin {"template", "defaults"}
    BY <1>3 DEF IInv, TypeOK, Robotctl, Command, Start, Select, CreateEnabled, ReadEnabled,
       Filter, Act, CreateSettings, ReadSettings, IoFails, Report, End, Pull, PullFails, Up,
       UpFails, Down, DownFails, Query
  <2> QED  BY <2>1 DEF SeenAbsent
<1>4. CASE Surroundings \/ UNCHANGED vars
  BY <1>4 DEF Surroundings, Deploy, EditEnabled, EditSettings, Kill, ChangeStack, Elsewhere,
     SideLoad, disk, walk, others, vars, SeenAbsent
<1> QED  BY <1>1, <1>2, <1>3, <1>4 DEF Next

LEMMA OthersUntouched ==
  ASSUME TypeOK, NEW x \in Exp, NEW e \in Exp, e # x,
         \/ Pull(x) \/ PullFails(x) \/ Up(x) \/ UpFails(x)
         \/ Down(x) \/ DownFails(x) \/ Query(x)
  PROVE  local'[e] = local[e] /\ run'[e] = run[e]
BY DEF TypeOK, Pull, PullFails, Up, UpFails, Down, DownFails, Query, Fetch, Containers, dock

THEOREM TargetsOnly == Spec => OnlyItsTargets
<1> DEFINE Docker(e) ==
             /\ local'[e] # local[e] => cmd.op = "start" /\ e \in todo
             /\ run'[e] # run[e] =>
                  /\ e \in todo /\ e \in Chosen(want)
                  /\ \/ cmd.op = "start"
                     \/ /\ cmd.op = "stop"
                        /\ \A u \in Unit : run'[e][u] \in {0, run[e][u]}
           Disk ==
             /\ UNCHANGED <<file, latest>>
             /\ enabled' # enabled =>
                  /\ cmd.args = {} /\ cmd.op # "stop" /\ enabled' = <<>>
                  /\ enabled = NoFile \/ "enabled.conf" \in edited
             /\ setting' # setting =>
                  /\ cmd.op = "start" /\ setting' = "false"
                  /\ setting = NoFile \/ "experiments.conf" \in edited
<1>1. ASSUME IInv, SeenAbsent, Robotctl  PROVE Disk
  BY <1>1 DEF SeenAbsent, IInv, Phase, Robotctl, Select, EnsureEnabled, CreateEnabled, ReadEnabled, Filter, Act,
     EnsureSettings, CreateSettings, ReadSettings, IoFails, Report, End, Pull, PullFails, Up,
     UpFails, Down, DownFails, Query, disk
<1>2. ASSUME IInv, Robotctl, NEW e \in Exp  PROVE Docker(e)
  <2>1. CASE \/ Select \/ EnsureEnabled \/ CreateEnabled \/ ReadEnabled \/ Filter
             \/ EnsureSettings \/ CreateSettings \/ ReadSettings \/ IoFails \/ Report
    BY <2>1 DEF Select, EnsureEnabled, CreateEnabled, ReadEnabled, Filter, Act,
       EnsureSettings, CreateSettings, ReadSettings, IoFails, Report, End, dock
  <2>2. ASSUME NEW x \in Exp,
               \/ Pull(x) \/ PullFails(x) \/ Up(x) \/ UpFails(x)
               \/ Down(x) \/ DownFails(x) \/ Query(x)
        PROVE  Docker(e)
    <3>1. CASE e # x
      BY <1>2, <2>2, <3>1, OthersUntouched DEF IInv
    <3>2. x \in todo /\ x \in Chosen(want)
      BY <1>2, <2>2 DEF IInv, TypeOK, Pull, PullFails, Up, UpFails, Down, DownFails, Query
    <3>3. CASE Pull(x) \/ PullFails(x) \/ Up(x) \/ UpFails(x)
      <4>1. cmd.op = "start"
        BY <1>2, <3>3 DEF IInv, Phase, Pull, PullFails, Up, UpFails
      <4> QED  BY <3>1, <3>2, <4>1
    <3>4. CASE Down(x) \/ DownFails(x)
      <4>1. cmd.op = "stop" /\ local' = local
        BY <1>2, <3>4 DEF IInv, Phase, Down, DownFails
      <4>2. \E down : Containers(x, {}, down)
        BY <3>4 DEF Down, DownFails
      <4>3. \A u \in Unit : run'[x][u] \in {0, run[x][u]}
        BY <1>2, <4>2 DEF IInv, TypeOK, Containers
      <4> QED  BY <3>1, <3>2, <4>1, <4>3
    <3>5. CASE Query(x)
      BY <3>5 DEF Query, dock
    <3> QED  BY <2>2, <3>3, <3>4, <3>5
  <2> QED  BY <1>2, <2>1, <2>2 DEF Robotctl
<1>3. IInv /\ SeenAbsent /\ [Next]_vars => [Robotctl => Disk /\ \A e \in Exp : Docker(e)]_vars
  <2> HIDE DEF Disk, Docker
  <2> QED  BY <1>1, <1>2
<1>4. Init => SeenAbsent
  BY DEF Init, SeenAbsent
<1> QED  BY <1>3, <1>4, SeenAbsentStep, Invariance, PTL DEF Spec, OnlyItsTargets

=============================================================================
