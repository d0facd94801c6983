------------------------ MODULE RobotIdentity_proof ------------------------
(***************************************************************************)
(* RobotIdentity proved for any number of processes, any IDs and any       *)
(* domain IDs: the inductive invariant, and from it that no reader sees a  *)
(* torn file, that a clean run leaves every artifact agreeing with         *)
(* robot.conf, and that an undisturbed set keeps the other assignment.     *)
(*                                                                         *)
(* One lemma per action shows that it preserves the invariant, one step    *)
(* per part of it.                                                         *)
(***************************************************************************)
EXTENDS RobotIdentity, TLAPS

USE DEF vars, system, local, Goto, Assignments, Derived, Names, Commands,
        Active, Pcs, Writing, Deriving, Derives

-----------------------------------------------------------------------------
(* What load() returns is a valid ID, whatever robot.conf holds. *)
LEMMA EffectiveType ==
  ASSUME NEW c \in Assignments \cup {NoFile}
  PROVE  Effective(c) \in Ids
  BY DefaultAssumption, DistinctAssumption DEF Effective

(* What set_key() writes is a whole robot.conf in which the assignment it  *)
(* was asked for has the value it was given, and the other one is kept.    *)
LEMMA UpsertKeeps ==
  ASSUME NEW c \in Assignments \cup {NoFile}, NEW k \in Commands, k.op # "apply"
  PROVE  /\ Upsert(c, k) \in Assignments
         /\ Upsert(c, k) # NoFile /\ Upsert(c, k) # Torn
         /\ k.op = "set_id" => Effective(Upsert(c, k)) = k.arg
         /\ c # NoFile => IF k.op = "set_id" THEN Upsert(c, k).dom = c.dom
                                             ELSE Upsert(c, k).id = c.id
  <1> DEFINE old == IF c = NoFile THEN [id |-> Unset, dom |-> Unset] ELSE c
  <1>1. old \in Assignments
    OBVIOUS
  <1>2. CASE k.op = "set_id"
    <2>1. Upsert(c, k) = [old EXCEPT !.id = k.arg] /\ k.arg \in Ids
      BY <1>2 DEF Upsert
    <2> QED
      BY <1>1, <1>2, <2>1, DistinctAssumption, TornAssumption DEF Effective
  <1>3. CASE k.op # "set_id"
    <2>1. Upsert(c, k) = [old EXCEPT !.dom = k.arg] /\ k.arg \in Doms
      BY <1>3 DEF Upsert
    <2> QED
      BY <1>1, <1>3, <2>1, DistinctAssumption, TornAssumption
  <1> QED
    BY <1>2, <1>3

-----------------------------------------------------------------------------
(* Every initial state satisfies the invariant. *)
LEMMA InitInv == Init => IInv
  <1> SUFFICES ASSUME Init PROVE IInv
    OBVIOUS
  <1>1. PICK c \in {NoFile} \cup Assignments :
          /\ conf = c
          /\ file = [f \in Derived |-> Effective(c)]
          /\ running = Effective(c) /\ mdns = Effective(c)
    BY DEF Init
  <1>2. Flags
    BY Zenon DEF Init, Flags
  <1>3. Ranges
    BY <1>1, EffectiveType, DefaultAssumption DEF Init, Ranges
  <1>4. Places /\ Alone /\ Progress /\ CleanRunAgrees /\ RenameIsAnnounced
    BY DEF Init, Places, Alone, Progress, CleanRunAgrees, RenameIsAnnounced
  <1> QED
    BY <1>2, <1>3, <1>4 DEF IInv

(* Start preserves the invariant. *)
LEMMA StartStep ==
  ASSUME IInv, NEW p \in Procs, NEW c \in Commands, Start(p, c)
  PROVE  IInv'
  <1>1. Flags'
    BY Zenon DEF IInv, Flags, Start
  <1>2. Ranges'
    BY DefaultAssumption DEF IInv, Ranges, Places, Content, Start
  <1>3. Places'
    BY DEF IInv, Flags, Ranges, Places, Content, Start
  <1>4. Alone'
    BY DEF IInv, Flags, Ranges, Alone, Start
  <1>5. Progress'
    BY DEF IInv, Flags, Ranges, Places, Alone, Progress, CleanRunAgrees,
       Content, Start
  <1>6. CleanRunAgrees'
    BY DEF IInv, Flags, Ranges, Places, Progress, CleanRunAgrees, Start
  <1>7. RenameIsAnnounced'
    BY DEF IInv, Flags, Ranges, Places, Progress, CleanRunAgrees,
       RenameIsAnnounced, Start
  <1> QED
    BY <1>1, <1>2, <1>3, <1>4, <1>5, <1>6, <1>7 DEF IInv

(* OpenTmp preserves the invariant. *)
LEMMA OpenTmpStep ==
  ASSUME IInv, NEW p \in Procs, OpenTmp(p)
  PROVE  IInv'
  <1>1. Flags'
    BY Zenon DEF IInv, Flags, OpenTmp
  <1>2. Ranges'
    BY DefaultAssumption DEF IInv, Ranges, Places, Content, OpenTmp
  <1>3. Places'
    BY DEF IInv, Flags, Ranges, Places, Content, OpenTmp
  <1>4. Alone'
    BY DEF IInv, Flags, Ranges, Alone, OpenTmp
  <1>5. Progress'
    BY DEF IInv, Flags, Ranges, Places, Alone, Progress, CleanRunAgrees,
       Content, OpenTmp
  <1>6. CleanRunAgrees'
    BY DEF IInv, Flags, Ranges, Places, Progress, CleanRunAgrees, OpenTmp
  <1>7. RenameIsAnnounced'
    BY DEF IInv, Flags, Ranges, Places, Progress, CleanRunAgrees,
       RenameIsAnnounced, OpenTmp
  <1> QED
    BY <1>1, <1>2, <1>3, <1>4, <1>5, <1>6, <1>7 DEF IInv

(* FillTmp preserves the invariant. *)
LEMMA FillTmpStep ==
  ASSUME IInv, NEW p \in Procs, FillTmp(p)
  PROVE  IInv'
  <1>1. Flags'
    BY Zenon DEF IInv, Flags, FillTmp
  <1>2. Ranges'
    BY UpsertKeeps, DefaultAssumption DEF IInv, Ranges, Places, Content,
       FillTmp
  <1>3. Places'
    BY UpsertKeeps DEF IInv, Flags, Ranges, Places, Content, FillTmp
  <1>4. Alone'
    BY DEF IInv, Flags, Ranges, Alone, FillTmp
  <1>5. Progress'
    BY UpsertKeeps DEF IInv, Flags, Ranges, Places, Alone, Progress,
       CleanRunAgrees, Content, FillTmp
  <1>6. CleanRunAgrees'
    BY DEF IInv, Flags, Ranges, Places, Progress, CleanRunAgrees, FillTmp
  <1>7. RenameIsAnnounced'
    BY DEF IInv, Flags, Ranges, Places, Progress, CleanRunAgrees,
       RenameIsAnnounced, FillTmp
  <1> QED
    BY <1>1, <1>2, <1>3, <1>4, <1>5, <1>6, <1>7 DEF IInv

(* Rename preserves the invariant. *)
LEMMA RenameStep ==
  ASSUME IInv, NEW p \in Procs, Rename(p)
  PROVE  IInv'
  <1>1. Flags'
    BY Zenon DEF IInv, Flags, Rename, AfterWrite
  <1>2. Alone'
    BY DEF IInv, Flags, Ranges, Alone, Rename, AfterWrite
  <1>3. CASE target[p] = "conf"
    <2> DEFINE new == Upsert(existing[p], cmd[p])
    <2>1. cmd[p].op # "apply" /\ tmp[p] = new /\ existing[p] \in Assignments \cup {NoFile}
      BY <1>3 DEF IInv, Ranges, Places, Content, Rename
    <2>2. /\ new \in Assignments
          /\ cmd[p].op = "set_id" => Effective(new) = cmd[p].arg
      BY <2>1, UpsertKeeps DEF IInv, Ranges
    <2> HIDE DEF new
    <2>3. conf' = new /\ UNCHANGED <<file, running, mdns, nudged, cmd, loaded, clean>>
      BY <1>3, <2>1 DEF Rename
    <2>4. /\ pc' = [pc EXCEPT ![p] = IF cmd[p].op = "set_id" THEN "load" ELSE "ok"]
          /\ target' = [target EXCEPT ![p] = "conf"]
          /\ tmp' = [tmp EXCEPT ![p] = NoFile]
          /\ existing' = [existing EXCEPT ![p] = NoFile]
      BY <1>3 DEF Rename, AfterWrite
    <2>5. renamed' = renamed
      BY <1>3 DEF Rename, IInv, Flags
    <2>6. pc[p] = "rename"
      BY DEF Rename
    <2>7. Ranges'
      BY <2>2, <2>3, <2>4 DEF IInv, Ranges
    <2>8. Places'
      BY <1>3, <2>1, <2>3, <2>4, <2>5, <2>6 DEF IInv, Ranges, Places, Content
    <2>9. Progress'
      BY <1>3, <2>1, <2>2, <2>3, <2>4, <2>6 DEF IInv, Ranges, Places, Alone,
         Progress
    <2>10. \A q \in Procs : pc'[q] = "ok" /\ clean'[q] /\ (Derives(q)' \/ renamed'[q]) => FALSE
      BY <1>3, <2>1, <2>3, <2>4, <2>5, <2>6 DEF IInv, Ranges, Places, Alone
    <2>11. CleanRunAgrees' /\ RenameIsAnnounced'
      BY <2>10 DEF CleanRunAgrees, RenameIsAnnounced
    <2> QED
      BY <1>1, <1>2, <2>7, <2>8, <2>9, <2>11 DEF IInv
  <1>4. CASE target[p] # "conf"
    <2>1. tmp[p] = loaded[p] /\ target[p] \in Derived /\ Derives(p)
      BY <1>4 DEF IInv, Ranges, Places, Content, Rename
    <2>2. /\ conf' = conf /\ file' = [file EXCEPT ![target[p]] = loaded[p]]
          /\ UNCHANGED <<running, mdns, nudged, cmd, loaded, clean>>
      BY <1>4, <2>1 DEF Rename
    <2>3. /\ pc' = [pc EXCEPT ![p] = IF target[p] = "hostname" THEN "hosts" ELSE "runtime"]
          /\ target' = [target EXCEPT ![p] = "conf"]
          /\ tmp' = [tmp EXCEPT ![p] = NoFile]
          /\ existing' = [existing EXCEPT ![p] = NoFile]
      BY <1>4, <2>1 DEF Rename, AfterWrite
    <2>4. /\ renamed' = [renamed EXCEPT ![p] = @ \/ target[p] = "hostname"]
          /\ pc[p] = "rename"
      BY DEF Rename
    <2>5. Ranges'
      BY <2>1, <2>2, <2>3 DEF IInv, Ranges
    <2>6. Places'
      BY <1>4, <2>1, <2>2, <2>3, <2>4 DEF IInv, Flags, Ranges, Places, Content
    <2>7. Progress'
      BY <1>4, <2>1, <2>2, <2>3, <2>4 DEF IInv, Ranges, Places, Alone, Progress
    <2>8. CleanRunAgrees'
      BY <1>4, <2>1, <2>2, <2>3, <2>4 DEF IInv, Ranges, Places, Alone,
         CleanRunAgrees
    <2>9. RenameIsAnnounced'
      BY <1>4, <2>1, <2>2, <2>3, <2>4 DEF IInv, Flags, Ranges, Places, Alone,
         RenameIsAnnounced
    <2> QED
      BY <1>1, <1>2, <2>5, <2>6, <2>7, <2>8, <2>9 DEF IInv
  <1> QED
    BY <1>3, <1>4

(* IoFails preserves the invariant. *)
LEMMA IoFailsStep ==
  ASSUME IInv, NEW p \in Procs, IoFails(p)
  PROVE  IInv'
  <1>1. Flags'
    BY Zenon DEF IInv, Flags, IoFails, Over
  <1>2. Ranges'
    BY DefaultAssumption DEF IInv, Ranges, Places, Content, IoFails, Over
  <1>3. Places'
    BY DEF IInv, Flags, Ranges, Places, Content, IoFails, Over
  <1>4. Alone'
    BY DEF IInv, Flags, Ranges, Alone, IoFails, Over
  <1>5. Progress'
    BY DEF IInv, Flags, Ranges, Places, Alone, Progress, CleanRunAgrees,
       Content, IoFails, Over
  <1>6. CleanRunAgrees'
    BY DEF IInv, Flags, Ranges, Places, Progress, CleanRunAgrees, IoFails, Over
  <1>7. RenameIsAnnounced'
    BY DEF IInv, Flags, Ranges, Places, Progress, CleanRunAgrees,
       RenameIsAnnounced, IoFails, Over
  <1> QED
    BY <1>1, <1>2, <1>3, <1>4, <1>5, <1>6, <1>7 DEF IInv

(* ReadConf preserves the invariant. *)
LEMMA ReadConfStep ==
  ASSUME IInv, NEW p \in Procs, ReadConf(p)
  PROVE  IInv'
  <1>1. Flags'
    BY Zenon DEF IInv, Flags, ReadConf
  <1>2. Ranges'
    BY DefaultAssumption DEF IInv, Ranges, Places, Content, ReadConf
  <1>3. Places'
    BY DEF IInv, Flags, Ranges, Places, Content, ReadConf
  <1>4. Alone'
    BY DEF IInv, Flags, Ranges, Alone, ReadConf
  <1>5. Progress'
    BY DEF IInv, Flags, Ranges, Places, Alone, Progress, CleanRunAgrees,
       Content, ReadConf
  <1>6. CleanRunAgrees'
    BY DEF IInv, Flags, Ranges, Places, Progress, CleanRunAgrees, ReadConf
  <1>7. RenameIsAnnounced'
    BY DEF IInv, Flags, Ranges, Places, Progress, CleanRunAgrees,
       RenameIsAnnounced, ReadConf
  <1> QED
    BY <1>1, <1>2, <1>3, <1>4, <1>5, <1>6, <1>7 DEF IInv

(* Load preserves the invariant. *)
LEMMA LoadStep ==
  ASSUME IInv, NEW p \in Procs, Load(p)
  PROVE  IInv'
  <1>1. Flags'
    BY Zenon DEF IInv, Flags, Load
  <1>2. Ranges'
    BY EffectiveType, DefaultAssumption DEF IInv, Ranges, Places, Content, Load
  <1>3. Places'
    BY EffectiveType DEF IInv, Flags, Ranges, Places, Content, Load
  <1>4. Alone'
    BY DEF IInv, Flags, Ranges, Alone, Load
  <1>5. Progress'
    BY EffectiveType DEF IInv, Flags, Ranges, Places, Alone, Progress,
       CleanRunAgrees, Content, Load
  <1>6. CleanRunAgrees'
    BY DEF IInv, Flags, Ranges, Places, Progress, CleanRunAgrees, Load
  <1>7. RenameIsAnnounced'
    BY DEF IInv, Flags, Ranges, Places, Progress, CleanRunAgrees,
       RenameIsAnnounced, Load
  <1> QED
    BY <1>1, <1>2, <1>3, <1>4, <1>5, <1>6, <1>7 DEF IInv

(* WriteHostname preserves the invariant. *)
LEMMA WriteHostnameStep ==
  ASSUME IInv, NEW p \in Procs, WriteHostname(p)
  PROVE  IInv'
  <1>1. Flags'
    BY Zenon DEF IInv, Flags, WriteHostname, Compare
  <1>2. Ranges'
    BY DefaultAssumption DEF IInv, Ranges, Places, Content, WriteHostname,
       Compare
  <1>3. Places'
    BY DEF IInv, Flags, Ranges, Places, Content, WriteHostname, Compare
  <1>4. Alone'
    BY DEF IInv, Flags, Ranges, Alone, WriteHostname, Compare
  <1>5. Progress'
    BY DEF IInv, Flags, Ranges, Places, Alone, Progress, CleanRunAgrees,
       Content, WriteHostname, Compare
  <1>6. CleanRunAgrees'
    BY DEF IInv, Flags, Ranges, Places, Progress, CleanRunAgrees,
       WriteHostname, Compare
  <1>7. RenameIsAnnounced'
    BY DEF IInv, Flags, Ranges, Places, Progress, CleanRunAgrees,
       RenameIsAnnounced, WriteHostname, Compare
  <1> QED
    BY <1>1, <1>2, <1>3, <1>4, <1>5, <1>6, <1>7 DEF IInv

(* WriteHosts preserves the invariant. *)
LEMMA WriteHostsStep ==
  ASSUME IInv, NEW p \in Procs, WriteHosts(p)
  PROVE  IInv'
  <1>1. Flags'
    BY Zenon DEF IInv, Flags, WriteHosts, Compare
  <1>2. Ranges'
    BY DefaultAssumption DEF IInv, Ranges, Places, Content, WriteHosts, Compare
  <1>3. Places'
    BY DEF IInv, Flags, Ranges, Places, Content, WriteHosts, Compare
  <1>4. Alone'
    BY DEF IInv, Flags, Ranges, Alone, WriteHosts, Compare
  <1>5. Progress'
    BY DEF IInv, Flags, Ranges, Places, Alone, Progress, CleanRunAgrees,
       Content, WriteHosts, Compare
  <1>6. CleanRunAgrees'
    BY DEF IInv, Flags, Ranges, Places, Progress, CleanRunAgrees, WriteHosts,
       Compare
  <1>7. RenameIsAnnounced'
    BY DEF IInv, Flags, Ranges, Places, Progress, CleanRunAgrees,
       RenameIsAnnounced, WriteHosts, Compare
  <1> QED
    BY <1>1, <1>2, <1>3, <1>4, <1>5, <1>6, <1>7 DEF IInv

(* SetRuntime preserves the invariant. *)
LEMMA SetRuntimeStep ==
  ASSUME IInv, NEW p \in Procs, SetRuntime(p)
  PROVE  IInv'
  <1>0. PICK ok \in BOOLEAN :
          /\ pc[p] = "runtime" /\ pc' = [pc EXCEPT ![p] = "nudge"]
          /\ running' = IF ok THEN loaded[p] ELSE running
          /\ clean' = [clean EXCEPT ![p] = @ /\ ok]
          /\ UNCHANGED <<conf, file, mdns, nudged, cmd, existing, target, tmp,
                         loaded, renamed>>
    BY Zenon DEF SetRuntime
  <1>1. Flags'
    BY Zenon DEF IInv, Flags, SetRuntime
  <1>2. Ranges'
    BY DefaultAssumption DEF IInv, Ranges, Places, Content, SetRuntime
  <1>3. Places'
    BY DEF IInv, Flags, Ranges, Places, Content, SetRuntime
  <1>4. Alone'
    BY DEF IInv, Flags, Ranges, Alone, SetRuntime
  <1>5. Progress'
    <2>1. CASE clean'[p]
      <3>1. clean[p] /\ running' = loaded[p]
        BY <1>0, <2>1 DEF IInv, Flags
      <3>2. loaded[p] = Effective(conf)
        BY <1>0, <3>1 DEF IInv, Progress
      <3> QED
        BY <1>0, <3>1, <3>2 DEF IInv, Ranges, Alone, Progress
    <2>2. CASE ~clean'[p]
      BY <1>0, <2>2 DEF IInv, Ranges, Alone, Progress
    <2> QED
      BY <2>1, <2>2
  <1>6. CleanRunAgrees'
    BY <1>0 DEF IInv, Ranges, Alone, CleanRunAgrees
  <1>7. RenameIsAnnounced'
    BY DEF IInv, Flags, Ranges, Places, Progress, CleanRunAgrees,
       RenameIsAnnounced, SetRuntime
  <1> QED
    BY <1>1, <1>2, <1>3, <1>4, <1>5, <1>6, <1>7 DEF IInv

(* Nudge preserves the invariant. *)
LEMMA NudgeStep ==
  ASSUME IInv, NEW p \in Procs, Nudge(p)
  PROVE  IInv'
  <1>1. Flags'
    BY Zenon DEF IInv, Flags, Nudge
  <1>2. Ranges'
    BY DefaultAssumption DEF IInv, Ranges, Places, Content, Nudge
  <1>3. Places'
    BY DEF IInv, Flags, Ranges, Places, Content, Nudge
  <1>4. Alone'
    BY DEF IInv, Flags, Ranges, Alone, Nudge
  <1>5. Progress'
    BY DEF IInv, Flags, Ranges, Places, Alone, Progress, CleanRunAgrees,
       Content, Nudge
  <1>6. CleanRunAgrees'
    BY DEF IInv, Flags, Ranges, Places, Progress, CleanRunAgrees, Nudge
  <1>7. RenameIsAnnounced'
    BY DEF IInv, Flags, Ranges, Places, Progress, CleanRunAgrees,
       RenameIsAnnounced, Nudge
  <1> QED
    BY <1>1, <1>2, <1>3, <1>4, <1>5, <1>6, <1>7 DEF IInv

(* Kill preserves the invariant. *)
LEMMA KillStep ==
  ASSUME IInv, NEW p \in Procs, Kill(p)
  PROVE  IInv'
  <1>1. Flags'
    BY Zenon DEF IInv, Flags, Kill, Over
  <1>2. Ranges'
    BY DefaultAssumption DEF IInv, Ranges, Places, Content, Kill, Over
  <1>3. Places'
    BY DEF IInv, Flags, Ranges, Places, Content, Kill, Over
  <1>4. Alone'
    BY DEF IInv, Flags, Ranges, Alone, Kill, Over
  <1>5. Progress'
    BY DEF IInv, Flags, Ranges, Places, Alone, Progress, CleanRunAgrees,
       Content, Kill, Over
  <1>6. CleanRunAgrees'
    BY DEF IInv, Flags, Ranges, Places, Progress, CleanRunAgrees, Kill, Over
  <1>7. RenameIsAnnounced'
    BY DEF IInv, Flags, Ranges, Places, Progress, CleanRunAgrees,
       RenameIsAnnounced, Kill, Over
  <1> QED
    BY <1>1, <1>2, <1>3, <1>4, <1>5, <1>6, <1>7 DEF IInv

(* MdnsRestart preserves the invariant. *)
LEMMA MdnsRestartStep ==
  ASSUME IInv, MdnsRestart
  PROVE  IInv'
  <1>1. Flags'
    BY Zenon DEF IInv, Flags, MdnsRestart
  <1>2. Ranges'
    BY DefaultAssumption DEF IInv, Ranges, Places, Content, MdnsRestart
  <1>3. Places'
    BY DEF IInv, Flags, Ranges, Places, Content, MdnsRestart
  <1>4. Alone'
    BY DEF IInv, Flags, Ranges, Alone, MdnsRestart
  <1>5. Progress'
    BY DEF IInv, Flags, Ranges, Places, Alone, Progress, CleanRunAgrees,
       Content, MdnsRestart
  <1>6. CleanRunAgrees'
    BY DEF IInv, Flags, Ranges, Places, Progress, CleanRunAgrees, MdnsRestart
  <1>7. RenameIsAnnounced'
    BY DEF IInv, Flags, Ranges, Places, Progress, CleanRunAgrees,
       RenameIsAnnounced, MdnsRestart
  <1> QED
    BY <1>1, <1>2, <1>3, <1>4, <1>5, <1>6, <1>7 DEF IInv

(* Reboot preserves the invariant. *)
LEMMA RebootStep ==
  ASSUME IInv, Reboot
  PROVE  IInv'
  <1>1. Flags'
    BY Zenon DEF IInv, Flags, Reboot, Over, Disturb
  <1>2. Ranges'
    BY DefaultAssumption DEF IInv, Ranges, Places, Content, Reboot, Over,
       Disturb
  <1>3. Places'
    BY DEF IInv, Flags, Ranges, Places, Content, Reboot, Over, Disturb
  <1>4. Alone'
    BY DEF IInv, Flags, Ranges, Alone, Reboot, Over, Disturb
  <1>5. Progress'
    BY DEF IInv, Flags, Ranges, Places, Alone, Progress, CleanRunAgrees,
       Content, Reboot, Over, Disturb
  <1>6. CleanRunAgrees'
    BY DEF IInv, Flags, Ranges, Places, Progress, CleanRunAgrees, Reboot,
       Over, Disturb
  <1>7. RenameIsAnnounced'
    BY DEF IInv, Flags, Ranges, Places, Progress, CleanRunAgrees,
       RenameIsAnnounced, Reboot, Over, Disturb
  <1> QED
    BY <1>1, <1>2, <1>3, <1>4, <1>5, <1>6, <1>7 DEF IInv

(* Edit preserves the invariant. *)
LEMMA EditStep ==
  ASSUME IInv, Edit
  PROVE  IInv'
  <1>1. Flags'
    BY Zenon DEF IInv, Flags, Edit, Disturb
  <1>2. Ranges'
    BY EffectiveType, DefaultAssumption DEF IInv, Ranges, Places, Content,
       Edit, Disturb
  <1>3. Places'
    BY EffectiveType DEF IInv, Flags, Ranges, Places, Content, Edit, Disturb
  <1>4. Alone'
    BY DEF IInv, Flags, Ranges, Alone, Edit, Disturb
  <1>5. Progress'
    BY EffectiveType DEF IInv, Flags, Ranges, Places, Alone, Progress,
       CleanRunAgrees, Content, Edit, Disturb
  <1>6. CleanRunAgrees'
    BY DEF IInv, Flags, Ranges, Places, Progress, CleanRunAgrees, Edit, Disturb
  <1>7. RenameIsAnnounced'
    BY DEF IInv, Flags, Ranges, Places, Progress, CleanRunAgrees,
       RenameIsAnnounced, Edit, Disturb
  <1> QED
    BY <1>1, <1>2, <1>3, <1>4, <1>5, <1>6, <1>7 DEF IInv

-----------------------------------------------------------------------------
(* Every step, and every stuttering step, preserves it. *)
LEMMA NextInv == IInv /\ [Next]_vars => IInv'
  <1> SUFFICES ASSUME IInv, [Next]_vars PROVE IInv'
    OBVIOUS
  <1>1. CASE UNCHANGED vars
    BY <1>1 DEF IInv, Flags, Ranges, Places, Alone, Progress, Content,
                CleanRunAgrees, RenameIsAnnounced
  <1>2. ASSUME NEW p \in Procs, Step(p) PROVE IInv'
    BY <1>2, OpenTmpStep, FillTmpStep, RenameStep, IoFailsStep, ReadConfStep,
       LoadStep, WriteHostnameStep, WriteHostsStep, SetRuntimeStep, NudgeStep
       DEF Step
  <1>3. ASSUME NEW p \in Procs, NEW c \in Commands, Start(p, c) PROVE IInv'
    BY <1>3, StartStep
  <1>4. ASSUME NEW p \in Procs, Kill(p) PROVE IInv'
    BY <1>4, KillStep
  <1>5. CASE MdnsRestart \/ Reboot \/ Edit
    BY <1>5, MdnsRestartStep, RebootStep, EditStep
  <1> QED
    BY <1>1, <1>2, <1>3, <1>4, <1>5 DEF Next

(* The invariant holds in every reachable state, whatever fails, is killed *)
(* or edited, and however the processes interleave.                        *)
THEOREM Invariance == Spec => []IInv
  BY InitInv, NextInv, PTL DEF Spec

(* Every variable keeps to its type (the files of id.rs, the control state *)
(* of set_robot_id and apply).                                             *)
THEOREM TypeCorrect == Spec => []TypeOK
  <1>1. IInv => TypeOK
    BY DEF IInv, Flags, Ranges, TypeOK
  <1> QED
    BY <1>1, Invariance, PTL

(* Nobody ever reads a half-written file (write_atomically).               *)
THEOREM NeverTorn == Spec => []NoTornFile
  <1>1. IInv => NoTornFile
    BY DistinctAssumption, TornAssumption DEF IInv, Ranges, NoTornFile
  <1> QED
    BY <1>1, Invariance, PTL

(* A command that nobody disturbed leaves every artifact agreeing with     *)
(* robot.conf, whatever an earlier failure left behind (apply).            *)
THEOREM CleanRunsAgree == Spec => []CleanRunAgrees
  <1>1. IInv => CleanRunAgrees
    BY DEF IInv
  <1> QED
    BY <1>1, Invariance, PTL

(* A command that rewrote the hostname file has the responder follow it    *)
(* (apply, try_restart_async).                                             *)
THEOREM RenamesAreAnnounced == Spec => []RenameIsAnnounced
  <1>1. IInv => RenameIsAnnounced
    BY DEF IInv
  <1> QED
    BY <1>1, Invariance, PTL

(* An undisturbed set keeps the assignment it was not asked to change      *)
(* (set_key, upsert_key).                                                  *)
THEOREM OtherKeyKept == Spec => KeepsOtherKey
  <1> DEFINE Keeps(p) == IF cmd[p].op = "set_id" THEN conf'.dom = conf.dom
                                                 ELSE conf'.id = conf.id
  <1>1. ASSUME IInv, NEW p \in Procs, clean[p], Rename(p), target[p] = "conf",
               conf # NoFile
        PROVE  Keeps(p)
    <2>1. /\ cmd[p] \in Commands /\ cmd[p].op # "apply"
          /\ existing[p] = conf /\ conf \in Assignments
          /\ conf' = Upsert(conf, cmd[p])
      BY <1>1 DEF IInv, Ranges, Places, Progress, Content, Rename
    <2> QED
      BY <1>1, <2>1, UpsertKeeps
  <1>2. IInv /\ [Next]_vars =>
          [\A p \in Procs : clean[p] /\ Rename(p) /\ target[p] = "conf" /\ conf # NoFile =>
             IF cmd[p].op = "set_id" THEN conf'.dom = conf.dom
                                     ELSE conf'.id = conf.id]_vars
    BY <1>1
  <1> QED
    BY <1>2, Invariance, PTL DEF Spec, KeepsOtherKey

-----------------------------------------------------------------------------
(* Who writes what, whatever interferes. *)

(* robot.conf changes when somebody edits it, or when a set renames what   *)
(* it read with its own assignment in it: never by an apply, a kill, a     *)
(* failed write or a reboot.  (set_key is the only writer of the file.)    *)
ConfIsOnlySet ==
  [][conf' # conf =>
       \/ Edit
       \/ \E p \in Procs : /\ Rename(p) /\ cmd[p].op # "apply"
                           /\ conf' = Upsert(existing[p], cmd[p])]_vars

THEOREM OnlySetsWriteConf == Spec => ConfIsOnlySet
  <1>1. ASSUME IInv, Next, conf' # conf, ~Edit
        PROVE  \E p \in Procs : /\ Rename(p) /\ cmd[p].op # "apply"
                                /\ conf' = Upsert(existing[p], cmd[p])
    <2>1. PICK p \in Procs : Rename(p) /\ target[p] = "conf" /\ conf' = tmp[p]
      BY <1>1 DEF Next, Step, OpenTmp, FillTmp, Rename, IoFails, ReadConf, Load,
         WriteHostname, WriteHosts, SetRuntime, Nudge, Kill, Start, MdnsRestart, Reboot
    <2>2. cmd[p].op # "apply" /\ tmp[p] = Upsert(existing[p], cmd[p])
      BY <1>1, <2>1 DEF IInv, Places, Content, Rename
    <2> QED
      BY <2>1, <2>2
  <1> QED
    BY <1>1, Invariance, PTL DEF Spec, ConfIsOnlySet

(* A derived file changes when a command that derives renames the ID it    *)
(* loaded into place, or when a reboot brings another rootfs.              *)
DerivedOnlyDerived ==
  [][\A f \in Derived : file'[f] # file[f] =>
       \/ Reboot
       \/ \E p \in Procs : Rename(p) /\ Derives(p) /\ file'[f] = loaded[p]]_vars

THEOREM OnlyDerivingWritesFiles == Spec => DerivedOnlyDerived
  <1>1. ASSUME IInv, Next, NEW f \in Derived, file'[f] # file[f], ~Reboot
        PROVE  \E p \in Procs : Rename(p) /\ Derives(p) /\ file'[f] = loaded[p]
    <2>1. PICK p \in Procs : /\ Rename(p) /\ target[p] # "conf"
                             /\ file' = [file EXCEPT ![target[p]] = tmp[p]]
      BY <1>1 DEF Next, Step, OpenTmp, FillTmp, Rename, IoFails, ReadConf, Load,
         WriteHostname, WriteHosts, SetRuntime, Nudge, Kill, Start, MdnsRestart, Edit
    <2>2. tmp[p] = loaded[p] /\ Derives(p)
      BY <1>1, <2>1 DEF IInv, Places, Content, Rename
    <2>3. f = target[p]
      BY <1>1, <2>1 DEF IInv, Ranges
    <2> QED
      BY <1>1, <2>1, <2>2, <2>3 DEF IInv, Ranges
  <1>2. IInv /\ [Next]_vars =>
          [\A f \in Derived : file'[f] # file[f] =>
             \/ Reboot
             \/ \E p \in Procs : Rename(p) /\ Derives(p) /\ file'[f] = loaded[p]]_vars
    BY <1>1
  <1> QED
    BY <1>2, Invariance, PTL DEF Spec, DerivedOnlyDerived

-----------------------------------------------------------------------------
(* Steady state: "files are compared before being written, so the          *)
(* steady-state boot costs zero writes to the rootfs" (id.rs:208).         *)

(* A clean run writes a derived file only when it says something else.     *)
NeededWrites ==
  \A p \in Procs : clean[p] /\ Writing(p) /\ target[p] # "conf" =>
    file[target[p]] # loaded[p]

LEMMA NeededWritesStep == IInv /\ NeededWrites /\ [Next]_vars => NeededWrites'
  <1> SUFFICES ASSUME IInv, NeededWrites, [Next]_vars,
                      NEW p \in Procs, clean'[p], Writing(p)', target'[p] # "conf"
               PROVE  file'[target'[p]] # loaded'[p]
    BY DEF NeededWrites
  <1>1. CASE UNCHANGED vars
    BY <1>1 DEF NeededWrites
  <1>2. ASSUME NEW q \in Procs, OpenTmp(q) \/ FillTmp(q) \/ ReadConf(q)
        PROVE  file'[target'[p]] # loaded'[p]
    BY <1>2 DEF IInv, Ranges, Places, NeededWrites, OpenTmp, FillTmp, ReadConf
  <1>3. ASSUME NEW q \in Procs, Rename(q)
        PROVE  file'[target'[p]] # loaded'[p]
    BY <1>3 DEF IInv, Ranges, Places, Alone, NeededWrites, Rename
  <1>4. ASSUME NEW q \in Procs, Load(q) \/ Nudge(q) \/ SetRuntime(q)
        PROVE  file'[target'[p]] # loaded'[p]
    BY <1>4 DEF IInv, Flags, Ranges, Places, NeededWrites, Load, Nudge, SetRuntime
  <1>5. ASSUME NEW q \in Procs, WriteHostname(q) \/ WriteHosts(q)
        PROVE  file'[target'[p]] # loaded'[p]
    BY <1>5 DEF IInv, Ranges, Places, NeededWrites, WriteHostname, WriteHosts, Compare
  <1>6. ASSUME NEW q \in Procs, IoFails(q) \/ Kill(q)
        PROVE  file'[target'[p]] # loaded'[p]
    BY <1>6 DEF IInv, Ranges, Places, NeededWrites, IoFails, Kill, Over
  <1>7. ASSUME NEW q \in Procs, NEW c \in Commands, Start(q, c)
        PROVE  file'[target'[p]] # loaded'[p]
    BY <1>7 DEF IInv, Flags, Ranges, Places, NeededWrites, Start
  <1>8. CASE MdnsRestart \/ Reboot \/ Edit
    BY <1>8 DEF IInv, Flags, Ranges, Places, NeededWrites, MdnsRestart, Reboot, Edit, Disturb
  <1> QED
    BY <1>1, <1>2, <1>3, <1>4, <1>5, <1>6, <1>7, <1>8 DEF Next, Step

THEOREM WritesAreNeeded == Spec => []NeededWrites
  <1>1. Init => NeededWrites
    BY DEF Init, NeededWrites
  <1> QED
    BY <1>1, NeededWritesStep, Invariance, PTL DEF Spec

(* Every artifact says what robot.conf says, and so does whoever is still  *)
(* deriving.                                                               *)
Fresh   == \A p \in Procs : Deriving(p) /\ pc[p] # "load" => loaded[p] = Effective(conf)
Settled == /\ Fresh
           /\ file = [f \in Derived |-> Effective(conf)] /\ running = Effective(conf)

(* However many commands then run at once, fail or are killed, nothing but *)
(* another robot.conf or a reboot undoes it, and no apply begins a write.  *)
SettledStays ==
  [][Settled =>
       /\ UNCHANGED conf /\ ~Reboot => Settled'
       /\ \A p \in Procs : WriteHostname(p) \/ WriteHosts(p) => ~Writing(p)']_vars

LEMMA FreshStep ==
  ASSUME IInv, Fresh, [Next]_vars, UNCHANGED conf
  PROVE  Fresh'
  <1> SUFFICES ASSUME NEW p \in Procs, Deriving(p)', pc'[p] # "load"
               PROVE  loaded'[p] = Effective(conf)
    BY DEF Fresh, Effective
  <1>1. CASE UNCHANGED vars
    BY <1>1 DEF Fresh
  <1>2. ASSUME NEW q \in Procs, OpenTmp(q) \/ FillTmp(q) \/ ReadConf(q) \/ Rename(q)
        PROVE  loaded'[p] = Effective(conf)
    BY <1>2 DEF IInv, Ranges, Places, Fresh, OpenTmp, FillTmp, ReadConf, Rename, AfterWrite
  <1>3. ASSUME NEW q \in Procs, Load(q) \/ Nudge(q) \/ SetRuntime(q)
        PROVE  loaded'[p] = Effective(conf)
    BY <1>3 DEF IInv, Flags, Ranges, Places, Fresh, Load, Nudge, SetRuntime
  <1>4. ASSUME NEW q \in Procs, WriteHostname(q) \/ WriteHosts(q)
        PROVE  loaded'[p] = Effective(conf)
    BY <1>4 DEF IInv, Ranges, Places, Fresh, WriteHostname, WriteHosts, Compare
  <1>5. ASSUME NEW q \in Procs, IoFails(q) \/ Kill(q)
        PROVE  loaded'[p] = Effective(conf)
    BY <1>5 DEF IInv, Ranges, Places, Fresh, IoFails, Kill, Over
  <1>6. ASSUME NEW q \in Procs, NEW c \in Commands, Start(q, c)
        PROVE  loaded'[p] = Effective(conf)
    BY <1>6 DEF IInv, Flags, Ranges, Places, Fresh, Start
  <1>7. CASE MdnsRestart \/ Edit
    BY <1>7 DEF IInv, Ranges, Fresh, MdnsRestart, Edit
  <1>8. CASE Reboot
    BY <1>8 DEF IInv, Ranges, Places, Fresh, Reboot, Over
  <1> QED
    BY <1>1, <1>2, <1>3, <1>4, <1>5, <1>6, <1>7, <1>8 DEF Next, Step

LEMMA SettledStep ==
  ASSUME IInv, Settled, [Next]_vars, UNCHANGED conf, ~Reboot
  PROVE  Settled'
  <1>1. Fresh'
    BY FreshStep DEF Settled
  <1>2. file' = file
    <2>1. ASSUME NEW p \in Procs, Rename(p)
          PROVE  file' = file
      <3>1. CASE target[p] = "conf"
        BY <2>1, <3>1 DEF Rename
      <3>2. CASE target[p] # "conf"
        <4>1. tmp[p] = loaded[p] /\ loaded[p] = Effective(conf)
          BY <2>1, <3>2 DEF IInv, Places, Content, Rename, Settled, Fresh
        <4>2. file' = [file EXCEPT ![target[p]] = Effective(conf)] /\ target[p] \in Derived
          BY <2>1, <3>2, <4>1 DEF Rename, IInv, Ranges
        <4> QED
          BY <4>2 DEF Settled
      <3> QED
        BY <3>1, <3>2
    <2> QED
      BY <2>1 DEF Next, Step, OpenTmp, FillTmp, IoFails, ReadConf, Load, WriteHostname,
         WriteHosts, SetRuntime, Nudge, Kill, Start, MdnsRestart, Edit
  <1>3. running' = running
    <2>1. ASSUME NEW p \in Procs, SetRuntime(p)
          PROVE  running' = running
      BY <2>1 DEF SetRuntime, Settled, Fresh
    <2> QED
      BY <2>1 DEF Next, Step, OpenTmp, FillTmp, Rename, IoFails, ReadConf, Load,
         WriteHostname, WriteHosts, Nudge, Kill, Start, MdnsRestart, Edit
  <1> QED
    BY <1>1, <1>2, <1>3 DEF Settled, Effective

THEOREM SteadyState == Spec => SettledStays
  <1>1. ASSUME IInv, Settled, NEW p \in Procs, WriteHostname(p) \/ WriteHosts(p)
        PROVE  ~Writing(p)'
    <2>1. /\ loaded[p] = Effective(conf)
          /\ file["hostname"] = loaded[p] /\ file["hosts"] = loaded[p]
      BY <1>1 DEF Settled, Fresh, WriteHostname, WriteHosts
    <2> QED
      BY <1>1, <2>1 DEF IInv, Ranges, WriteHostname, WriteHosts, Compare
  <1>2. IInv /\ [Next]_vars =>
          [Settled =>
             /\ UNCHANGED conf /\ ~Reboot => Settled'
             /\ \A p \in Procs : WriteHostname(p) \/ WriteHosts(p) => ~Writing(p)']_vars
    BY <1>1, SettledStep
  <1> QED
    BY <1>2, Invariance, PTL DEF Spec, SettledStays

=============================================================================
