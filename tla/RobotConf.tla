----------------------------- MODULE RobotConf -----------------------------
(***************************************************************************)
(* robot.conf as the identity commands see it: the two assignments, each   *)
(* with a value that validates or without one, and what an edit makes of   *)
(* them.  RobotIdentity keeps the file like this; that the text of the     *)
(* file can be, whatever else is in it, is proved in ConfText_proof.       *)
(***************************************************************************)

CONSTANTS
  Ids,        \* valid robot IDs
  Doms,       \* valid ROS domain IDs
  DefaultId,  \* paths.default_robot_id()
  Unset,      \* no assignment in robot.conf, or one that does not validate
  NoFile      \* the file does not exist

Assignments == [id : Ids \cup {Unset}, dom : Doms \cup {Unset}]

ASSUME DefaultAssumption == DefaultId \in Ids
ASSUME DistinctAssumption ==
  /\ Unset \notin Ids \cup Doms
  /\ NoFile \notin Ids \cup Assignments

Commands == [op : {"set_id"}, arg : Ids] \cup [op : {"set_dom"}, arg : Doms]
              \cup {[op |-> "apply"]}

(* load(): what robot.conf says, or the default for what it does not. *)
Effective(c) == IF c = NoFile THEN DefaultId
                ELSE IF c.id = Unset THEN DefaultId ELSE c.id

\* Bug: the file is written afresh from the one value.
Upsert_DropsOtherKey(c, k) ==
  LET old == [id |-> Unset, dom |-> Unset]
  IN  IF k.op = "set_id" THEN [old EXCEPT !.id = k.arg]
                         ELSE [old EXCEPT !.dom = k.arg]

(* set_key(): one assignment replaced or added, the other one kept as the  *)
(* process read it.                                                        *)
Upsert(c, k) ==
  LET old == IF c = NoFile THEN [id |-> Unset, dom |-> Unset] ELSE c
  IN  IF k.op = "set_id" THEN [old EXCEPT !.id = k.arg]
                         ELSE [old EXCEPT !.dom = k.arg]
=============================================================================
