------------------------------ MODULE ApStatus ------------------------------
(***************************************************************************)
(* `robotctl status` and `robotctl wifi status` beside the access point:   *)
(* iw tells them that it is one, and what it is called and how it is       *)
(* secured they work out again from the files, while those are edited.     *)
(* `status` loads the files for each of the two, `wifi status` once.  Only *)
(* reports that end before the access point goes down are followed.        *)
(***************************************************************************)
EXTENDS ApConfig

VARIABLES
  look,   \* what is worked out next: fields of the report; {} when there is none
  todo,   \* what is worked out after that
  read,   \* the ID that was read for it
  shown   \* the report

reader == <<look, todo, read, shown>>

Fields == {"security", "ssid"}
Empty == [f \in Fields |-> None]

(* interface_mode() has found an access point. *)
Begin ==
  /\ pc = "up" /\ look = {}
  /\ look' \in {{"security"}, Fields} /\ todo' = Fields \ look'
  /\ read' = None /\ shown' = Empty
  /\ UNCHANGED vars

(* id::load(), which fails when robot.conf cannot be read: `status` leaves *)
(* the field out, and `wifi status` ends.                                  *)
ReportId ==
  /\ look # {} /\ read = None
  /\ \/ read' = robot /\ UNCHANGED <<look, todo>>
     \/ look' = todo /\ todo' = {} /\ UNCHANGED read
  /\ UNCHANGED shown /\ UNCHANGED vars

ApSecurity(psk) == IF psk = Unset THEN "Open" ELSE "Wpa2"

\* Bug: the name is made from the ID, whatever is written.
Summary_Derived(f, c, i) ==
  IF Load(c, i) = None THEN None
  ELSE IF f = "ssid" THEN Derived(c, i) ELSE ApSecurity(Load(c, i).psk)

(* What is shown of the configuration; nothing when it is refused. *)
Summary(f, c, i) ==
  IF Load(c, i) = None THEN None
  ELSE IF f = "ssid" THEN Load(c, i).ssid ELSE ApSecurity(Load(c, i).psk)

(* load_ap_config(), which may also fail to read the file. *)
ReportConf ==
  /\ look # {} /\ read # None
  /\ \/ shown' = [f \in Fields |-> IF f \in look THEN Summary(f, conf, read) ELSE shown[f]]
     \/ UNCHANGED shown
  /\ look' = todo /\ todo' = {} /\ read' = None
  /\ UNCHANGED vars

AccessPoint ==
  /\ Next
  /\ IF pc' = "up" THEN UNCHANGED reader
     ELSE look' = {} /\ todo' = {} /\ read' = None /\ shown' = Empty

StatusNext == AccessPoint \/ Begin \/ ReportId \/ ReportConf

StatusInit == Init /\ look = {} /\ todo = {} /\ read = None /\ shown = Empty

StatusSpec == StatusInit /\ [][StatusNext]_<<vars, reader>>

-----------------------------------------------------------------------------
(* What is reported of an access point is what is on the air, although     *)
(* nobody asks the air: if nothing was edited since it was raised, the     *)
(* name and the security worked out from the files are hostapd's.          *)
StatusAgrees ==
  pc = "up" /\ names = {robot} /\ writings = {conf} =>
    /\ shown["ssid"] \in {None, hostapd.ssid}
    /\ shown["security"] \in {None, ApSecurity(hostapd.psk)}

=============================================================================
