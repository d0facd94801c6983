----------------------------- MODULE MCSettings -----------------------------
(***************************************************************************)
(* One setting of each kind, up to two assignments in a profile, and every *)
(* value for every setting: a start gives one value to all, as none of     *)
(* them looks at another.  The longest ID and the numbers of a u32 are     *)
(* scaled down.                                                            *)
(***************************************************************************)
EXTENDS Settings, TLC

MCKind ==
  "DATA_DIR" :> "path" @@ "WIFI_INTERFACE" :> "string" @@ "MDNS_UNIT" :> "optional" @@
  "DEFAULT_ROBOT_ID" :> "id" @@ "DEFAULT_ROS_DOMAIN_ID" :> "domain" @@
  "WIFI_RETRY_SEC" :> "u32" @@ "WIFI_LINK_POLL_SEC" :> "positive"

Of(word)   == [out |-> FALSE, quoted |-> FALSE, in |-> FALSE, word |-> word, num |-> NaN]
Spaced(t)  == [t EXCEPT !.out = TRUE]
Quoted(t)  == [t EXCEPT !.quoted = TRUE]
Padded(t)  == [t EXCEPT !.quoted = TRUE, !.in = TRUE]

MCBuiltIn ==
  [k \in DOMAIN MCKind |-> IF MCKind[k] \in NumberKinds THEN Number(5) ELSE Of(<<"lower", "lower">>)]

MCValues ==
  {Of(<<>>), Spaced(Of(<<>>)), Padded(Of(<<>>)),
   Of(<<"lower">>), Spaced(Quoted(Of(<<"lower">>))), Quoted(Of(<<"lower", "upper">>)),
   Of(<<"lower", "hyphen">>), Of(<<"hyphen", "digit">>),
   Of(<<"lower", "hyphen", "digit", "lower">>),
   Number(0), Padded(Number(0)), Spaced(Quoted(Number(7))), Spaced(Number(233)),
   Number(70000), Number(100000)}

MCEnvironments == {[k \in DOMAIN MCKind |-> v] : v \in MCValues \cup {Unset}}

MCNames ==
  {Spaced(Of(<<>>)), Spaced(Of(<<"lower">>)), Of(<<"lower", "slash">>), Of(<<"dot">>)}
=============================================================================
