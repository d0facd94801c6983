----------------------------- MODULE ConfText -----------------------------
(***************************************************************************)
(* The text of the two files `robotctl id` edits in place: robot.conf, in  *)
(* shell-style KEY=value lines, and the hosts file.  Both are edited by    *)
(* hand as well, so what is there need not be what the program would have  *)
(* written: a key may be assigned twice, or indented, or not at all.       *)
(*                                                                         *)
(* A line of robot.conf is abstracted to the key it assigns, to whether    *)
(* that assignment starts in the first column, and to the value that is    *)
(* left of it once trimmed and unquoted.  A line of the hosts file is the  *)
(* address it is for, whether it begins with that address followed by      *)
(* whitespace, and the name.                                               *)
(*                                                                         *)
(* One command runs at a time here; how commands interleave and fail is    *)
(* RobotIdentity's subject.  It sees robot.conf through RobotConf, which   *)
(* says that an edit changes one assignment and keeps the other, and which *)
(* ConfText_proof shows this text to implement.                            *)
(***************************************************************************)
EXTENDS Naturals, Sequences

CONSTANTS
  IdKey, DomKey,  \* ROBOT_ID and ROS_DOMAIN_ID
  Ids, Doms,      \* what validates as the one and as the other
  DefaultId,      \* paths.default_robot_id()
  Junk,           \* any other value
  Other,          \* what a comment, or a line for anything else, is for
  Loopback,       \* 127.0.1.1
  Localhost,      \* 127.0.0.1
  NoFile,         \* the file does not exist
  Missing,        \* parse_value's None
  MaxLines        \* how many lines the two files have to start with

Line == [key : {IdKey}, flush : BOOLEAN, val : Ids \cup {Junk}]
          \cup [key : {DomKey}, flush : BOOLEAN, val : Doms \cup {Junk}]
          \cup [key : {Other}, flush : {TRUE}, val : {Junk}]

HostLine == [key : {Loopback}, flush : BOOLEAN, val : Ids \cup {Junk}]
              \cup [key : {Localhost, Other}, flush : {TRUE}, val : {Junk}]

ASSUME KeysAssumption == IdKey # DomKey /\ Other \notin {IdKey, DomKey}
ASSUME HostsAssumption == Loopback # Localhost /\ Other # Loopback
ASSUME DefaultAssumption == DefaultId \in Ids
ASSUME MissingAssumption == Missing \notin Ids \cup Doms
ASSUME MaxLinesAssumption == MaxLines \in Nat
\* The absence of a file is not mistaken for a content.
ASSUME NoFileAssumption == NoFile \notin Seq(Line) \cup Seq(HostLine)

VARIABLES conf, hosts
vars == <<conf, hosts>>

-----------------------------------------------------------------------------
(* parse_value(): the last assignment of k, indented or not. *)
Assigning(text, k) == {i \in DOMAIN text : text[i].key = k}

ParseValue(text, k) ==
  IF text = NoFile \/ Assigning(text, k) = {} THEN Missing
  ELSE text[CHOOSE i \in Assigning(text, k) :
              \A j \in Assigning(text, k) : j <= i].val

\* Bug: what is not there is not defaulted.
Effective_NoDefault(text) == ParseValue(text, IdKey)

(* load(): the default for what is missing and what does not validate. *)
Effective(text) == LET raw == ParseValue(text, IdKey)
                   IN  IF raw \in Ids THEN raw ELSE DefaultId

(* What both editors do: `new` takes the place of every line that begins   *)
(* with what it begins with, and goes to the end when there is none.       *)
Begins(line, k)  == line.key = k /\ line.flush
HasLine(text, k) == \E i \in DOMAIN text : Begins(text[i], k)

Replace(text, new) ==
  IF HasLine(text, new.key)
  THEN [i \in DOMAIN text |->
          IF Begins(text[i], new.key) THEN new ELSE text[i]]
  ELSE Append(text, new)

Entry(k, v) == [key |-> k, flush |-> TRUE, val |-> v]

\* Bug: only the first of several assignments is replaced.
UpsertKey_FirstOnly(existing, k, v) ==
  IF existing = NoFile THEN <<Entry(k, v)>>
  ELSE LET hits == {i \in DOMAIN existing : Begins(existing[i], k)}
       IN  IF hits = {} THEN Append(existing, Entry(k, v))
           ELSE [i \in DOMAIN existing |->
                   IF i \in hits /\ \A j \in hits : i <= j
                   THEN Entry(k, v) ELSE existing[i]]

(* upsert_key(): a missing file becomes the assignment alone. *)
UpsertKey(existing, k, v) ==
  IF existing = NoFile THEN <<Entry(k, v)>> ELSE Replace(existing, Entry(k, v))

\* Bug: old entries are left in place and a new one is added each time.
RenderHosts_Appends(existing, id) ==
  IF existing = NoFile
  THEN <<Entry(Localhost, Junk), Entry(Loopback, id)>>
  ELSE Append(existing, Entry(Loopback, id))

\* Bug: what follows the address is not looked at (127.0.1.10, say).
RenderHosts_Prefix(existing, id) ==
  IF existing = NoFile
  THEN <<Entry(Localhost, Junk), Entry(Loopback, id)>>
  ELSE IF \E i \in DOMAIN existing : existing[i].key = Loopback
       THEN [i \in DOMAIN existing |->
               IF existing[i].key = Loopback THEN Entry(Loopback, id)
                                             ELSE existing[i]]
       ELSE Append(existing, Entry(Loopback, id))

(* render_hosts_file(): a missing file is given a localhost line as well. *)
RenderHosts(existing, id) ==
  IF existing = NoFile
  THEN <<Entry(Localhost, Junk), Entry(Loopback, id)>>
  ELSE Replace(existing, Entry(Loopback, id))

-----------------------------------------------------------------------------
Texts(S, n) == {NoFile} \cup UNION {[1..m -> S] : m \in 0..n}

(* Whatever an image, an update, an operator or this program left. *)
Init == \E n \in 0..MaxLines :
          /\ conf \in Texts(Line, n)
          /\ hosts \in Texts(HostLine, MaxLines - n)

(* id set robot-id: set_key(), then apply() of what load() reads back. *)
SetRobotId(v) ==
  /\ conf' = UpsertKey(conf, IdKey, v)
  /\ hosts' = RenderHosts(hosts, Effective(conf'))

(* id set ros-domain-id: nothing is derived from it. *)
SetRosDomainId(d) ==
  /\ conf' = UpsertKey(conf, DomKey, d)
  /\ UNCHANGED hosts

(* id apply, at every boot. *)
Apply ==
  /\ hosts' = RenderHosts(hosts, Effective(conf))
  /\ UNCHANGED conf

Next == \/ \E v \in Ids : SetRobotId(v)
        \/ \E d \in Doms : SetRosDomainId(d)
        \/ Apply

Spec == Init /\ [][Next]_vars

-----------------------------------------------------------------------------
IsText(text, S) == text = NoFile \/ text \in Seq(S)

(* Both files stay sequences of lines. *)
TypeOK == IsText(conf, Line) /\ IsText(hosts, HostLine)

(* An assignment that the editor does not recognise and the reader does    *)
(* comes after the last one that the editor would replace.                 *)
Shadowed(text, k) ==
  /\ text # NoFile
  /\ \E i \in DOMAIN text :
       /\ text[i].key = k /\ ~text[i].flush
       /\ \A j \in DOMAIN text : Begins(text[j], k) => j < i
  /\ HasLine(text, k)

(* What is set is what is read from then on, however often the key was     *)
(* assigned before, unless an indented assignment shadows it (upsert_key   *)
(* against parse_value).                                                   *)
SetTakesHold ==
  [][/\ \A v \in Ids :
          SetRobotId(v) /\ ~Shadowed(conf, IdKey) => Effective(conf') = v
     /\ \A d \in Doms :
          SetRosDomainId(d) /\ ~Shadowed(conf, DomKey) =>
            ParseValue(conf', DomKey) = d]_vars

(* An edit of `old` for k keeps every line but those that begin with k,    *)
(* and adds at most one, the first time.                                   *)
Keeps(old, new, k) ==
  old # NoFile =>
    /\ \A i \in DOMAIN old : ~Begins(old[i], k) => new[i] = old[i]
    /\ Len(new) = Len(old) + IF HasLine(old, k) THEN 0 ELSE 1

(* Comments, other keys and other addresses survive every edit where they  *)
(* are, and the files do not grow from one boot to the next (set_key:      *)
(* "preserving every other line", render_hosts_file: "Rewrites the         *)
(* `127.0.1.1` line and nothing else").                                    *)
KeepsEveryOtherLine ==
  [][/\ conf' # conf =>
          Keeps(conf, conf', IdKey) \/ Keeps(conf, conf', DomKey)
     /\ hosts' # hosts => Keeps(hosts, hosts', Loopback)]_vars

(* After `id set robot-id` or `id apply`, every 127.0.1.1 entry of the     *)
(* hosts file is for the robot's name, and there is one; running apply     *)
(* again would write what is there already, so that write_if_changed()     *)
(* does not write (apply: "the steady-state boot costs zero writes").      *)
Settles ==
  [][(Apply \/ \E v \in Ids : SetRobotId(v)) =>
       /\ HasLine(hosts', Loopback)
       /\ \A i \in DOMAIN hosts' :
            Begins(hosts'[i], Loopback) => hosts'[i].val = Effective(conf')
       /\ RenderHosts(hosts', Effective(conf')) = hosts']_vars

-----------------------------------------------------------------------------
(* "Set an identity value and re-derive everything downstream of it"       *)
(* (main.rs:76), "Replaces every `KEY=` line" (conf.rs:31): once the       *)
(* command has set an ID, the ID is that.                                  *)
SetTakesEffect ==
  [][\A v \in Ids : SetRobotId(v) => Effective(conf') = v]_vars
=============================================================================
