------------------------------ MODULE ApConfig ------------------------------
(***************************************************************************)
(* The fallback access point's configuration, from what is written in      *)
(* robot.conf and fallback-ap.conf to what is on the air.  WifiSupervisor  *)
(* says when the access point is raised, and leaves its data out; here one *)
(* raise follows another, between edits of either file at any moment.      *)
(*                                                                         *)
(* A text is a sequence of characters, each one or more bytes wide.  Of    *)
(* the values that are checked alike one stands for all: `address` for the *)
(* four addresses (and, being refused only when malformed, for the lease   *)
(* time and the country), which all have a default.  How a value is found  *)
(* in the file is ConfText's ParseValue.                                   *)
(***************************************************************************)
EXTENDS Naturals, Sequences, SequencesExt

CONSTANTS
  Ids,          \* valid robot IDs, as texts
  Char,         \* characters
  Width,        \* Width[c]: the bytes of c
  Control,      \* control characters
  Address,      \* well-formed addresses
  Malformed,    \* a value that does not parse
  Unset,        \* an assignment that is missing or, but for the suffix, empty
  None,         \* what is refused, or not there yet
  DefaultSuffix,
  DefaultAddress,
  SsidMaxBytes, \* SSID_MAX_BYTES
  PskMinChars,  \* PSK_MIN_CHARS
  PskMaxChars,  \* PSK_MAX_CHARS
  Confs,        \* what an operator may write in fallback-ap.conf
  MaxEdits      \* how often a file is edited

ChannelMax == 14
CidrMax    == 32

U8  == 256    \* how many values a u8 has
U16 == 65536

Text == Seq(Char)
Conf == [ssid : (Text \ {<<>>}) \cup {Unset}, suffix : Text \cup {Unset},
         psk : (Text \ {<<>>}) \cup {Unset}, address : Address \cup {Malformed, Unset},
         cidr : Nat \cup {Malformed, Unset}, channel : Nat \cup {Malformed, Unset}]

ASSUME TextAssumption ==
  /\ Ids \subseteq Text \ {<<>>} /\ DefaultSuffix \in Text
  /\ Width \in [Char -> Nat \ {0}] /\ Control \subseteq Char
ASSUME ValueAssumption ==
  /\ DefaultAddress \in Address /\ Malformed \notin Address
  /\ Unset \notin Text \cup Nat \cup Address \cup {Malformed}
  /\ Malformed \notin Nat
  /\ None \notin Text \cup Nat \cup Address \cup {Malformed, Unset}
  /\ None \notin Conf
ASSUME LimitAssumption ==
  {SsidMaxBytes, PskMinChars, PskMaxChars, MaxEdits} \subseteq Nat
ASSUME ConfsAssumption == Confs \subseteq Conf

VARIABLES
  robot,    \* the ID robot.conf gives
  conf,     \* fallback-ap.conf
  pc,       \* what raising the access point does next
  id,       \* the ID it has read
  config,   \* the configuration it has loaded
  hostapd,  \* hostapd.conf
  dnsmasq,  \* dnsmasq.conf
  address,  \* the interface's
  names,    \* ghost: what robot was since the raise began
  writings, \* ghost: what conf was since the raise began
  edits

vars == <<robot, conf, pc, id, config, hostapd, dnsmasq, address, names,
          writings, edits>>

-----------------------------------------------------------------------------
(* Validation. *)

Bytes(text) == FoldSeq(LAMBDA c, n : n + Width[c], 0, text)
HasControl(text) == \E i \in DOMAIN text : text[i] \in Control

\* Bug: the limit is on characters.
Ssid_CountsChars(text) ==
  IF text # <<>> /\ ~HasControl(text) /\ Len(text) <= SsidMaxBytes THEN text ELSE None

(* Ssid::new(). *)
Ssid(text) ==
  IF text # <<>> /\ ~HasControl(text) /\ Bytes(text) <= SsidMaxBytes THEN text ELSE None

(* The name of an access point that is given none: a suffix that is empty  *)
(* is none, and not the default.                                           *)
Suffix(c) == IF c.suffix = Unset THEN DefaultSuffix ELSE c.suffix

\* Bug: a name that is too long is cut.
Derived_Cuts(c, i) ==
  LET name == i \o Suffix(c)
  IN  Ssid(IF Len(name) > SsidMaxBytes THEN SubSeq(name, 1, SsidMaxBytes) ELSE name)

Derived(c, i) == Ssid(i \o Suffix(c))

Name(c, i) == IF c.ssid = Unset THEN Derived(c, i) ELSE Ssid(c.ssid)

(* Psk::parse_optional(); without a passphrase the network is open. *)
Passphrase(c) ==
  IF c.psk = Unset THEN Unset
  ELSE IF HasControl(c.psk) \/ Len(c.psk) \notin PskMinChars..PskMaxChars THEN None
  ELSE c.psk

Ipv4(v) == IF v = Unset THEN DefaultAddress ELSE IF v = Malformed THEN None ELSE v

\* Bug: the value is narrowed before it is compared.
Number_NarrowsFirst(v, default, max) ==
  IF v = Unset THEN default
  ELSE IF v = Malformed THEN None
  ELSE IF (v % U8) \notin 1..max THEN None ELSE v % U8

(* channel() and cidr(): a u16, its range, and the u8 it is stored in. *)
Number(v, default, max) ==
  IF v = Unset THEN default
  ELSE IF v = Malformed THEN None
  ELSE IF v >= U16 THEN None
  ELSE IF v \notin 1..max THEN None ELSE v % U8

(* load_ap_config(). *)
Load(c, i) ==
  LET loaded == [ssid |-> Name(c, i), psk |-> Passphrase(c),
                 address |-> Ipv4(c.address),
                 cidr |-> Number(c.cidr, 24, CidrMax),
                 channel |-> Number(c.channel, 6, ChannelMax)]
  IN  IF \E k \in DOMAIN loaded : loaded[k] = None THEN None ELSE loaded

(* render_hostapd_conf() and render_dnsmasq_conf(). *)
Hostapd(c) == [ssid |-> c.ssid, psk |-> c.psk, channel |-> c.channel]
Dnsmasq(c) == [gateway |-> c.address]
Interface(c) == [address |-> c.address, cidr |-> c.cidr]

-----------------------------------------------------------------------------
Init ==
  /\ robot \in Ids /\ conf \in Confs
  /\ pc = "down" /\ id = None /\ config = None
  /\ hostapd = None /\ dnsmasq = None /\ address = None
  /\ names = {} /\ writings = {} /\ edits = 0

\* Bug: the supervisor keeps the ID it read first.
ReadId_Caches ==
  /\ pc = "down"
  /\ id' = IF id = None THEN robot ELSE id
  /\ pc' = "load"
  /\ names' = {robot} /\ writings' = {conf}
  /\ UNCHANGED <<robot, conf, config, hostapd, dnsmasq, address, edits>>

(* The access point is raised: the ID is read each time. *)
ReadId ==
  /\ pc = "down"
  /\ id' = robot
  /\ pc' = "load"
  /\ names' = {robot} /\ writings' = {conf}
  /\ UNCHANGED <<robot, conf, config, hostapd, dnsmasq, address, edits>>

LoadConf ==
  /\ pc = "load"
  /\ Load(conf, id) # None
  /\ config' = Load(conf, id)
  /\ pc' = "hostapd"
  /\ UNCHANGED <<robot, conf, id, hostapd, dnsmasq, address, names, writings, edits>>

(* A value is refused, which ends the supervisor; systemd starts another. *)
Refuse ==
  /\ pc = "load"
  /\ Load(conf, id) = None
  /\ pc' = "down"
  /\ UNCHANGED <<robot, conf, id, config, hostapd, dnsmasq, address, names,
                 writings, edits>>

WriteHostapd ==
  /\ pc = "hostapd"
  /\ hostapd' = Hostapd(config)
  /\ pc' = "dnsmasq"
  /\ UNCHANGED <<robot, conf, id, config, dnsmasq, address, names, writings, edits>>

\* Bug: the configuration is loaded for each of the two files.
WriteDnsmasq_LoadsAgain ==
  /\ pc = "dnsmasq"
  /\ Load(conf, id) # None
  /\ dnsmasq' = Dnsmasq(Load(conf, id))
  /\ pc' = "address"
  /\ UNCHANGED <<robot, conf, id, config, hostapd, address, names, writings, edits>>

WriteDnsmasq ==
  /\ pc = "dnsmasq"
  /\ dnsmasq' = Dnsmasq(config)
  /\ pc' = "address"
  /\ UNCHANGED <<robot, conf, id, config, hostapd, address, names, writings, edits>>

(* Flush, address, link and the two daemons, which read their files. *)
GoUp ==
  /\ pc = "address"
  /\ address' = Interface(config)
  /\ pc' = "up"
  /\ UNCHANGED <<robot, conf, id, config, hostapd, dnsmasq, names, writings, edits>>

(* Any call fails, with or without having done its work. *)
Fails ==
  /\ pc \in {"load", "hostapd", "dnsmasq", "address"}
  /\ pc' = "down"
  /\ \/ UNCHANGED <<hostapd, dnsmasq, address>>
     \/ /\ pc = "hostapd" /\ hostapd' = Hostapd(config)
        /\ UNCHANGED <<dnsmasq, address>>
     \/ /\ pc = "dnsmasq" /\ dnsmasq' = Dnsmasq(config)
        /\ UNCHANGED <<hostapd, address>>
     \/ /\ pc = "address" /\ address' = Interface(config)
        /\ UNCHANGED <<hostapd, dnsmasq>>
  /\ UNCHANGED <<robot, conf, id, config, names, writings, edits>>

(* The access point goes down, for a retry or because a daemon died. *)
GoDown ==
  /\ pc = "up"
  /\ pc' = "down"
  /\ address' = None
  /\ UNCHANGED <<robot, conf, id, config, hostapd, dnsmasq, names, writings, edits>>

Rename ==
  /\ edits < MaxEdits /\ edits' = edits + 1
  /\ robot' \in Ids
  /\ names' = names \cup {robot'}
  /\ UNCHANGED <<conf, pc, id, config, hostapd, dnsmasq, address, writings>>

Edit ==
  /\ edits < MaxEdits /\ edits' = edits + 1
  /\ conf' \in Confs
  /\ writings' = writings \cup {conf'}
  /\ UNCHANGED <<robot, pc, id, config, hostapd, dnsmasq, address, names>>

Next ==
  \/ ReadId \/ LoadConf \/ Refuse \/ WriteHostapd \/ WriteDnsmasq \/ GoUp
  \/ Fails \/ GoDown \/ Rename \/ Edit

Spec == Init /\ [][Next]_vars

-----------------------------------------------------------------------------
Loadable == {t \in Text : t # <<>> /\ Bytes(t) <= SsidMaxBytes}

Loaded == [ssid : Loadable,
           psk : Text \cup {Unset}, address : Address,
           cidr : 1..CidrMax, channel : 1..ChannelMax]

TypeOK ==
  /\ robot \in Ids /\ conf \in Confs
  /\ pc \in {"down", "load", "hostapd", "dnsmasq", "address", "up"}
  /\ id \in Ids \cup {None}
  /\ config = None \/ config \in Loaded
  /\ hostapd = None \/ hostapd \in [ssid : Loadable, psk : Text \cup {Unset},
                                   channel : 1..ChannelMax]
  /\ dnsmasq = None \/ dnsmasq \in [gateway : Address]
  /\ address = None \/ address \in [address : Address, cidr : 1..CidrMax]
  /\ names \subseteq Ids /\ writings \subseteq Confs
  /\ edits \in 0..MaxEdits

(* Invalid values "are rejected rather than silently defaulted", and the   *)
(* three places a configuration goes to agree: what hostapd, dnsmasq and   *)
(* the interface have is what one state of the file says, each value as it *)
(* was written or, if it was not, the default, however the file is edited  *)
(* while the access point is raised and whatever earlier raises left.      *)
Value(v, default) == IF v = Unset THEN default ELSE v

OneConfiguration ==
  pc = "up" =>
    \E c \in writings :
      /\ hostapd.psk = c.psk
      /\ hostapd.channel = Value(c.channel, 6)
      /\ dnsmasq.gateway = Value(c.address, DefaultAddress)
      /\ address = [address |-> Value(c.address, DefaultAddress),
                    cidr |-> Value(c.cidr, 24)]

(* The recovery network's name is how an operator finds this robot among   *)
(* others: it is the one written for it, or else is made from an ID the    *)
(* robot has had since the access point was last raised, never from an     *)
(* older one.                                                              *)
RightName ==
  pc = "up" =>
    \E c \in writings :
      IF c.ssid = Unset THEN \E i \in names : hostapd.ssid = i \o Suffix(c)
                        ELSE hostapd.ssid = c.ssid

(* Two robots with the same file and no name written in it never raise     *)
(* networks of the same name: a name that is too long is refused, not cut. *)
NamesDiffer ==
  conf.ssid = Unset =>
    \A i, j \in Ids :
      (Load(conf, i) # None /\ Load(conf, j) # None /\ i # j)
        => Load(conf, i).ssid # Load(conf, j).ssid
=============================================================================
