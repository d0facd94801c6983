--------------------------- MODULE ApConfig_proof ---------------------------
(***************************************************************************)
(* Proofs about ApConfig, for all IDs, limits, characters and files.  What *)
(* loading a file gives comes first (LoadIsFaithful); the invariant then   *)
(* says how much of what was loaded has been handed on at each step.       *)
(***************************************************************************)
EXTENDS ApConfig, TLAPS

(* A number that is accepted is the one written, or else the default, and  *)
(* is within its range: nothing wraps on the way from u16 to u8.           *)
LEMMA NumberIsFaithful ==
  ASSUME NEW v \in Nat \cup {Malformed, Unset}, NEW default \in Nat,
         NEW max \in Nat, max < U8, default \in 1..max,
         Number(v, default, max) # None
  PROVE  /\ Number(v, default, max) = Value(v, default)
         /\ Number(v, default, max) \in 1..max
<1>1. CASE v = Unset
  BY <1>1 DEF Number, Value
<1>2. CASE v # Unset
  <2>1. v \in Nat /\ v < U16 /\ v \in 1..max /\ Number(v, default, max) = v % U8
    BY <1>2 DEF Number, U16
  <2>2. v % U8 = v
    BY <2>1 DEF U8
  <2> QED  BY <1>2, <2>1, <2>2 DEF Value
<1> QED  BY <1>1, <1>2

(* A file that is not refused is loaded as it is written. *)
LEMMA LoadIsFaithful ==
  ASSUME NEW c \in Conf, NEW i \in Ids, Load(c, i) # None
  PROVE  /\ Load(c, i) \in Loaded
         /\ Load(c, i).ssid = IF c.ssid = Unset THEN i \o Suffix(c) ELSE c.ssid
         /\ Load(c, i).psk = c.psk
         /\ Load(c, i).address = Value(c.address, DefaultAddress)
         /\ Load(c, i).cidr = Value(c.cidr, 24)
         /\ Load(c, i).channel = Value(c.channel, 6)
<1> DEFINE loaded == [ssid |-> Name(c, i), psk |-> Passphrase(c),
                      address |-> Ipv4(c.address),
                      cidr |-> Number(c.cidr, 24, CidrMax),
                      channel |-> Number(c.channel, 6, ChannelMax)]
<1>1. /\ Load(c, i) = loaded
      /\ \A k \in {"ssid", "psk", "address", "cidr", "channel"} : loaded[k] # None
  BY DEF Load
<1>2. /\ Name(c, i) # None /\ Passphrase(c) # None /\ Ipv4(c.address) # None
      /\ Number(c.cidr, 24, CidrMax) # None /\ Number(c.channel, 6, ChannelMax) # None
  BY <1>1
<1>3. /\ c.cidr \in Nat \cup {Malformed, Unset} /\ c.channel \in Nat \cup {Malformed, Unset}
      /\ c.ssid \in (Text \ {<<>>}) \cup {Unset} /\ c.suffix \in Text \cup {Unset}
      /\ c.psk \in (Text \ {<<>>}) \cup {Unset}
      /\ c.address \in Address \cup {Malformed, Unset}
  BY DEF Conf
<1> 24 \in 1..CidrMax /\ CidrMax \in Nat /\ CidrMax < U8
  BY DEF CidrMax, U8
<1> 6 \in 1..ChannelMax /\ ChannelMax \in Nat /\ ChannelMax < U8
  BY DEF ChannelMax, U8
<1> HIDE DEF loaded
<1>4. /\ Number(c.cidr, 24, CidrMax) = Value(c.cidr, 24)
      /\ Number(c.cidr, 24, CidrMax) \in 1..CidrMax
  BY <1>2, <1>3, NumberIsFaithful
<1>5. /\ Number(c.channel, 6, ChannelMax) = Value(c.channel, 6)
      /\ Number(c.channel, 6, ChannelMax) \in 1..ChannelMax
  BY <1>2, <1>3, NumberIsFaithful
<1>6. Passphrase(c) = c.psk /\ Passphrase(c) \in Text \cup {Unset}
  BY <1>2, <1>3 DEF Passphrase
<1>7. Ipv4(c.address) = Value(c.address, DefaultAddress) /\ Ipv4(c.address) \in Address
  BY <1>2, <1>3, ValueAssumption DEF Ipv4, Value
<1>8. /\ Name(c, i) = IF c.ssid = Unset THEN i \o Suffix(c) ELSE c.ssid
      /\ Name(c, i) \in Loadable
  <2>1. i \o Suffix(c) \in Text
    BY <1>3, TextAssumption DEF Suffix, Text
  <2>2. \A t \in Text : Ssid(t) # None => Ssid(t) = t /\ t \in Loadable
    <3> SUFFICES ASSUME NEW t \in Text, Ssid(t) # None
                 PROVE  Ssid(t) = t /\ t \in Loadable
      OBVIOUS
    <3>1. t # <<>> /\ ~HasControl(t) /\ Bytes(t) <= SsidMaxBytes /\ Ssid(t) = t
      BY DEF Ssid
    <3> QED  BY <3>1 DEF Loadable
  <2> QED  BY <1>2, <1>3, <2>1, <2>2 DEF Name, Derived
<1> QED  BY <1>1, <1>4, <1>5, <1>6, <1>7, <1>8 DEF Loaded, loaded

-----------------------------------------------------------------------------
(* What a raise has read so far, and what it has made of it. *)

Mid == {"hostapd", "dnsmasq", "address", "up"}

Read ==
  /\ pc # "down" => id \in names /\ conf \in writings
  /\ pc \in Mid => \E c \in writings : Load(c, id) # None /\ config = Load(c, id)

HandedOn ==
  /\ pc \in {"dnsmasq", "address", "up"} => hostapd = Hostapd(config)
  /\ pc \in {"address", "up"} => dnsmasq = Dnsmasq(config)
  /\ pc = "up" => address = Interface(config)

IInv == TypeOK /\ Read /\ HandedOn

LEMMA InitEstablishes == Init => IInv
  BY LimitAssumption DEF Init, IInv, TypeOK, Read, HandedOn, Mid

(* LoadConf is where the data come from. *)
LEMMA LoadPreserves == IInv /\ LoadConf => IInv'
<1> SUFFICES ASSUME IInv, LoadConf  PROVE IInv'
  OBVIOUS
<1>1. conf \in Conf /\ conf \in writings /\ id \in names /\ id \in Ids
  BY ConfsAssumption DEF IInv, TypeOK, Read, LoadConf
<1>2. Load(conf, id) # None /\ config' = Load(conf, id)
  BY DEF LoadConf
<1>3. config' \in Loaded
  BY <1>1, <1>2, LoadIsFaithful
<1>4. TypeOK'
  BY <1>3 DEF IInv, TypeOK, LoadConf
<1>5. Read'
  <2>1. \E c \in writings' : Load(c, id') # None /\ config' = Load(c, id')
    BY <1>1, <1>2 DEF LoadConf
  <2> QED  BY <1>1, <2>1 DEF Read, LoadConf
<1>6. HandedOn'
  BY DEF HandedOn, LoadConf
<1> QED  BY <1>4, <1>5, <1>6 DEF IInv

(* What is handed on is a part of what was loaded. *)
LEMMA PartsAreTyped ==
  ASSUME IInv, pc \in Mid
  PROVE  /\ Hostapd(config) \in [ssid : Loadable, psk : Text \cup {Unset},
                                 channel : 1..ChannelMax]
         /\ Dnsmasq(config) \in [gateway : Address]
         /\ Interface(config) \in [address : Address, cidr : 1..CidrMax]
<1>1. config \in Loaded
  <2>1. PICK c \in writings : Load(c, id) # None /\ config = Load(c, id)
    BY DEF IInv, Read
  <2>2. c \in Conf /\ id \in Ids
    <3>1. pc # "down"
      BY DEF Mid
    <3> QED  BY <3>1, ConfsAssumption DEF IInv, TypeOK, Read
  <2> QED  BY <2>1, <2>2, LoadIsFaithful
<1> QED  BY <1>1 DEF Loaded, Hostapd, Dnsmasq, Interface

LEMMA StepPreserves == IInv /\ [Next]_vars => IInv'
<1> SUFFICES ASSUME IInv, [Next]_vars  PROVE IInv'
  OBVIOUS
<1> USE DEF IInv
<1>1. CASE ReadId
  BY <1>1 DEF ReadId, TypeOK, Read, HandedOn, Mid
<1>2. CASE LoadConf
  BY <1>2, LoadPreserves
<1>3. CASE Refuse
  BY <1>3 DEF Refuse, TypeOK, Read, HandedOn, Mid
<1>4. CASE WriteHostapd
  <2>1. TypeOK'
    BY <1>4, PartsAreTyped DEF WriteHostapd, TypeOK, Mid
  <2>2. Read' /\ HandedOn'
    BY <1>4 DEF WriteHostapd, Read, HandedOn, Mid
  <2> QED  BY <2>1, <2>2
<1>5. CASE WriteDnsmasq
  <2>1. TypeOK'
    BY <1>5, PartsAreTyped DEF WriteDnsmasq, TypeOK, Mid
  <2>2. Read' /\ HandedOn'
    BY <1>5 DEF WriteDnsmasq, Read, HandedOn, Mid
  <2> QED  BY <2>1, <2>2
<1>6. CASE GoUp
  <2>1. TypeOK'
    BY <1>6, PartsAreTyped DEF GoUp, TypeOK, Mid
  <2>2. Read' /\ HandedOn'
    BY <1>6 DEF GoUp, Read, HandedOn, Mid
  <2> QED  BY <2>1, <2>2
<1>7. CASE Fails
  <2>1. TypeOK'
    BY <1>7, PartsAreTyped DEF Fails, TypeOK, Mid
  <2>2. Read' /\ HandedOn'
    BY <1>7 DEF Fails, Read, HandedOn, Mid
  <2> QED  BY <2>1, <2>2
<1>8. CASE GoDown
  BY <1>8 DEF GoDown, TypeOK, Read, HandedOn, Mid
<1>9. CASE Rename
  <2>1. TypeOK'
    BY <1>9, LimitAssumption DEF Rename, TypeOK
  <2>2. Read' /\ HandedOn'
    BY <1>9 DEF Rename, Read, HandedOn
  <2> QED  BY <2>1, <2>2
<1>10. CASE Edit
  <2>1. TypeOK'
    BY <1>10, LimitAssumption DEF Edit, TypeOK
  <2>2. Read' /\ HandedOn'
    BY <1>10 DEF Edit, Read, HandedOn
  <2> QED  BY <2>1, <2>2
<1>11. CASE UNCHANGED vars
  BY <1>11 DEF vars, TypeOK, Read, HandedOn
<1> QED
  BY <1>1, <1>2, <1>3, <1>4, <1>5, <1>6, <1>7, <1>8, <1>9, <1>10, <1>11 DEF Next

(* The invariant of raising the access point, which the others rest on. *)
THEOREM Invariance == Spec => []IInv
  BY InitEstablishes, StepPreserves, PTL DEF Spec

-----------------------------------------------------------------------------
(* Type correctness: what is loaded has passed validation, for all limits. *)
THEOREM TypeCorrect == Spec => []TypeOK
<1>1. IInv => TypeOK
  BY DEF IInv
<1> QED  BY <1>1, Invariance, PTL

(* What is on the air is what one state of the file says, as in LoadIs-    *)
(* Faithful, handed on unchanged.                                          *)
LEMMA UpIsLoaded ==
  ASSUME IInv, pc = "up"
  PROVE  \E c \in writings :
           /\ c \in Conf /\ id \in Ids /\ id \in names /\ Load(c, id) # None
           /\ hostapd = Hostapd(Load(c, id)) /\ dnsmasq = Dnsmasq(Load(c, id))
           /\ address = Interface(Load(c, id))
<1>1. PICK c \in writings : Load(c, id) # None /\ config = Load(c, id)
  BY DEF IInv, Read, Mid
<1>2. c \in Conf /\ id \in Ids /\ id \in names
  BY ConfsAssumption DEF IInv, TypeOK, Read
<1> QED  BY <1>1, <1>2 DEF IInv, HandedOn

(* hostapd, dnsmasq and the interface agree on one state of the file, with *)
(* every value as written or the default, under edits at any moment.       *)
THEOREM RaisedAsWritten == Spec => []OneConfiguration
<1>1. IInv => OneConfiguration
  <2> SUFFICES ASSUME IInv, pc = "up"  PROVE OneConfiguration
    BY DEF OneConfiguration
  <2>1. PICK c \in writings :
          /\ c \in Conf /\ id \in Ids /\ id \in names /\ Load(c, id) # None
          /\ hostapd = Hostapd(Load(c, id)) /\ dnsmasq = Dnsmasq(Load(c, id))
          /\ address = Interface(Load(c, id))
    BY UpIsLoaded
  <2>2. /\ Load(c, id).psk = c.psk
        /\ Load(c, id).address = Value(c.address, DefaultAddress)
        /\ Load(c, id).cidr = Value(c.cidr, 24)
        /\ Load(c, id).channel = Value(c.channel, 6)
    BY <2>1, LoadIsFaithful
  <2> QED  BY <2>1, <2>2 DEF OneConfiguration, Hostapd, Dnsmasq, Interface
<1> QED  BY <1>1, Invariance, PTL

(* The network is named as written, or after an ID the robot has had since *)
(* the access point was last raised.                                       *)
THEOREM NamedAfterTheRobot == Spec => []RightName
<1>1. IInv => RightName
  <2> SUFFICES ASSUME IInv, pc = "up"  PROVE RightName
    BY DEF RightName
  <2>1. PICK c \in writings :
          /\ c \in Conf /\ id \in Ids /\ id \in names /\ Load(c, id) # None
          /\ hostapd = Hostapd(Load(c, id)) /\ dnsmasq = Dnsmasq(Load(c, id))
          /\ address = Interface(Load(c, id))
    BY UpIsLoaded
  <2>2. Load(c, id).ssid = IF c.ssid = Unset THEN id \o Suffix(c) ELSE c.ssid
    BY <2>1, LoadIsFaithful
  <2> QED  BY <2>1, <2>2 DEF RightName, Hostapd
<1> QED  BY <1>1, Invariance, PTL

(* Texts with the same ending differ if what is before it does. *)
LEMMA SameEnding ==
  ASSUME NEW s \in Text, NEW t \in Text, NEW e \in Text, s \o e = t \o e
  PROVE  s = t
<1>1. Len(s) = Len(t)
  BY DEF Text
<1>2. \A n \in 1..Len(s) : s[n] = (s \o e)[n] /\ t[n] = (t \o e)[n]
  BY <1>1 DEF Text
<1> QED  BY <1>1, <1>2 DEF Text

(* Robots that share a file without a name in it raise networks of         *)
(* different names, or none.                                               *)
THEOREM RobotsToldApart == Spec => []NamesDiffer
<1>1. IInv => NamesDiffer
  <2> SUFFICES ASSUME IInv, conf.ssid = Unset, NEW i \in Ids, NEW j \in Ids,
                      Load(conf, i) # None, Load(conf, j) # None,
                      Load(conf, i).ssid = Load(conf, j).ssid
               PROVE  i = j
    BY DEF NamesDiffer
  <2>1. conf \in Conf
    BY ConfsAssumption DEF IInv, TypeOK
  <2>2. i \in Text /\ j \in Text /\ Suffix(conf) \in Text
    BY <2>1, TextAssumption DEF Suffix, Conf
  <2>3. Load(conf, i).ssid = i \o Suffix(conf)
    BY <2>1, LoadIsFaithful
  <2>4. Load(conf, j).ssid = j \o Suffix(conf)
    BY <2>1, LoadIsFaithful
  <2> QED  BY <2>2, <2>3, <2>4, SameEnding
<1> QED  BY <1>1, Invariance, PTL
=============================================================================
