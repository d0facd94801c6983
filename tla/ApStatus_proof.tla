--------------------------- MODULE ApStatus_proof ---------------------------
(***************************************************************************)
(* The proof that the reports agree with the access point, for all IDs,    *)
(* limits and files, on top of the invariant of ApConfig_proof.            *)
(***************************************************************************)
EXTENDS ApStatus, ApConfig_proof

Undisturbed == pc = "up" /\ names = {robot} /\ writings = {conf}

Agrees ==
  /\ read \in {None, robot}
  /\ shown["ssid"] \in {None, hostapd.ssid}
  /\ shown["security"] \in {None, ApSecurity(hostapd.psk)}

SInv ==
  /\ IInv
  /\ pc # "down" => robot \in names
  /\ pc # "up" => look = {} /\ read = None /\ shown = Empty
  /\ Undisturbed => Agrees

(* If nothing was edited, what the files say now is what was handed to     *)
(* hostapd.                                                                *)
LEMMA OnTheAir ==
  ASSUME IInv, Undisturbed
  PROVE  Load(conf, robot) # None /\ hostapd = Hostapd(Load(conf, robot))
<1>1. PICK c \in writings :
        /\ c \in Conf /\ id \in Ids /\ id \in names /\ Load(c, id) # None
        /\ hostapd = Hostapd(Load(c, id)) /\ dnsmasq = Dnsmasq(Load(c, id))
        /\ address = Interface(Load(c, id))
  BY UpIsLoaded DEF Undisturbed
<1> QED  BY <1>1 DEF Undisturbed

LEMMA EmptyAgrees ==
  Empty["ssid"] = None /\ Empty["security"] = None
  BY DEF Empty, Fields

(* The access point goes on beside the report: an edit disturbs it, and    *)
(* nothing else happens to an access point that stays up.                  *)
LEMMA AccessPointPreserves == SInv /\ AccessPoint => SInv'
<1> SUFFICES ASSUME SInv, AccessPoint  PROVE SInv'
  OBVIOUS
<1>1. IInv'
  BY StepPreserves DEF SInv, AccessPoint
<1>2. pc' # "down" => robot' \in names'
  BY DEF SInv, AccessPoint, Next, ReadId, LoadConf, Refuse, WriteHostapd,
         WriteDnsmasq, GoUp, Fails, GoDown, Rename, Edit
<1>3. pc' # "up" => look' = {} /\ read' = None /\ shown' = Empty
  BY DEF AccessPoint
<1>4. ASSUME Undisturbed'  PROVE Agrees'
  <2>1. pc' = "up" /\ read' = read /\ shown' = shown
    BY <1>4 DEF Undisturbed, AccessPoint, reader
  <2>2. CASE pc # "up"
    BY <2>1, <2>2, EmptyAgrees DEF SInv, Agrees
  <2>3. CASE pc = "up"
    <3>1. hostapd' = hostapd /\ (Rename \/ Edit)
      BY <2>1, <2>3 DEF AccessPoint, Next, ReadId, LoadConf, Refuse, WriteHostapd,
         WriteDnsmasq, GoUp, Fails, GoDown, Rename, Edit
    <3>2. robot \in names /\ conf \in writings
      BY <2>3 DEF SInv, IInv, Read
    <3>3. names \subseteq names' /\ writings \subseteq writings'
      BY <3>1 DEF Rename, Edit
    <3>4. robot' = robot /\ conf' = conf /\ names = {robot} /\ writings = {conf}
      BY <1>4, <3>2, <3>3 DEF Undisturbed
    <3> QED  BY <2>1, <2>3, <3>1, <3>4 DEF SInv, Undisturbed, Agrees
  <2> QED  BY <2>2, <2>3
<1> QED  BY <1>1, <1>2, <1>3, <1>4 DEF SInv

(* What is read for the report is what the files say now. *)
LEMMA ReportPreserves == SInv /\ (Begin \/ ReportId \/ ReportConf) => SInv'
<1> SUFFICES ASSUME SInv, Begin \/ ReportId \/ ReportConf  PROVE SInv'
  OBVIOUS
<1>1. UNCHANGED vars /\ pc = "up"
  <2>1. CASE Begin
    BY <2>1 DEF Begin
  <2>2. CASE ReportId \/ ReportConf
    BY <2>2 DEF SInv, ReportId, ReportConf
  <2> QED  BY <2>1, <2>2
<1>2. IInv'
  BY <1>1, StepPreserves DEF SInv
<1>3. /\ robot' = robot /\ conf' = conf /\ pc' = "up" /\ hostapd' = hostapd
      /\ names' = names /\ writings' = writings
  BY <1>1 DEF vars
<1>4. ASSUME Undisturbed'  PROVE Agrees'
  <2>1. Undisturbed /\ Agrees
    BY <1>1, <1>3, <1>4 DEF SInv, Undisturbed
  <2>2. CASE Begin
    BY <1>3, <2>1, <2>2, EmptyAgrees DEF Begin, Agrees
  <2>3. CASE ReportId
    BY <1>3, <2>1, <2>3 DEF ReportId, Agrees
  <2>4. CASE ReportConf
    <3>1. read = robot /\ read' = None
      BY <2>1, <2>4 DEF ReportConf, Agrees
    <3>2. /\ shown'["ssid"] \in {shown["ssid"], Summary("ssid", conf, read)}
          /\ shown'["security"] \in {shown["security"], Summary("security", conf, read)}
      BY <2>4 DEF ReportConf, Fields
    <3>3. /\ Summary("ssid", conf, read) \in {None, hostapd.ssid}
          /\ Summary("security", conf, read) \in {None, ApSecurity(hostapd.psk)}
      BY <2>1, <3>1, OnTheAir DEF SInv, Summary, Hostapd
    <3> QED  BY <1>3, <2>1, <3>1, <3>2, <3>3 DEF Agrees
  <2> QED  BY <2>2, <2>3, <2>4
<1> QED  BY <1>1, <1>2, <1>3, <1>4 DEF SInv

(* What is reported of an access point is what is on the air, if nothing   *)
(* was edited since it was raised.                                         *)
THEOREM ReportsAgree == StatusSpec => []StatusAgrees
<1>1. StatusInit => SInv
  BY InitEstablishes DEF SInv, StatusInit, Init, Undisturbed
<1>2. SInv /\ [StatusNext]_<<vars, reader>> => SInv'
  <2> SUFFICES ASSUME SInv, [StatusNext]_<<vars, reader>>  PROVE SInv'
    OBVIOUS
  <2>1. CASE UNCHANGED <<vars, reader>>
    <3>1. IInv'
      BY <2>1, StepPreserves DEF SInv
    <3> QED  BY <2>1, <3>1 DEF SInv, vars, reader, Undisturbed, Agrees
  <2> QED  BY <2>1, AccessPointPreserves, ReportPreserves DEF StatusNext
<1>3. SInv => StatusAgrees
  BY DEF SInv, StatusAgrees, Undisturbed, Agrees
<1> QED  BY <1>1, <1>2, <1>3, PTL DEF StatusSpec

=============================================================================
