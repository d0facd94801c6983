----------------------- MODULE WifiSupervisor_proof -----------------------
(***************************************************************************)
(* What holds of the supervisor for every number of attempts, every retry  *)
(* interval and every poll interval, under every fault of the model.       *)
(*                                                                         *)
(* The one induction is Invariance: IInv, which adds to the safety         *)
(* properties the bookkeeping that makes them inductive.  Its Boolean part *)
(* (Flags) and the rest (Core) are proved apart, because the provers treat *)
(* Boolean-valued variables differently.  The safety properties are        *)
(* conjuncts of IInv; the action property and the refinement follow from   *)
(* one step taken where IInv holds.                                        *)
(***************************************************************************)
EXTENDS WifiSupervisor, TLAPS

-----------------------------------------------------------------------------
(* The types of the Boolean variables need no other invariant. *)

LEMMA FlagsStep ==
  ASSUME Flags, [Next]_vars
  PROVE  Flags'
<1> USE DEF Flags, vars, memory, world, env, process, Fresh, Goto, Returns,
            ErrorExit, StopDaemon, AwaitExit, Flush, Spawns, Commands,
            AfterStopClient
<1>1. ASSUME Boot, UNCHANGED env PROVE Flags'
  BY <1>1, Zenon DEF Boot
<1>2. ASSUME Transition, UNCHANGED env PROVE Flags'
  BY <1>2, Zenon DEF Transition
<1>3. ASSUME Watch, UNCHANGED env PROVE Flags'
  BY <1>3, Zenon DEF Watch
<1>4. ASSUME DropApStep, UNCHANGED env PROVE Flags'
  <2>1. CASE StopHostapd
    BY <1>4, <2>1, Zenon DEF StopHostapd
  <2>2. CASE AwaitHostapd
    BY <1>4, <2>2, Zenon DEF AwaitHostapd
  <2>3. CASE StopDnsmasq
    BY <1>4, <2>3, Zenon DEF StopDnsmasq
  <2>4. CASE AwaitDnsmasq
    BY <1>4, <2>4, Zenon DEF AwaitDnsmasq
  <2>5. CASE FlushAp
    BY <1>4, <2>5, Zenon DEF FlushAp
  <2> QED
    BY <1>4, <2>1, <2>2, <2>3, <2>4, <2>5 DEF DropApStep
<1>5. ASSUME TryClientStep, UNCHANGED env PROVE Flags'
  <2>1. CASE StopAp
    BY <1>5, <2>1, Zenon DEF StopAp
  <2>2. CASE Connect
    BY <1>5, <2>2, Zenon DEF Connect
  <2>3. CASE FlushForClient
    BY <1>5, <2>3, Zenon DEF FlushForClient
  <2>4. CASE LinkUpForClient
    BY <1>5, <2>4, Zenon DEF LinkUpForClient
  <2>5. CASE SpawnWpa
    BY <1>5, <2>5, Zenon DEF SpawnWpa
  <2>6. CASE Dhcp
    BY <1>5, <2>6, Zenon DEF Dhcp
  <2>7. CASE ReadAddr
    BY <1>5, <2>7, Zenon DEF ReadAddr
  <2>8. CASE DropWpa
    BY <1>5, <2>8, Zenon DEF DropWpa
  <2>9. CASE AwaitDrop
    BY <1>5, <2>9, Zenon DEF AwaitDrop
  <2> QED
    BY <1>5, <2>1, <2>2, <2>3, <2>4, <2>5, <2>6, <2>7, <2>8, <2>9 DEF
       TryClientStep
<1>6. ASSUME StopClientStep, UNCHANGED env PROVE Flags'
  <2>1. CASE StopClient
    BY <1>6, <2>1, Zenon DEF StopClient
  <2>2. CASE AwaitClient
    BY <1>6, <2>2, Zenon DEF AwaitClient
  <2>3. CASE FlushClient
    BY <1>6, <2>3, Zenon DEF FlushClient
  <2> QED
    BY <1>6, <2>1, <2>2, <2>3 DEF StopClientStep
<1>7. ASSUME ServeApStep, UNCHANGED env PROVE Flags'
  <2>1. CASE EnsureAp
    BY <1>7, <2>1, Zenon DEF EnsureAp
  <2>2. CASE LoadAp
    BY <1>7, <2>2, Zenon DEF LoadAp
  <2>3. CASE FlushForAp
    BY <1>7, <2>3, Zenon DEF FlushForAp
  <2>4. CASE AddApAddress
    BY <1>7, <2>4, Zenon DEF AddApAddress
  <2>5. CASE LinkUpForAp
    BY <1>7, <2>5, Zenon DEF LinkUpForAp
  <2>6. CASE SpawnDnsmasq
    BY <1>7, <2>6, Zenon DEF SpawnDnsmasq
  <2>7. CASE SpawnHostapd
    BY <1>7, <2>7, Zenon DEF SpawnHostapd
  <2>8. CASE UndoDnsmasq
    BY <1>7, <2>8, Zenon DEF UndoDnsmasq
  <2>9. CASE AwaitUndo
    BY <1>7, <2>9, Zenon DEF AwaitUndo
  <2>10. CASE ServeUnhealthy
    BY <1>7, <2>10, Zenon DEF ServeUnhealthy
  <2>11. CASE ServeEarly
    BY <1>7, <2>11, Zenon DEF ServeEarly
  <2>12. CASE ServeDue
    BY <1>7, <2>12, Zenon DEF ServeDue
  <2> QED
    BY <1>7, <2>1, <2>2, <2>3, <2>4, <2>5, <2>6, <2>7, <2>8, <2>9,
       <2>10, <2>11, <2>12 DEF ServeApStep
<1>8. CASE Launch
  BY <1>8, Zenon DEF Launch
<1>9. CASE Kill
  BY <1>9, Zenon DEF Kill
<1>10. CASE CgroupReap
  BY <1>10, Zenon DEF CgroupReap
<1>11. CASE DaemonExit
  BY <1>11, Zenon DEF DaemonExit
<1>12. CASE AddressLost
  BY <1>12, Zenon DEF AddressLost
<1>13. CASE IfaceChange
  BY <1>13, Zenon DEF IfaceChange
<1>14. CASE ClientConfChange
  BY <1>14, Zenon DEF ClientConfChange
<1>15. CASE ApConfChange
  BY <1>15, Zenon DEF ApConfChange
<1>16. CASE NetChange
  BY <1>16, Zenon DEF NetChange
<1>17. CASE BecomeCalm
  BY <1>17, Zenon DEF BecomeCalm
<1>18. CASE UNCHANGED vars
  BY <1>18, Zenon
<1> QED
  BY <1>1, <1>2, <1>3, <1>4, <1>5, <1>6, <1>7, <1>8, <1>9, <1>10, <1>11,
     <1>12, <1>13, <1>14, <1>15, <1>16, <1>17, <1>18 DEF Next,
     SupervisorStep, Faults

-----------------------------------------------------------------------------
(* From here on: the labels, the helpers, and the parts of the invariant.  *)
(* Each leaf below names the action it is about.                           *)
USE AttemptsAssumption, ApRetryAssumption, LinkPollAssumption
USE DEF Pcs, Stopped, DropApPcs, StopClientPcs, TryPcs, RaisePcs, States,
        Events, Daemons, ProcStates, Hooks, Alive, Running, ApHealthy
USE DEF vars, memory, world, env, process, Fresh, Goto, Returns, ErrorExit,
        StopDaemon, AwaitExit, Flush, Spawns, Commands, AfterStopClient,
        NextState, Entry
USE DEF Core, Ranges, Control, EventFits, Sessions, Drained, Flushed, Counted,
        RadioExclusive, NoOrphans, AddressIsOurs, HookTells

(* run() preserves Core: startup, the table, a poll of the connection. *)
LEMMA CoreRun ==
  ASSUME Core, Boot \/ Transition \/ Watch, UNCHANGED env
  PROVE  Core'
<1>1. CASE Boot
  BY <1>1, SMT DEF Boot
<1>2. CASE Transition
  BY <1>2, SMT DEF Transition
<1>3. CASE Watch
  BY <1>3, SMT DEF Watch
<1> QED
  BY <1>1, <1>2, <1>3

(* Dropping the access point preserves Core: each daemon is gone before   *)
(* the next call, so none is left when the session is.                    *)
LEMMA CoreDropAp ==
  ASSUME Core, DropApStep, UNCHANGED env
  PROVE  Core'
<1>1. CASE StopHostapd
  BY <1>1, SMT DEF StopHostapd
<1>2. CASE AwaitHostapd
  BY <1>2, SMT DEF AwaitHostapd
<1>3. CASE StopDnsmasq
  BY <1>3, SMT DEF StopDnsmasq
<1>4. CASE AwaitDnsmasq
  BY <1>4, SMT DEF AwaitDnsmasq
<1>5. CASE FlushAp
  <2>1. addrs' \subseteq addrs
    BY <1>5 DEF FlushAp
  <2>2. ~Alive("hostapd") /\ ~Alive("dnsmasq")
    BY <1>5, SMT DEF FlushAp
  <2>3. CASE state = "TryClient"
    <3>1. pc' = "connect" /\ attempt' = 1 /\ UNCHANGED event
      BY <1>5, <2>3, SMT DEF FlushAp
      <3>11. Ranges'
        BY <1>5, <2>1, <2>2, <2>3, <3>1, SMT DEF FlushAp
      <3>12. Control'
        BY <1>5, <2>1, <2>2, <2>3, <3>1, SMT DEF FlushAp
      <3>13. Sessions'
        BY <1>5, <2>1, <2>2, <2>3, <3>1, SMT DEF FlushAp
      <3>14. Drained'
        BY <1>5, <2>1, <2>2, <2>3, <3>1, SMT DEF FlushAp
      <3>15. Flushed'
        BY <1>5, <2>1, <2>2, <2>3, <3>1, SMT DEF FlushAp
      <3>16. Counted'
        BY <1>5, <2>1, <2>2, <2>3, <3>1, SMT DEF FlushAp
      <3>17. RadioExclusive'
        BY <1>5, <2>1, <2>2, <2>3, <3>1, SMT DEF FlushAp
      <3>18. NoOrphans'
        BY <1>5, <2>1, <2>2, <2>3, <3>1, SMT DEF FlushAp
      <3>19. AddressIsOurs'
        BY <1>5, <2>1, <2>2, <2>3, <3>1, SMT DEF FlushAp
      <3>20. HookTells'
        BY <1>5, <2>1, <2>2, <2>3, <3>1, SMT DEF FlushAp
      <3> QED BY <3>11, <3>12, <3>13, <3>14, <3>15, <3>16, <3>17, <3>18, <3>19, <3>20
  <2>4. CASE state = "FallbackAp"
    <3>1. pc' = "decide" /\ event' = "ApDied" /\ UNCHANGED attempt
      BY <1>5, <2>4, SMT DEF FlushAp
      <3>11. Ranges'
        BY <1>5, <2>1, <2>2, <2>4, <3>1, SMT DEF FlushAp
      <3>12. Control'
        BY <1>5, <2>1, <2>2, <2>4, <3>1, SMT DEF FlushAp
      <3>13. Sessions'
        BY <1>5, <2>1, <2>2, <2>4, <3>1, SMT DEF FlushAp
      <3>14. Drained'
        BY <1>5, <2>1, <2>2, <2>4, <3>1, SMT DEF FlushAp
      <3>15. Flushed'
        BY <1>5, <2>1, <2>2, <2>4, <3>1, SMT DEF FlushAp
      <3>16. Counted'
        BY <1>5, <2>1, <2>2, <2>4, <3>1, SMT DEF FlushAp
      <3>17. RadioExclusive'
        BY <1>5, <2>1, <2>2, <2>4, <3>1, SMT DEF FlushAp
      <3>18. NoOrphans'
        BY <1>5, <2>1, <2>2, <2>4, <3>1, SMT DEF FlushAp
      <3>19. AddressIsOurs'
        BY <1>5, <2>1, <2>2, <2>4, <3>1, SMT DEF FlushAp
      <3>20. HookTells'
        BY <1>5, <2>1, <2>2, <2>4, <3>1, SMT DEF FlushAp
      <3> QED BY <3>11, <3>12, <3>13, <3>14, <3>15, <3>16, <3>17, <3>18, <3>19, <3>20
  <2> QED BY <1>5, <2>3, <2>4 DEF FlushAp
<1> QED
  BY <1>1, <1>2, <1>3, <1>4, <1>5 DEF DropApStep

(* A client attempt preserves Core: it starts with no access point, and   *)
(* its supplicant has an owner until it is waited for.                     *)
LEMMA CoreTryClient ==
  ASSUME Core, TryClientStep, UNCHANGED env
  PROVE  Core'
<1>1. CASE StopAp
  BY <1>1, SMT DEF StopAp
<1>2. CASE Connect
  <2>1. CASE clientConf
    <3>1. PICK ok \in Commands :
             Goto(IF ok THEN "flush_for_client" ELSE "stop_client")
      BY <1>2, <2>1 DEF Connect
    <3> QED BY <1>2, <2>1, <3>1, SMT DEF Connect
  <2>2. CASE ~clientConf
    BY <1>2, <2>2, SMT DEF Connect
  <2> QED BY <2>1, <2>2
<1>3. CASE FlushForClient
  <2>1. \/ addrs' = {} /\ pc' = "link_up_for_client"
        \/ UNCHANGED addrs /\ pc' = "stop_client"
    BY <1>3, SMT DEF FlushForClient
  <2>2. addrs' \subseteq {"lease", "ap"}
    BY <2>1
    <2>11. Ranges'
      BY <1>3, <2>1, <2>2, SMT DEF FlushForClient
    <2>12. Control'
      BY <1>3, <2>1, <2>2, SMT DEF FlushForClient
    <2>13. Sessions'
      BY <1>3, <2>1, <2>2, SMT DEF FlushForClient
    <2>14. Drained'
      BY <1>3, <2>1, <2>2, SMT DEF FlushForClient
    <2>15. Flushed'
      BY <1>3, <2>1, <2>2, SMT DEF FlushForClient
    <2>16. Counted'
      BY <1>3, <2>1, <2>2, SMT DEF FlushForClient
    <2>17. RadioExclusive'
      BY <1>3, <2>1, <2>2, SMT DEF FlushForClient
    <2>18. NoOrphans'
      BY <1>3, <2>1, <2>2, SMT DEF FlushForClient
    <2>19. AddressIsOurs'
      BY <1>3, <2>1, <2>2, SMT DEF FlushForClient
    <2>20. HookTells'
      BY <1>3, <2>1, <2>2, SMT DEF FlushForClient
    <2> QED BY <2>11, <2>12, <2>13, <2>14, <2>15, <2>16, <2>17, <2>18, <2>19, <2>20
<1>4. CASE LinkUpForClient
  BY <1>4, SMT DEF LinkUpForClient
<1>5. CASE SpawnWpa
  BY <1>5, SMT DEF SpawnWpa
<1>6. CASE Dhcp
  BY <1>6, SMT DEF Dhcp
<1>7. CASE ReadAddr
  BY <1>7, SMT DEF ReadAddr
<1>8. CASE DropWpa
  BY <1>8, SMT DEF DropWpa
<1>9. CASE AwaitDrop
  BY <1>9, SMT DEF AwaitDrop
<1> QED
  BY <1>1, <1>2, <1>3, <1>4, <1>5, <1>6, <1>7, <1>8, <1>9 DEF
     TryClientStep

(* Stopping the client preserves Core. *)
LEMMA CoreStopClient ==
  ASSUME Core, StopClientStep, UNCHANGED env
  PROVE  Core'
<1>1. CASE StopClient
  BY <1>1, SMT DEF StopClient
<1>2. CASE AwaitClient
  BY <1>2, SMT DEF AwaitClient
<1>3. CASE FlushClient
  <2>1. addrs' \subseteq addrs
    BY <1>3, SMT DEF FlushClient
  <2>2. pc = "flush_client"
    BY <1>3 DEF FlushClient
  <2>3. state = "ClientUp" /\ ~client /\ ~ap
    BY <2>2, SMT
  <2>4. pc' = "decide" /\ event' = "LinkLost" /\ UNCHANGED attempt
    BY <1>3, <2>3, SMT DEF FlushClient
    <2>11. Ranges'
      BY <1>3, <2>1, <2>2, <2>3, <2>4, SMT DEF FlushClient
    <2>12. Control'
      BY <1>3, <2>1, <2>2, <2>3, <2>4, SMT DEF FlushClient
    <2>13. Sessions'
      BY <1>3, <2>1, <2>2, <2>3, <2>4, SMT DEF FlushClient
    <2>14. Drained'
      BY <1>3, <2>1, <2>2, <2>3, <2>4, SMT DEF FlushClient
    <2>15. Flushed'
      BY <1>3, <2>1, <2>2, <2>3, <2>4, SMT DEF FlushClient
    <2>16. Counted'
      BY <1>3, <2>1, <2>2, <2>3, <2>4, SMT DEF FlushClient
    <2>17. RadioExclusive'
      BY <1>3, <2>1, <2>2, <2>3, <2>4, SMT DEF FlushClient
    <2>18. NoOrphans'
      BY <1>3, <2>1, <2>2, <2>3, <2>4, SMT DEF FlushClient
    <2>19. AddressIsOurs'
      BY <1>3, <2>1, <2>2, <2>3, <2>4, SMT DEF FlushClient
    <2>20. HookTells'
      BY <1>3, <2>1, <2>2, <2>3, <2>4, SMT DEF FlushClient
    <2> QED BY <2>11, <2>12, <2>13, <2>14, <2>15, <2>16, <2>17, <2>18, <2>19, <2>20
<1> QED
  BY <1>1, <1>2, <1>3 DEF StopClientStep

(* Raising and serving the access point preserves Core: it starts with no *)
(* station, and what an error leaves behind has been stopped.              *)
LEMMA CoreServeAp ==
  ASSUME Core, ServeApStep, UNCHANGED env
  PROVE  Core'
<1>1. CASE EnsureAp
  BY <1>1, SMT DEF EnsureAp
<1>2. CASE LoadAp
  BY <1>2, SMT DEF LoadAp
<1>3. CASE FlushForAp
  <2>1. PICK ok \in Commands :
           Flush(ok) /\ IF ok THEN Goto("add_ap_address") /\ UNCHANGED memory
                              ELSE ErrorExit
    BY <1>3 DEF FlushForAp
  <2>2. CASE ok
    <3>1. addrs' = {} /\ pc' = "add_ap_address" /\ UNCHANGED memory
      BY <2>1, <2>2
      <3>11. Ranges'
        BY <1>3, <3>1, SMT DEF FlushForAp
      <3>12. Control'
        BY <1>3, <3>1, SMT DEF FlushForAp
      <3>13. Sessions'
        BY <1>3, <3>1, SMT DEF FlushForAp
      <3>14. Drained'
        BY <1>3, <3>1, SMT DEF FlushForAp
      <3>15. Flushed'
        BY <1>3, <3>1, SMT DEF FlushForAp
      <3>16. Counted'
        BY <1>3, <3>1, SMT DEF FlushForAp
      <3>17. RadioExclusive'
        BY <1>3, <3>1, SMT DEF FlushForAp
      <3>18. NoOrphans'
        BY <1>3, <3>1, SMT DEF FlushForAp
      <3>19. AddressIsOurs'
        BY <1>3, <3>1, SMT DEF FlushForAp
      <3>20. HookTells'
        BY <1>3, <3>1, SMT DEF FlushForAp
      <3> QED BY <3>11, <3>12, <3>13, <3>14, <3>15, <3>16, <3>17, <3>18, <3>19, <3>20
  <2>3. CASE ~ok
    <3>1. ErrorExit /\ UNCHANGED addrs
      BY <2>1, <2>3
      <3>11. Ranges'
        BY <1>3, <3>1, SMT DEF FlushForAp
      <3>12. Control'
        BY <1>3, <3>1, SMT DEF FlushForAp
      <3>13. Sessions'
        BY <1>3, <3>1, SMT DEF FlushForAp
      <3>14. Drained'
        BY <1>3, <3>1, SMT DEF FlushForAp
      <3>15. Flushed'
        BY <1>3, <3>1, SMT DEF FlushForAp
      <3>16. Counted'
        BY <1>3, <3>1, SMT DEF FlushForAp
      <3>17. RadioExclusive'
        BY <1>3, <3>1, SMT DEF FlushForAp
      <3>18. NoOrphans'
        BY <1>3, <3>1, SMT DEF FlushForAp
      <3>19. AddressIsOurs'
        BY <1>3, <3>1, SMT DEF FlushForAp
      <3>20. HookTells'
        BY <1>3, <3>1, SMT DEF FlushForAp
      <3> QED BY <3>11, <3>12, <3>13, <3>14, <3>15, <3>16, <3>17, <3>18, <3>19, <3>20
  <2> QED BY <2>2, <2>3
<1>4. CASE AddApAddress
  BY <1>4, SMT DEF AddApAddress
<1>5. CASE LinkUpForAp
  BY <1>5, SMT DEF LinkUpForAp
<1>6. CASE SpawnDnsmasq
  BY <1>6, SMT DEF SpawnDnsmasq
<1>7. CASE SpawnHostapd
  BY <1>7, SMT DEF SpawnHostapd
<1>8. CASE UndoDnsmasq
  BY <1>8, SMT DEF UndoDnsmasq
<1>9. CASE AwaitUndo
  BY <1>9, SMT DEF AwaitUndo
<1>10. CASE ServeUnhealthy
  BY <1>10, SMT DEF ServeUnhealthy
<1>11. CASE ServeEarly
  BY <1>11, SMT DEF ServeEarly
<1>12. CASE ServeDue
  BY <1>12, SMT DEF ServeDue
<1> QED
  BY <1>1, <1>2, <1>3, <1>4, <1>5, <1>6, <1>7, <1>8, <1>9, <1>10, <1>11,
     <1>12 DEF ServeApStep

(* Nothing outside the program breaks Core: daemons only exit, addresses   *)
(* only go, and a killed supervisor forgets everything at once.            *)
LEMMA CoreOutside ==
  ASSUME Core, Launch \/ CgroupReap \/ Faults \/ BecomeCalm
  PROVE  Core'
<1>1. CASE Launch
  BY <1>1, SMT DEF Launch
<1>2. CASE Kill
  BY <1>2, SMT DEF Kill
<1>3. CASE CgroupReap
  BY <1>3, SMT DEF CgroupReap
<1>4. CASE DaemonExit
  BY <1>4, SMT DEF DaemonExit
<1>5. CASE AddressLost
  BY <1>5, SMT DEF AddressLost
<1>6. CASE IfaceChange
  BY <1>6, SMT DEF IfaceChange
<1>7. CASE ClientConfChange
  BY <1>7, SMT DEF ClientConfChange
<1>8. CASE ApConfChange
  BY <1>8, SMT DEF ApConfChange
<1>9. CASE NetChange
  BY <1>9, SMT DEF NetChange
<1>10. CASE BecomeCalm
  BY <1>10, SMT DEF BecomeCalm
<1> QED
  BY <1>1, <1>2, <1>3, <1>4, <1>5, <1>6, <1>7, <1>8, <1>9, <1>10 DEF
     Faults

(* The invariant is inductive: every safety property below rests on it. *)
THEOREM Invariance == Spec => []IInv
<1>1. Init => IInv
  <2>1. Init => Flags
    BY Zenon DEF Init, Flags
  <2>2. Init => Core
    BY SMT DEF Init
  <2> QED BY <2>1, <2>2 DEF IInv
<1>2. IInv /\ [Next]_vars => IInv'
  <2> SUFFICES ASSUME IInv, [Next]_vars PROVE IInv'
    OBVIOUS
  <2>1. Flags'
    BY FlagsStep DEF IInv
  <2>2. Core'
    <3>1. CASE UNCHANGED vars
      BY <3>1, SMT DEF IInv
    <3>2. CASE Next
      BY <3>2, CoreRun, CoreDropAp, CoreTryClient, CoreStopClient, CoreServeAp,
         CoreOutside DEF IInv, Next, SupervisorStep
    <3> QED BY <3>1, <3>2
  <2> QED BY <2>1, <2>2 DEF IInv
<1> QED BY <1>1, <1>2, PTL DEF Spec

(* Every variable keeps its type; in particular the attempts never pass    *)
(* client_attempts (try_client's loop).                                    *)
THEOREM TypeCorrect == Spec => []TypeOK
<1>1. IInv => TypeOK
  BY DEF IInv, TypeOK
<1> QED BY <1>1, Invariance, PTL

(* The station and the access point never hold the radio together, not     *)
(* even across a kill and a restart (try_client, serve_ap).                *)
THEOREM OneRadio == Spec => []RadioExclusive
<1>1. IInv => RadioExclusive
  BY DEF IInv
<1> QED BY <1>1, Invariance, PTL

(* No daemon outlives whoever is responsible for it (client.rs, ap.rs).    *)
THEOREM EveryDaemonOwned == Spec => []NoOrphans
<1>1. IInv => NoOrphans
  BY DEF IInv
<1> QED BY <1>1, Invariance, PTL

(* No session mistakes a leftover address for its own (connect_inner,      *)
(* ap::start: the flush that is not best effort).                          *)
THEOREM OwnAddresses == Spec => []AddressIsOurs
<1>1. IInv => AddressIsOurs
  BY DEF IInv
<1> QED BY <1>1, Invariance, PTL

(* The hook is told the truth while the supervisor runs (run()).           *)
THEOREM HookIsCurrent == Spec => []HookTells
<1>1. IInv => HookTells
  BY DEF IInv
<1> QED BY <1>1, Invariance, PTL

-----------------------------------------------------------------------------
(* The client is given up on, and the access point interrupted, only when  *)
(* the attempts or the interval are used up (try_client, serve_ap).        *)
Earned ==
  Running' =>
    /\ (state = "TryClient" /\ state' = "FallbackAp" =>
          attempt = ClientAttempts \/ event = "ClientConfigMissing")
    /\ (state = "FallbackAp" /\ state' = "TryClient" => elapsed = ApRetry)

(* Only the table changes the state of a running supervisor, and what it   *)
(* has told systemd; a session begins where its last daemon is spawned.    *)
LEMMA OnlyTransitionsMove ==
  ASSUME Core, Next, ~Transition, Running'
  PROVE  UNCHANGED <<state, ready>> /\ (ap' = ap \/ ap' = FALSE \/ SpawnHostapd)
<1>1. CASE Boot
  BY <1>1, SMT DEF Boot
<1>2. CASE Watch
  BY <1>2, SMT DEF Watch
<1>3. CASE StopHostapd
  BY <1>3, SMT DEF StopHostapd
<1>4. CASE AwaitHostapd
  BY <1>4, SMT DEF AwaitHostapd
<1>5. CASE StopDnsmasq
  BY <1>5, SMT DEF StopDnsmasq
<1>6. CASE AwaitDnsmasq
  BY <1>6, SMT DEF AwaitDnsmasq
<1>7. CASE FlushAp
  BY <1>7, SMT DEF FlushAp
<1>8. CASE StopAp
  BY <1>8, SMT DEF StopAp
<1>9. CASE Connect
  BY <1>9, SMT DEF Connect
<1>10. CASE FlushForClient
  BY <1>10, SMT DEF FlushForClient
<1>11. CASE LinkUpForClient
  BY <1>11, SMT DEF LinkUpForClient
<1>12. CASE SpawnWpa
  BY <1>12, SMT DEF SpawnWpa
<1>13. CASE Dhcp
  BY <1>13, SMT DEF Dhcp
<1>14. CASE ReadAddr
  BY <1>14, SMT DEF ReadAddr
<1>15. CASE DropWpa
  BY <1>15, SMT DEF DropWpa
<1>16. CASE AwaitDrop
  BY <1>16, SMT DEF AwaitDrop
<1>17. CASE StopClient
  BY <1>17, SMT DEF StopClient
<1>18. CASE AwaitClient
  BY <1>18, SMT DEF AwaitClient
<1>19. CASE FlushClient
  BY <1>19, SMT DEF FlushClient
<1>20. CASE EnsureAp
  BY <1>20, SMT DEF EnsureAp
<1>21. CASE LoadAp
  BY <1>21, SMT DEF LoadAp
<1>22. CASE FlushForAp
  BY <1>22, SMT DEF FlushForAp
<1>23. CASE AddApAddress
  BY <1>23, SMT DEF AddApAddress
<1>24. CASE LinkUpForAp
  BY <1>24, SMT DEF LinkUpForAp
<1>25. CASE SpawnDnsmasq
  BY <1>25, SMT DEF SpawnDnsmasq
<1>26. CASE SpawnHostapd
  <2>1. UNCHANGED <<state, ready>>
    BY <1>26, Zenon DEF SpawnHostapd
  <2> QED
    BY <1>26, <2>1
<1>27. CASE UndoDnsmasq
  BY <1>27, SMT DEF UndoDnsmasq
<1>28. CASE AwaitUndo
  BY <1>28, SMT DEF AwaitUndo
<1>29. CASE ServeUnhealthy
  BY <1>29, SMT DEF ServeUnhealthy
<1>30. CASE ServeEarly
  BY <1>30, SMT DEF ServeEarly
<1>31. CASE ServeDue
  BY <1>31, SMT DEF ServeDue
<1>32. CASE Launch
  BY <1>32, SMT DEF Launch
<1>33. CASE Kill
  BY <1>33, SMT DEF Kill
<1>34. CASE CgroupReap
  BY <1>34, SMT DEF CgroupReap
<1>35. CASE DaemonExit
  BY <1>35, SMT DEF DaemonExit
<1>36. CASE AddressLost
  BY <1>36, SMT DEF AddressLost
<1>37. CASE IfaceChange
  BY <1>37, SMT DEF IfaceChange
<1>38. CASE ClientConfChange
  BY <1>38, SMT DEF ClientConfChange
<1>39. CASE ApConfChange
  BY <1>39, SMT DEF ApConfChange
<1>40. CASE NetChange
  BY <1>40, SMT DEF NetChange
<1>41. CASE BecomeCalm
  BY <1>41, SMT DEF BecomeCalm
<1> QED
  BY <1>1, <1>2, <1>3, <1>4, <1>5, <1>6, <1>7, <1>8, <1>9, <1>10, <1>11,
     <1>12, <1>13, <1>14, <1>15, <1>16, <1>17, <1>18, <1>19, <1>20,
     <1>21, <1>22, <1>23, <1>24, <1>25, <1>26, <1>27, <1>28, <1>29,
     <1>30, <1>31, <1>32, <1>33, <1>34, <1>35, <1>36, <1>37, <1>38,
     <1>39, <1>40, <1>41 DEF Next, SupervisorStep, DropApStep,
     TryClientStep, StopClientStep, ServeApStep, Faults

THEOREM TransitionsAreEarned == Spec => EarnedTransitions
<1>1. IInv /\ [Next]_vars => [Earned]_vars
  <2> SUFFICES ASSUME IInv, Next, Running' PROVE Earned
    BY DEF Earned
  <2>1. CASE Transition
    BY <2>1, SMT DEF IInv, Transition, Earned
  <2>2. CASE ~Transition
    <3>1. UNCHANGED state
      BY <2>2, OnlyTransitionsMove DEF IInv
    <3> QED
      BY <3>1, SMT DEF IInv, Earned
  <2> QED BY <2>1, <2>2
<1> QED BY <1>1, Invariance, PTL DEF Spec, EarnedTransitions, Earned

-----------------------------------------------------------------------------
(* How far the supervisor can be from the end of the handler it is in, in  *)
(* calls: what is left of this round, and the rounds that may follow it.   *)
(* A round is an attempt, or a poll of the access point; the other         *)
(* handlers have one.  A poll that finds the connection up is no step.     *)

(* To the end of the round.  (stop_client is the last call of an attempt.) *)
Place ==
  [boot |-> 7, stop_ap |-> 6, stop_hostapd |-> 5, await_hostapd |-> 4,
   stop_dnsmasq |-> 3, await_dnsmasq |-> 2, flush_ap |-> 1,
   connect |-> 9, flush_for_client |-> 8, link_up_for_client |-> 7,
   spawn_wpa |-> 6, dhcp |-> 5, read_addr |-> 4, drop_wpa |-> 3,
   await_drop |-> 2, stop_client |-> 1,
   watch |-> 4, await_client |-> 2, flush_client |-> 1,
   ensure_ap |-> 14, load_ap |-> 13, flush_for_ap |-> 12,
   add_ap_address |-> 11, link_up_for_ap |-> 10, spawn_dnsmasq |-> 9,
   spawn_hostapd |-> 8, serve |-> 6, undo_dnsmasq |-> 2, await_undo |-> 1,
   decide |-> 0, down |-> 0, failed |-> 0]

(* In the rounds after it: the attempts that are left, the interval.  What  *)
(* follows a stop_client that another handler begins with is counted here.  *)
Rounds ==
  IF pc \in DropApPcs \cup {"boot", "stop_ap"}
  THEN IF state = "TryClient" THEN 9 * ClientAttempts ELSE 0
  ELSE IF pc \in TryPcs \/ (pc = "stop_client" /\ state = "TryClient")
  THEN 9 * (ClientAttempts - attempt)
  ELSE IF pc = "serve" THEN ApRetry - elapsed
  ELSE IF pc \in RaisePcs \ {"undo_dnsmasq", "await_undo"} THEN ApRetry
  ELSE IF pc = "stop_client" THEN IF state = "FallbackAp" THEN ApRetry + 14 ELSE 2
  ELSE 0

Left == Rounds + Place[pc]

USE DEF Left, Place, Rounds

(* It is a number of calls. *)
LEMMA LeftNat == Core => Left \in Nat
  BY SMT

(* Every call of dropping the access point is one less to make. *)
LEMMA LeftDropAp ==
  ASSUME Core, DropApStep
  PROVE  Left' < Left
<1>1. CASE StopHostapd
  BY <1>1, SMT DEF StopHostapd
<1>2. CASE AwaitHostapd
  BY <1>2, SMT DEF AwaitHostapd
<1>3. CASE StopDnsmasq
  BY <1>3, SMT DEF StopDnsmasq
<1>4. CASE AwaitDnsmasq
  BY <1>4, SMT DEF AwaitDnsmasq
<1>5. CASE FlushAp
  BY <1>5, SMT DEF FlushAp
<1> QED
  BY <1>1, <1>2, <1>3, <1>4, <1>5 DEF DropApStep

(* ... of an attempt: the next one has a higher number, and they end. *)
LEMMA LeftTryClient ==
  ASSUME Core, TryClientStep
  PROVE  Left' < Left
<1>1. CASE StopAp
  BY <1>1, SMT DEF StopAp
<1>2. CASE Connect
  <2>1. CASE clientConf
    <3>1. PICK ok \in Commands :
             Goto(IF ok THEN "flush_for_client" ELSE "stop_client")
      BY <1>2, <2>1 DEF Connect
    <3> QED
      BY <1>2, <2>1, <3>1, SMT DEF Connect
  <2>2. CASE ~clientConf
    BY <1>2, <2>2, SMT DEF Connect
  <2> QED
    BY <2>1, <2>2
<1>3. CASE FlushForClient
  BY <1>3, SMT DEF FlushForClient
<1>4. CASE LinkUpForClient
  BY <1>4, SMT DEF LinkUpForClient
<1>5. CASE SpawnWpa
  BY <1>5, SMT DEF SpawnWpa
<1>6. CASE Dhcp
  BY <1>6, SMT DEF Dhcp
<1>7. CASE ReadAddr
  BY <1>7, SMT DEF ReadAddr
<1>8. CASE DropWpa
  BY <1>8, SMT DEF DropWpa
<1>9. CASE AwaitDrop
  BY <1>9, SMT DEF AwaitDrop
<1> QED
  BY <1>1, <1>2, <1>3, <1>4, <1>5, <1>6, <1>7, <1>8, <1>9 DEF TryClientStep

(* ... of dropping the client. *)
LEMMA LeftStopClient ==
  ASSUME Core, StopClientStep
  PROVE  Left' < Left
<1>1. CASE StopClient
  BY <1>1, SMT DEF StopClient
<1>2. CASE AwaitClient
  BY <1>2, SMT DEF AwaitClient
<1>3. CASE FlushClient
  BY <1>3, SMT DEF FlushClient
<1> QED
  BY <1>1, <1>2, <1>3 DEF StopClientStep

(* ... of raising the access point, and each poll of it: time goes on. *)
LEMMA LeftServeAp ==
  ASSUME Core, ServeApStep
  PROVE  Left' < Left
<1>1. CASE EnsureAp
  BY <1>1, SMT DEF EnsureAp
<1>2. CASE LoadAp
  BY <1>2, SMT DEF LoadAp
<1>3. CASE FlushForAp
  BY <1>3, SMT DEF FlushForAp
<1>4. CASE AddApAddress
  BY <1>4, SMT DEF AddApAddress
<1>5. CASE LinkUpForAp
  BY <1>5, SMT DEF LinkUpForAp
<1>6. CASE SpawnDnsmasq
  BY <1>6, SMT DEF SpawnDnsmasq
<1>7. CASE SpawnHostapd
  BY <1>7, SMT DEF SpawnHostapd
<1>8. CASE UndoDnsmasq
  BY <1>8, SMT DEF UndoDnsmasq
<1>9. CASE AwaitUndo
  BY <1>9, SMT DEF AwaitUndo
<1>10. CASE ServeUnhealthy
  BY <1>10, SMT DEF ServeUnhealthy
<1>11. CASE ServeEarly
  BY <1>11, SMT DEF ServeEarly
<1>12. CASE ServeDue
  BY <1>12, SMT DEF ServeDue
<1> QED
  BY <1>1, <1>2, <1>3, <1>4, <1>5, <1>6, <1>7, <1>8, <1>9, <1>10, <1>11, <1>12
     DEF ServeApStep

(* ... of startup, and of the poll that finds the connection lost. *)
LEMMA LeftOthers ==
  ASSUME Core, Boot \/ (Watch /\ pc' # "watch")
  PROVE  Left' < Left
<1>1. CASE Boot
  BY <1>1, SMT DEF Boot
<1>2. CASE Watch /\ pc' # "watch"
  BY <1>2, SMT DEF Watch
<1> QED
  BY <1>1, <1>2

(* Nothing outside the supervisor gives it more to do. *)
LEMMA LeftOutside ==
  ASSUME Core, Launch \/ CgroupReap \/ Faults \/ BecomeCalm \/ UNCHANGED vars
  PROVE  \/ Left' = Left
         \/ ~Running /\ Launch
         \/ Left' < Left /\ Kill
<1>1. CASE Launch
  BY <1>1 DEF Launch
<1>2. CASE Kill
  <2>1. pc' = "down" /\ Left' = 0
    BY <1>2, SMT DEF Kill
  <2> QED
    BY <1>2, <2>1, LeftNat, SMT
<1>3. CASE CgroupReap \/ DaemonExit \/ AddressLost \/ IfaceChange \/ ClientConfChange
           \/ ApConfChange \/ NetChange \/ BecomeCalm \/ UNCHANGED vars
  <2>1. UNCHANGED <<pc, state, attempt, elapsed>>
    BY <1>3 DEF CgroupReap, DaemonExit, AddressLost, IfaceChange, ClientConfChange,
                ApConfChange, NetChange, BecomeCalm
  <2> QED
    BY <2>1
<1> QED
  BY <1>1, <1>2, <1>3 DEF Faults

(* No handler is entered with more than this to do. *)
Longest == IF state = "FallbackAp" THEN ApRetry + 15 ELSE 9 * ClientAttempts + 7

(* Every handler returns: each call brings the end of it nearer, except    *)
(* for the table, which enters the next one, and a poll of a connection    *)
(* that is up; and no fault sets it back (step() of run(); supervise.rs).  *)
HandlersReturn ==
  /\ [](Left \in 0..Longest)
  /\ [][/\ SupervisorStep => \/ Left' < Left
                             \/ Transition
                             \/ Watch /\ UNCHANGED vars
        /\ Left' > Left => Transition \/ Launch]_vars

(* Under any faults every handler ends within a number of calls that the   *)
(* settings bound, which is what Settles, Recovers and Alternates rest on. *)
THEOREM HandlersEnd == Spec => HandlersReturn
<1>1. IInv => Left \in 0..Longest
  BY SMT DEF IInv, Longest
<1> DEFINE Ends ==
       /\ SupervisorStep =>
            Left' < Left \/ Transition \/ (Watch /\ UNCHANGED vars)
       /\ Left' > Left => Transition \/ Launch
<1>2. IInv /\ IInv' /\ [Next]_vars => Ends
  <2> SUFFICES ASSUME IInv, IInv', [Next]_vars PROVE Ends
    OBVIOUS
  <2>1. Core /\ Left \in Nat /\ Left' \in Nat
    BY SMT DEF IInv
  <2> HIDE DEF Left
  <2>2. SupervisorStep =>
         Left' < Left \/ Transition \/ (Watch /\ pc' = "watch" /\ UNCHANGED env)
    BY <2>1, LeftDropAp, LeftTryClient, LeftStopClient, LeftServeAp, LeftOthers
       DEF SupervisorStep
  <2>3. Watch /\ pc' = "watch" /\ UNCHANGED env => UNCHANGED vars
    BY SMT DEF Watch
  <2>6. UNCHANGED vars => Left' = Left
    BY DEF Left
  <2>4. SupervisorStep \/ Launch \/ CgroupReap \/ Faults \/ BecomeCalm \/ UNCHANGED vars
    BY DEF Next
  <2>5. ~SupervisorStep => Left' = Left \/ Launch \/ Left' < Left
    BY <2>1, <2>4, LeftOutside
  <2> QED
    BY <2>1, <2>2, <2>3, <2>5, <2>6
<1> QED
  BY <1>1, <1>2, Invariance, PTL DEF Spec, HandlersReturn

(* Before READY=1 the supervisor is in its first handler. *)
Undecided == Running /\ ready = FALSE

(* What makes it so: there is no access point, nor ever was. *)
FirstTry == ready = TRUE \/ (state = "TryClient" /\ ap = FALSE)

(* Each step of a start that is undecided decides it, ends the process, or *)
(* brings the decision nearer; no fault defers it (notify_ready(), which   *)
(* what is ordered after the unit waits for).                              *)
Decides ==
  [][Undecided => \/ ready' = TRUE \/ ~Running'
                  \/ Left' < Left
                  \/ Left' = Left /\ ~SupervisorStep]_vars

(* The access point is raised only after the first decision. *)
LEMMA FirstTryStep ==
  ASSUME IInv, IInv', FirstTry, [Next]_vars
  PROVE  FirstTry'
<1> USE DEF IInv, FirstTry
<1>1. CASE ~Running'
  BY <1>1, Zenon DEF Flags
<1>2. CASE Running' /\ Transition
  <2>1. pc = "decide" /\ (ready' = (ready \/ NextState(event) \in {"ClientUp",
  "FallbackAp"}))
    BY <1>2 DEF Transition
  <2>2. CASE ready = TRUE
    <3>1. ready' = TRUE
      BY <2>1, <2>2, Zenon
    <3> QED  BY <3>1
  <2>3. CASE state = "TryClient"
    <3>1. NextState(event) \in {"ClientUp", "FallbackAp"}
      BY <2>1, <2>3, SMT
    <3> HIDE DEF NextState
    <3>2. ready' = TRUE
      BY <2>1, <3>1, Zenon
    <3> QED  BY <3>2
  <2> QED
    BY <2>2, <2>3
<1>3. CASE Running' /\ ~Transition /\ Next
  <2>1. UNCHANGED <<state, ready>> /\ (ap' = ap \/ ap' = FALSE \/ SpawnHostapd)
    BY <1>3, OnlyTransitionsMove
  <2>2. SpawnHostapd => state = "FallbackAp"
    BY SMT DEF SpawnHostapd
  <2> QED
    BY <2>1, <2>2
<1> QED
  BY <1>1, <1>2, <1>3

(* A step of an undecided supervisor. *)
LEMMA Deciding ==
  ASSUME IInv, IInv', FirstTry, [Next]_vars, Undecided
  PROVE  \/ ready' = TRUE \/ ~Running'
         \/ Left' < Left
         \/ Left' = Left /\ ~SupervisorStep
<1>1. Left \in Nat /\ Left' \in Nat
  BY SMT DEF IInv
<1> HIDE DEF Left
<1>2. CASE SupervisorStep
  <2>1. CASE Transition
    <3>1. pc = "decide" /\ (ready' = (ready \/ NextState(event) \in {"ClientUp",
    "FallbackAp"}))
      BY <2>1 DEF Transition
    <3>2. NextState(event) \in {"ClientUp", "FallbackAp"}
      BY <3>1, SMT DEF IInv, FirstTry, Undecided
    <3> HIDE DEF NextState
    <3>3. ready' = TRUE
      BY <3>1, <3>2, Zenon
    <3> QED
      BY <3>3
  <2>2. CASE ~Transition
    <3>1. ~(Watch /\ pc' = "watch")
      <4>1. state = "TryClient"
        BY DEF FirstTry, Undecided
      <4>2. Watch => state = "ClientUp"
        BY SMT DEF Watch, IInv
      <4> QED
        BY <4>1, <4>2
    <3> QED
      BY <1>2, <2>2, <3>1, LeftDropAp, LeftTryClient, LeftStopClient, LeftServeAp,
           LeftOthers
         DEF SupervisorStep, IInv
  <2> QED
    BY <2>1, <2>2
<1>3. CASE ~SupervisorStep
  BY <1>1, <1>3, LeftOutside DEF IInv, Next, Undecided, Kill
<1> QED
  BY <1>2, <1>3

(* A start is decided after 9 * ClientAttempts + 7 calls at the latest, or *)
(* the process is gone: the safety part of Settles.                        *)
THEOREM StartsAreDecided == Spec => Decides
<1>1. Init => FirstTry
  BY DEF Init, FirstTry
<1>2. IInv /\ IInv' /\ FirstTry /\ [Next]_vars => FirstTry'
  BY FirstTryStep
<1> DEFINE Closer == Undecided => \/ ready' = TRUE \/ ~Running'
                                  \/ Left' < Left
                                  \/ Left' = Left /\ ~SupervisorStep
<1>3. IInv /\ IInv' /\ FirstTry /\ [Next]_vars => Closer
  BY Deciding
<1> QED
  BY <1>1, <1>2, <1>3, Invariance, PTL DEF Spec, Decides

-----------------------------------------------------------------------------
(* The access point is up, and the supervisor content with it. *)
Serving ==
  /\ ap = TRUE /\ ApHealthy /\ state = "FallbackAp"
  /\ \/ pc \in {"stop_client", "ensure_ap", "serve"}
     \/ pc = "decide" /\ event = "ApHeld"

(* What takes it away: a fault, or credentials to try after the interval. *)
Interrupts == Kill \/ DaemonExit \/ (ServeDue /\ clientConf)

(* The access point is not interrupted under whoever repairs the robot     *)
(* over it, for any other reason (serve_ap: ApHeld keeps the session).     *)
OnlyInterruptedFor == [][Serving /\ ~Serving' => Interrupts]_vars

(* Re-entering FallbackAp with a session changes nothing of it. *)
LEMMA ServingStep ==
  ASSUME IInv, Serving, [Next]_vars, ~Interrupts
  PROVE  Serving'
<1> USE DEF IInv, Serving, Interrupts
<1>1. pc \in {"stop_client", "ensure_ap", "serve", "decide"} /\ client = FALSE
  BY DEF Flags
<1>2. CASE Transition
  BY <1>2, SMT DEF Transition
<1>3. CASE StopClient
  BY <1>1, <1>3, SMT DEF StopClient
<1>4. CASE EnsureAp
  BY <1>4, SMT DEF EnsureAp
<1>5. CASE ServeEarly
  BY <1>5, SMT DEF ServeEarly
<1>6. CASE ServeDue
  BY <1>6, SMT DEF ServeDue
<1>7. CASE AddressLost \/ IfaceChange \/ ClientConfChange \/ ApConfChange \/ NetChange
           \/ BecomeCalm \/ UNCHANGED vars
  <2>1. UNCHANGED <<pc, state, event, ap, proc>>
    BY <1>7, Zenon DEF AddressLost, IfaceChange, ClientConfChange, ApConfChange,
         NetChange, BecomeCalm
  <2> QED
    BY <2>1
<1>8. CASE CgroupReap \/ Launch
  <2>1. pc \in Stopped
    BY <1>8 DEF CgroupReap, Launch
  <2> QED
    BY <1>1, <2>1
<1>9. CASE ServeUnhealthy
  BY <1>9, SMT DEF ServeUnhealthy
<1>10. CASE Boot \/ Watch \/ DropApStep \/ TryClientStep \/ AwaitClient \/ FlushClient
            \/ LoadAp \/ FlushForAp \/ AddApAddress
            \/ LinkUpForAp \/ SpawnDnsmasq \/ SpawnHostapd \/ UndoDnsmasq \/ AwaitUndo
  <2> HIDE DEF Core
  <2>1. pc \notin {"stop_client", "ensure_ap", "serve", "decide"}
    BY <1>10, Zenon DEF Boot, Watch, DropApStep, TryClientStep, StopHostapd,
         AwaitHostapd, StopDnsmasq, AwaitDnsmasq, FlushAp, StopAp, Connect,
         FlushForClient, LinkUpForClient, SpawnWpa, Dhcp, ReadAddr, DropWpa, AwaitDrop,
         AwaitClient, FlushClient, LoadAp, FlushForAp, AddApAddress, LinkUpForAp,
         SpawnDnsmasq, SpawnHostapd, UndoDnsmasq, AwaitUndo
  <2> QED
    BY <1>1, <2>1
<1> QED
  BY <1>2, <1>3, <1>4, <1>5, <1>6, <1>7, <1>8, <1>9, <1>10
     DEF Next, SupervisorStep, StopClientStep, ServeApStep, Faults

(* A healthy access point is only ever taken down by a fault or for        *)
(* credentials (serve_ap).                                                 *)
THEOREM ApIsLeftAlone == Spec => OnlyInterruptedFor
<1>1. IInv /\ [Next]_vars => [Serving /\ ~Serving' => Interrupts]_vars
  BY ServingStep
<1> QED
  BY <1>1, Invariance, PTL DEF Spec, OnlyInterruptedFor

(* A connection whose address is there, or an access point with nothing to *)
(* retry with, once faults have ceased.                                    *)
Connected == pc = "watch" /\ iface = TRUE /\ addrs # {}
Held == calm = TRUE /\ (Connected \/ (Serving /\ clientConf = FALSE))

(* A poll that finds the address changes nothing. *)
LEMMA ConnectedStep ==
  ASSUME Core, calm = TRUE, Connected, [Next]_vars
  PROVE  Connected' /\ calm' = TRUE
<1> USE DEF Connected
<1>1. CASE Watch /\ UNCHANGED env
  BY <1>1, SMT DEF Watch
<1>2. CASE UNCHANGED vars
  BY <1>2
<1>3. Watch \/ ~SupervisorStep
  <2> HIDE DEF Core
  <2>1. ~(\/ Boot \/ Transition \/ DropApStep
          \/ TryClientStep \/ StopClientStep \/ ServeApStep)
    BY Zenon DEF Boot, Transition, DropApStep, TryClientStep, StopClientStep,
         ServeApStep, StopHostapd, AwaitHostapd, StopDnsmasq, AwaitDnsmasq, FlushAp,
         StopAp, Connect, FlushForClient, LinkUpForClient, SpawnWpa, Dhcp, ReadAddr,
         DropWpa, AwaitDrop, StopClient, AwaitClient, FlushClient, EnsureAp, LoadAp,
         ServeUnhealthy, ServeEarly, ServeDue, FlushForAp, AddApAddress, LinkUpForAp,
         SpawnDnsmasq, SpawnHostapd, UndoDnsmasq, AwaitUndo
  <2> QED
    BY <2>1 DEF SupervisorStep
<1>4. ~Launch /\ ~CgroupReap /\ ~Faults /\ ~BecomeCalm
  BY Zenon DEF Launch, CgroupReap, Faults, BecomeCalm, Kill, DaemonExit, AddressLost,
     IfaceChange, ClientConfChange, ApConfChange, NetChange
<1> QED
  BY <1>1, <1>2, <1>3, <1>4 DEF Next, SupervisorStep

(* Once faults have ceased, what is held is held for ever: the safety part *)
(* of HoldsAp (watch_client, serve_ap).                                    *)
THEOREM HeldForGood == Spec => [](Held => []Held)
<1>1. ASSUME IInv, Held, [Next]_vars PROVE Held'
  <2>1. CASE Connected
    BY <1>1, <2>1, ConnectedStep DEF Held, IInv
  <2>2. CASE Serving /\ clientConf = FALSE
    <3>1. ~Interrupts /\ calm' = TRUE /\ clientConf' = FALSE
      BY <1>1, <2>2, Zenon DEF Held, Interrupts, Next, SupervisorStep, Launch,
           CgroupReap, Faults, BecomeCalm, Kill, DaemonExit, AddressLost, IfaceChange,
           ClientConfChange, ApConfChange, NetChange
    <3> QED
      BY <1>1, <2>2, <3>1, ServingStep DEF Held
  <2> QED
    BY <1>1, <2>1, <2>2 DEF Held
<1>2. IInv /\ Held /\ [Next]_vars => Held'
  BY <1>1
<1> QED
  BY <1>2, Invariance, PTL DEF Spec

(* An attempt that is going to succeed, from connect() on: faults have     *)
(* ceased, and the network and its credentials are there.                  *)
OnTrack ==
  /\ calm = TRUE /\ iface = TRUE /\ clientConf = TRUE /\ net = TRUE
  /\ \/ pc \in {"connect", "flush_for_client", "link_up_for_client"}
     \/ pc = "spawn_wpa" /\ link = TRUE
     \/ pc = "dhcp" /\ link = TRUE /\ proc["wpa_supplicant"] = "running"
     \/ pc = "read_addr" /\ addrs # {}
     \/ pc = "decide" /\ event = "ClientConnected" /\ addrs # {}
     \/ Connected

(* Each call of it succeeds, and leaves what the next one needs. *)
LEMMA OnTrackStep ==
  ASSUME IInv, OnTrack, [Next]_vars
  PROVE  OnTrack'
<1> USE DEF IInv, OnTrack, Connected
<1>1. UNCHANGED env /\ ~Launch /\ ~CgroupReap /\ ~Faults /\ ~BecomeCalm
  BY Zenon DEF Next, SupervisorStep, Launch, CgroupReap, Faults, BecomeCalm, Kill,
     DaemonExit, AddressLost, IfaceChange, ClientConfChange, ApConfChange, NetChange
<1>2. CASE Watch
  BY <1>1, <1>2, SMT DEF Watch
<1>3. CASE Transition
  BY <1>1, <1>3, SMT DEF Transition
<1>4. CASE Connect
  <2>1. PICK ok \in Commands :
           Goto(IF ok THEN "flush_for_client" ELSE "stop_client")
    BY <1>4 DEF Connect
  <2>2. pc' \in {"flush_for_client"} \/ pc \notin {"connect"}
    BY <2>1, SMT
  <2> QED
    BY <1>1, <1>4, <2>2, SMT DEF Connect
<1>5. CASE FlushForClient
  BY <1>1, <1>5, SMT DEF FlushForClient
<1>6. CASE LinkUpForClient
  <2>1. pc = "link_up_for_client" /\ Commands = {TRUE}
    BY <1>6, SMT DEF LinkUpForClient
  <2>2. PICK ok \in Commands :
           link' = (link \/ ok) /\ Goto(IF ok THEN "spawn_wpa" ELSE "stop_client")
    BY <1>6, Zenon DEF LinkUpForClient
  <2>3. ok = TRUE
    BY <2>1, <2>2
  <2>4. link' = TRUE
    BY <2>2, <2>3, Zenon
  <2>5. pc' = "spawn_wpa"
    BY <2>2, <2>3
  <2> QED
    BY <1>1, <2>4, <2>5
<1>7. CASE SpawnWpa
  BY <1>1, <1>7, SMT DEF SpawnWpa
<1>8. CASE Dhcp
  <2>1. /\ pc = "dhcp" /\ link = TRUE
        /\ proc["wpa_supplicant"] = "running" /\ Commands = {TRUE}
    BY <1>8, SMT DEF Dhcp
  <2>2. PICK ok \in Commands :
           addrs' = IF ok /\ link /\ net /\ proc["wpa_supplicant"] = "running"
                    THEN addrs \cup {"lease"} ELSE addrs
    BY <1>8, Zenon DEF Dhcp
  <2>3. addrs' # {}
    BY <2>1, <2>2
  <2>4. pc' = "read_addr"
    BY <1>8 DEF Dhcp
  <2> QED
    BY <1>1, <2>3, <2>4
<1>9. CASE ReadAddr
  BY <1>1, <1>9, SMT DEF ReadAddr
<1>10. CASE UNCHANGED vars
  BY <1>10
<1>11. ~(\/ Boot \/ DropApStep \/ StopAp \/ DropWpa \/ AwaitDrop
         \/ StopClientStep \/ ServeApStep)
  <2> HIDE DEF Core
  <2> QED
    BY Zenon DEF Boot, DropApStep, StopClientStep, ServeApStep,
     StopHostapd, AwaitHostapd, StopDnsmasq, AwaitDnsmasq, FlushAp, StopAp, DropWpa,
     AwaitDrop, StopClient, AwaitClient, FlushClient, EnsureAp, LoadAp, ServeUnhealthy,
     ServeEarly, ServeDue, FlushForAp, AddApAddress, LinkUpForAp, SpawnDnsmasq,
     SpawnHostapd, UndoDnsmasq, AwaitUndo
<1> QED
  BY <1>1, <1>2, <1>3, <1>4, <1>5, <1>6, <1>7, <1>8, <1>9, <1>10, <1>11
     DEF Next, SupervisorStep, TryClientStep

(* An attempt begun once faults have ceased connects, and the connection   *)
(* is kept: it never leaves this track, and HandlersEnd says that it gets  *)
(* to its end (connect_inner).  The safety part of Recovers.               *)
THEOREM AttemptsSucceed == Spec => [](OnTrack => []OnTrack)
<1>1. IInv /\ OnTrack /\ [Next]_vars => OnTrack'
  BY OnTrackStep
<1> QED
  BY <1>1, Invariance, PTL DEF Spec

HIDE DEF Left, Place, Rounds

-----------------------------------------------------------------------------
(* The refinement.  Each step of the supervisor, of systemd and of the     *)
(* surroundings is a step of WifiService or leaves its two variables       *)
(* alone.                                                                  *)
USE DEF Mode, Role, Service!Next, Service!vars, Service!Launch, Service!Join,
        Service!Serve, Service!Release, Service!Connected, Service!Lost,
        Service!GiveUp, Service!Retry, Service!Stop

(* Startup launches the service; the table changes its mode. *)
LEMMA RefineRun ==
  ASSUME Core, Boot \/ Transition \/ Watch, UNCHANGED env
  PROVE  [Service!Next]_Service!vars
<1>1. CASE Boot
  BY <1>1, SMT DEF Boot
<1>2. CASE Transition
  BY <1>2, SMT DEF Transition
<1>3. CASE Watch
  BY <1>3, SMT DEF Watch
<1> QED
  BY <1>1, <1>2, <1>3

(* The access point releases the radio. *)
LEMMA RefineDropAp ==
  ASSUME Core, DropApStep, UNCHANGED env
  PROVE  [Service!Next]_Service!vars
<1>1. CASE StopHostapd
  BY <1>1, SMT DEF StopHostapd
<1>2. CASE AwaitHostapd
  BY <1>2, SMT DEF AwaitHostapd
<1>3. CASE StopDnsmasq
  BY <1>3, SMT DEF StopDnsmasq
<1>4. CASE AwaitDnsmasq
  BY <1>4, SMT DEF AwaitDnsmasq
<1>5. CASE FlushAp
  BY <1>5, SMT DEF FlushAp
<1> QED
  BY <1>1, <1>2, <1>3, <1>4, <1>5 DEF DropApStep

(* A client attempt joins with the radio idle, and releases it. *)
LEMMA RefineTryClient ==
  ASSUME Core, TryClientStep, UNCHANGED env
  PROVE  [Service!Next]_Service!vars
<1>1. CASE StopAp
  BY <1>1, SMT DEF StopAp
<1>2. CASE Connect
  BY <1>2, SMT DEF Connect
<1>3. CASE FlushForClient
  BY <1>3, SMT DEF FlushForClient
<1>4. CASE LinkUpForClient
  BY <1>4, SMT DEF LinkUpForClient
<1>5. CASE SpawnWpa
  BY <1>5, SMT DEF SpawnWpa
<1>6. CASE Dhcp
  BY <1>6, SMT DEF Dhcp
<1>7. CASE ReadAddr
  BY <1>7, SMT DEF ReadAddr
<1>8. CASE DropWpa
  BY <1>8, SMT DEF DropWpa
<1>9. CASE AwaitDrop
  BY <1>9, SMT DEF AwaitDrop
<1> QED
  BY <1>1, <1>2, <1>3, <1>4, <1>5, <1>6, <1>7, <1>8, <1>9 DEF
     TryClientStep

(* The station releases the radio. *)
LEMMA RefineStopClient ==
  ASSUME Core, StopClientStep, UNCHANGED env
  PROVE  [Service!Next]_Service!vars
<1>1. CASE StopClient
  BY <1>1, SMT DEF StopClient
<1>2. CASE AwaitClient
  BY <1>2, SMT DEF AwaitClient
<1>3. CASE FlushClient
  BY <1>3, SMT DEF FlushClient
<1> QED
  BY <1>1, <1>2, <1>3 DEF StopClientStep

(* The access point serves with the radio idle. *)
LEMMA RefineServeAp ==
  ASSUME Core, ServeApStep, UNCHANGED env
  PROVE  [Service!Next]_Service!vars
<1>1. CASE EnsureAp
  BY <1>1, SMT DEF EnsureAp
<1>2. CASE LoadAp
  BY <1>2, SMT DEF LoadAp
<1>3. CASE FlushForAp
  BY <1>3, SMT DEF FlushForAp
<1>4. CASE AddApAddress
  BY <1>4, SMT DEF AddApAddress
<1>5. CASE LinkUpForAp
  BY <1>5, SMT DEF LinkUpForAp
<1>6. CASE SpawnDnsmasq
  BY <1>6, SMT DEF SpawnDnsmasq
<1>7. CASE SpawnHostapd
  BY <1>7, SMT DEF SpawnHostapd
<1>8. CASE UndoDnsmasq
  BY <1>8, SMT DEF UndoDnsmasq
<1>9. CASE AwaitUndo
  BY <1>9, SMT DEF AwaitUndo
<1>10. CASE ServeUnhealthy
  BY <1>10, SMT DEF ServeUnhealthy
<1>11. CASE ServeEarly
  BY <1>11, SMT DEF ServeEarly
<1>12. CASE ServeDue
  BY <1>12, SMT DEF ServeDue
<1> QED
  BY <1>1, <1>2, <1>3, <1>4, <1>5, <1>6, <1>7, <1>8, <1>9, <1>10, <1>11,
     <1>12 DEF ServeApStep

(* A kill stops the service; a daemon that exits releases the radio. *)
LEMMA RefineOutside ==
  ASSUME Core, Launch \/ CgroupReap \/ Faults \/ BecomeCalm
  PROVE  [Service!Next]_Service!vars
<1>1. CASE Launch
  BY <1>1, SMT DEF Launch
<1>2. CASE Kill
  BY <1>2, SMT DEF Kill
<1>3. CASE CgroupReap
  BY <1>3, SMT DEF CgroupReap
<1>4. CASE DaemonExit
  BY <1>4, SMT DEF DaemonExit
<1>5. CASE AddressLost
  BY <1>5, SMT DEF AddressLost
<1>6. CASE IfaceChange
  BY <1>6, SMT DEF IfaceChange
<1>7. CASE ClientConfChange
  BY <1>7, SMT DEF ClientConfChange
<1>8. CASE ApConfChange
  BY <1>8, SMT DEF ApConfChange
<1>9. CASE NetChange
  BY <1>9, SMT DEF NetChange
<1>10. CASE BecomeCalm
  BY <1>10, SMT DEF BecomeCalm
<1> QED
  BY <1>1, <1>2, <1>3, <1>4, <1>5, <1>6, <1>7, <1>8, <1>9, <1>10 DEF
     Faults

HIDE DEF Mode, Role, Service!Next, Service!vars

(* The stack implements WifiService. *)
THEOREM Refinement == Spec => ImplementsService
<1>1. Init => Service!Init
  BY SMT DEF Init, Mode, Role, Service!Init
<1>2. IInv /\ [Next]_vars => [Service!Next]_Service!vars
  <2> SUFFICES ASSUME IInv, [Next]_vars PROVE [Service!Next]_Service!vars
    OBVIOUS
  <2>1. CASE UNCHANGED vars
    BY <2>1, SMT DEF Mode, Role, Service!vars
  <2>2. CASE Next
    BY <2>2, RefineRun, RefineDropAp, RefineTryClient, RefineStopClient,
       RefineServeAp, RefineOutside DEF IInv, Next, SupervisorStep
  <2> QED BY <2>1, <2>2
<1> QED BY <1>1, <1>2, Invariance, PTL DEF Spec, ImplementsService

=============================================================================
