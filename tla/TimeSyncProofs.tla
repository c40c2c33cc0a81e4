--------------------------- MODULE TimeSyncProofs --------------------------
(***************************************************************************)
(* The SNTP client and the hub's clock together.  Each was specified with  *)
(* the other as an environment that may do anything: the composition keeps *)
(* both specifications, so what is proved of each alone holds of the two.  *)
(***************************************************************************)
EXTENDS TimeSync, DeviceProofs, NetProofs, FiniteSetTheorems, FunctionTheorems

---------------------------------------------------------------------------
(* The client's side: to it a hub tick is the command being taken. *)

LEMMA SyncStepOfClient == [SyncNext]_syncVars => [SntpNext]_sntpVars
<1> SUFFICES ASSUME [SyncNext]_syncVars PROVE [SntpNext]_sntpVars
  OBVIOUS
<1>1. CASE Net \/ ClientStep
  BY <1>1 DEF Net, ClientStep, SntpNext
<1>2. CASE Device
  BY <1>2 DEF Device, ChipSecond, OscillatorStops, clientVars, sntpVars, network, attempt
<1>3. ASSUME NEW due \in BOOLEAN, HubTick(due)
      PROVE  Consumed
  BY <1>3 DEF HubTick, HubRtc, Consumed, clientVars, network, attempt
<1>4. CASE UNCHANGED syncVars
  BY <1>4 DEF syncVars, clientVars, rtcVars, sntpVars, network, attempt
<1>5. QED BY <1>1, <1>2, <1>3, <1>4 DEF SyncNext, SntpNext

(* In the composition the client runs as its own specification says. *)
THEOREM ClientKeepsItsSpec == SyncSpec => SntpInit /\ [][SntpNext]_sntpVars
<1>1. SyncInit => SntpInit
  BY DEF SyncInit
<1>2. QED BY <1>1, SyncStepOfClient, PTL DEF SyncSpec

LEMMA SyncKeepsClientTypes == SyncSpec => []SntpTypeOK
<1>1. SntpInit => SntpTypeOK
  <2>1. <<>> \in Seq(Datagrams) /\ 0 \in Moments
    BY EpochAssumption DEF Moments
  <2>2. QED BY <2>1 DEF SntpInit, SntpTypeOK
<1>2. QED BY <1>1, SntpTypeStep, ClientKeepsItsSpec, PTL

---------------------------------------------------------------------------
(* The clock's side: to it the client is whoever posts commands.  It takes *)
(* the client's type to know that 0, no command, is never posted.          *)

LEMMA ClientPostsCommands ==
  ASSUME SntpTypeOK, ClientStep
  PROVE  (\E e \in Commands : PostEpoch(e)) \/ UNCHANGED rtcVars
<1>1. CASE Synced
  <2>1. RTC_SET_EPOCH' \in Commands
    BY <1>1, SyncedKeeps
  <2>2. PostEpoch(RTC_SET_EPOCH')
    BY DEF ClientStep, PostEpoch
  <2>3. QED BY <2>1, <2>2
<1>2. CASE ~Synced
  BY <1>2 DEF ClientStep, sntp_task, SyncOnce, ConfigUp, Requested, NotRequested,
              ReplyRefused, TimedOut, Wakes, attempt, network, rtcVars
<1>3. QED BY <1>1, <1>2

LEMMA SyncStepOfClock ==
  ASSUME SntpTypeOK, [SyncNext]_syncVars
  PROVE  [RtcNext]_rtcVars
<1>1. CASE Net
  BY <1>1 DEF Net, Network, ConfigChanges, Disturbed, Arrives, Delivered, Lost, rtcVars
<1>2. CASE ClientStep
  BY <1>2, ClientPostsCommands DEF RtcNext
<1>3. CASE Device
  BY <1>3 DEF Device, RtcNext
<1>4. ASSUME NEW due \in BOOLEAN, HubTick(due)
      PROVE  RtcTick(due)
  BY <1>4 DEF HubTick, RtcTick
<1>5. CASE UNCHANGED syncVars
  BY <1>5 DEF syncVars
<1>6. QED BY <1>1, <1>2, <1>3, <1>4, <1>5 DEF SyncNext, RtcNext

(* In the composition the clock is handled as its own specification says:  *)
(* whatever the network delivers, the hub is never told to set the clock   *)
(* to a moment the cell cannot hold, nor by a store of 0.                  *)
THEOREM ClockKeepsItsSpec == SyncSpec => RtcSpec
<1>1. SyncInit => RtcInit
  BY DEF SyncInit
<1>2. QED BY <1>1, SyncStepOfClock, SyncKeepsClientTypes, PTL DEF SyncSpec, RtcSpec

---------------------------------------------------------------------------
(* End to end, for every offset, era and network: a success leaves a       *)
(* command behind, a command taken without a fault is what the UI shows,   *)
(* and a time shown as valid comes from a clock set as a whole (if a       *)
(* refused set burst writes nothing).                                      *)
THEOREM TimeOfDayEndToEnd ==
  SyncSpec => /\ SuccessQueuesCommand
              /\ CleanSetIsShown
              /\ [](~TornWrites => TrustedTime)
<1>1. SntpTypeOK /\ [SntpNext]_sntpVars
        => [sntp_at # "resync" /\ sntp_at' = "resync" => RTC_SET_EPOCH' # 0]_sntpVars
  BY SuccessStep
<1>2. SyncSpec => SuccessQueuesCommand
  BY <1>1, ClientKeepsItsSpec, SyncKeepsClientTypes, PTL DEF SuccessQueuesCommand
<1>3. QED
  BY <1>2, ClockKeepsItsSpec, ShownTimeIsTrusted, CleanSetReachesScreen, PTL

---------------------------------------------------------------------------
(* Liveness of the client and the clock.                                   *)

(* The timestamps of the servers have not wrapped.                         *)
EraHolds == MaxUtc + NtpToY2k < NtpWrap

Usable(d) == d.fresh /\ InEra(d)

(* The attempt under way will be decided by the answer to its own request: *)
(* owed, under way or received.                                            *)
FirstReply ==
  \/ owed /\ wire = {} /\ rx = <<>>
  \/ ~owed /\ rx = <<>> /\ \E d \in wire : wire = {d} /\ Usable(d)
  \/ ~owed /\ wire = {} /\ rx # <<>> /\ Usable(Head(rx))

Clean == IF sntp_at = "reply" THEN FirstReply ELSE sntp_at # "retry" /\ wire = {}

(* Only an attempt under way has a socket to receive with. *)
Idle == sntp_at # "reply" => rx = <<>>

LEMMA IdleStep ==
  ASSUME SntpTypeOK, Idle, [SntpNext]_sntpVars
  PROVE  Idle'
<1>1. CASE sntp_task
  BY <1>1 DEF Idle, sntp_task, ConfigUp, SyncOnce, Requested, NotRequested, Synced, ReplyRefused,
              TimedOut, SocketDropped, Wakes, attempt
<1>2. CASE ~sntp_task
  BY <1>2 DEF Idle, SntpNext, Network, ConfigChanges, Disturbed, Arrives, Delivered, Lost, Consumed,
              attempt, sntpVars
<1>3. QED BY <1>1, <1>2

(* What a server whose clock is right sends passes every check. *)
LEMMA ServersAreUsable ==
  ASSUME EraHolds, NEW utc \in 0 .. MaxUtc
  PROVE  Usable(Answer(Timestamp(utc), TRUE))
<1>1. utc + NtpToY2k \in Nat /\ utc + NtpToY2k < NtpWrap /\ NtpWrap \in Nat
  BY SntpAssumption DEF EraHolds
<1>2. Timestamp(utc) = utc + NtpToY2k
  BY <1>1 DEF Timestamp
<1>3. QED BY <1>1, <1>2, SntpAssumption DEF Usable, InEra, Answer

(* In a calm network the answer to the next request comes, comes alone and *)
(* is taken, once an attempt has begun with nothing left under way.        *)
LEMMA CleanStep ==
  ASSUME SntpTypeOK, Idle, EraHolds, Clean, calm, calm', [SntpNext]_sntpVars
  PROVE  Clean'
<1> USE DEF Clean, FirstReply, Idle
<1>1. CASE Network
  <2>1. CASE ConfigChanges
    BY <2>1 DEF ConfigChanges, attempt
  <2>2. ASSUME NEW d \in Datagrams, Arrives(d)
        PROVE  Clean'
    <3>1. PICK utc \in 0 .. MaxUtc : d = Answer(Timestamp(utc), TRUE)
      BY <2>2 DEF Arrives
    <3>2. Usable(d)
      BY <3>1, ServersAreUsable
    <3>3. sntp_at = "reply" /\ owed
      BY <2>2, <3>1 DEF Arrives, Answer
    <3>4. wire' = {d} /\ rx' = <<>> /\ owed' = FALSE /\ sntp_at' = "reply"
      BY <2>2, <3>3 DEF Arrives, attempt
    <3>5. QED BY <3>2, <3>4
  <2>3. ASSUME NEW d \in Datagrams, Delivered(d)
        PROVE  Clean'
    <3>1. sntp_at = "reply" /\ rx = <<>> /\ ~owed /\ wire = {d} /\ Usable(d)
      BY <2>3 DEF Delivered
    <3>2. rx' = Append(<<>>, d)
      BY <2>3, <3>1, SntpAssumption DEF Delivered
    <3>3. rx' # <<>> /\ Head(rx') = d
      BY <3>2
    <3>4. wire' = {} /\ sntp_at' = "reply" /\ ~owed'
      BY <2>3, <3>1 DEF Delivered
    <3>5. QED BY <3>1, <3>3, <3>4
  <2>4. QED BY <1>1, <2>1, <2>2, <2>3 DEF Network, Disturbed, Lost
<1>2. CASE ConfigUp
  BY <1>2 DEF ConfigUp, network, attempt
<1>3. CASE Requested
  BY <1>3 DEF Requested, attempt
<1>4. CASE Synced
  BY <1>4 DEF Synced, network
<1>5. CASE NotRequested \/ ReplyRefused \/ TimedOut
  BY <1>5 DEF NotRequested, ReplyRefused, TimedOut, Usable
<1>6. CASE Wakes
  BY <1>6 DEF Wakes, network
<1>7. CASE Consumed \/ UNCHANGED sntpVars
  BY <1>7 DEF Consumed, sntpVars, network, attempt
<1>8. QED BY <1>1, <1>2, <1>3, <1>4, <1>5, <1>6, <1>7 DEF SntpNext, sntp_task, SyncOnce

---------------------------------------------------------------------------
(* What the network and the two tasks wait for.  tlapm does not reason     *)
(* about ENABLED, so each theorem has as its hypothesis that these guards  *)
(* enable the five actions SyncSpec is fair to; it holds in every state    *)
(* that can be reached.                                                    *)

ConfigReady == calm /\ ~config_up
AnswerReady == calm /\ owed /\ sntp_at = "reply" /\ wire = {}
DeliveryReady == calm /\ wire # {}
ClientReady ==
  \/ sntp_at = "config" /\ config_up
  \/ sntp_at = "dns"
  \/ sntp_at = "reply" /\ (rx # <<>> \/ (wire = {} /\ ~owed))
  \/ sntp_at \in {"resync", "retry"} /\ wire = {}
HubReady == RTC_SET_EPOCH # 0

SyncCanStep ==
  /\ ConfigReady => ENABLED <<calm /\ ConfigChanges>>_sntpVars
  /\ AnswerReady => ENABLED <<calm /\ \E d \in Datagrams : Arrives(d)>>_sntpVars
  /\ DeliveryReady => ENABLED <<calm /\ \E d \in Datagrams : Delivered(d)>>_sntpVars
  /\ ClientReady => ENABLED <<ClientStep>>_syncVars
  /\ HubReady => ENABLED <<HubTick(TRUE)>>_syncVars

LEMMA IdleAlways == SyncSpec => []Idle
<1>1. SntpInit => Idle
  BY DEF SntpInit, Idle
<1>2. SntpTypeOK /\ Idle /\ [SntpNext]_sntpVars => Idle'
  BY IdleStep
<1>3. QED BY <1>1, <1>2, ClientKeepsItsSpec, SyncKeepsClientTypes, PTL

(* The two steps of a calm network that the client can notice. *)
Arriving ==
  /\ sntp_at = "reply" /\ owed /\ ~owed'
  /\ wire' # {} /\ UNCHANGED <<sntp_at, config_up, rx, stale>>
Delivering ==
  /\ wire # {}
  /\ IF sntp_at = "reply" THEN rx' # <<>> ELSE rx' = rx
  /\ UNCHANGED <<sntp_at, config_up, owed, stale>>

(* What a calm network may do to the client. *)
LEMMA CalmSteps ==
  ASSUME SntpTypeOK, calm, calm', [SntpNext]_sntpVars
  PROVE  \/ sntp_task \/ Arriving \/ Delivering
         \/ /\ UNCHANGED <<sntp_at, owed, wire, rx, stale>>
            /\ config_up => config_up'
<1>1. CASE ConfigChanges
  BY <1>1 DEF ConfigChanges, attempt
<1>2. ASSUME NEW d \in Datagrams, Arrives(d)
      PROVE  Arriving
  <2>1. d.kind = "time" /\ d.fresh
    BY <1>2 DEF Arrives, Answer
  <2>2. QED BY <1>2, <2>1 DEF Arrives, Arriving, attempt
<1>3. ASSUME NEW d \in Datagrams, Delivered(d)
      PROVE  Delivering
  <2>1. CASE sntp_at = "reply"
    <3>1. rx' # <<>>
      <4>1. CASE Len(rx) < RxSlots
        <5>1. rx' = Append(rx, d)
          BY <1>3, <2>1, <4>1 DEF Delivered
        <5>2. QED BY <5>1 DEF SntpTypeOK
      <4>2. CASE ~(Len(rx) < RxSlots)
        <5>1. rx' = rx
          BY <1>3, <4>2 DEF Delivered
        <5>2. Len(rx) # 0
          BY <4>2, SntpAssumption
        <5>3. QED BY <5>1, <5>2
      <4>3. QED BY <4>1, <4>2
    <3>2. QED BY <1>3, <2>1, <3>1 DEF Delivered, Delivering
  <2>2. CASE sntp_at # "reply"
    BY <1>3, <2>2 DEF Delivered, Delivering
  <2>3. QED BY <2>1, <2>2
<1>4. CASE Consumed \/ UNCHANGED sntpVars
  BY <1>4 DEF Consumed, sntpVars, network, attempt
<1>5. ~Disturbed /\ \A d \in Datagrams : ~Lost(d)
  BY DEF Disturbed, Lost
<1>6. QED BY <1>1, <1>2, <1>3, <1>4, <1>5 DEF SntpNext, Network

---------------------------------------------------------------------------
(* No attempt and no wait for a configuration lasts for ever in a calm     *)
(* network: every request is answered, or the attempt times out.           *)

Calm == calm
AtConfig == sntp_at = "config"
AtDns == sntp_at = "dns"
Collecting == sntp_at = "reply"
Sleeping == sntp_at \in {"resync", "retry"}

LEMMA AttemptsEnd ==
  SyncSpec /\ []SyncCanStep => (<>[]Calm => []<>Sleeping)
<1> DEFINE Step == SntpTypeOK /\ SntpTypeOK' /\ Calm /\ Calm' /\ [SntpNext]_sntpVars
           Configured == config_up
           Received == rx # <<>>
           Coming == wire # {} /\ rx = <<>>
           Awaited == wire = {} /\ rx = <<>> /\ owed
           Hopeless == wire = {} /\ rx = <<>> /\ ~owed
<1> USE DEF Calm, AtConfig, AtDns, Collecting, Sleeping, sntp_task, ConfigUp, SyncOnce, Requested,
            NotRequested, Synced, ReplyRefused, TimedOut, Wakes, Arriving, Delivering, network
<1>1. /\ SntpTypeOK => AtConfig \/ AtDns \/ Collecting \/ Sleeping
      /\ ~(Collecting /\ Sleeping)
  BY DEF SntpTypeOK
<1>2. Received \/ Coming \/ Awaited \/ Hopeless
  BY DEF SntpTypeOK
<1>3. Step /\ Configured => Configured'
  BY CalmSteps
<1>4. Step /\ <<calm /\ ConfigChanges>>_sntpVars => ~(~Configured /\ ~Configured')
  BY DEF ConfigChanges
<1>5. Calm /\ ~Configured => ConfigReady
  BY DEF ConfigReady
<1>6. Step /\ AtConfig => AtConfig' \/ AtDns'
  BY CalmSteps
<1>7. Step /\ AtDns => AtDns' \/ Collecting'
  BY CalmSteps
<1>8. Step /\ Collecting => Collecting' \/ Sleeping'
  BY CalmSteps
<1>9. Step /\ Sleeping => Sleeping' \/ AtConfig'
  BY CalmSteps
<1>10. Step /\ Collecting /\ Received => (Collecting' /\ Received') \/ Sleeping'
  BY CalmSteps
<1>11. Step /\ Collecting /\ Coming => (Collecting' /\ (Coming' \/ Received')) \/ Sleeping'
  BY CalmSteps
<1>12. Step /\ Collecting /\ Awaited => (Collecting' /\ (Awaited' \/ Coming')) \/ Sleeping'
  BY CalmSteps
<1>13. Step /\ Collecting /\ Hopeless => (Collecting' /\ Hopeless') \/ Sleeping'
  BY CalmSteps
<1>14. Step /\ <<ClientStep>>_syncVars =>
         /\ ~(AtConfig /\ AtConfig') /\ ~(AtDns /\ AtDns')
         /\ ~(Collecting /\ Collecting')
  BY DEF ClientStep
<1>15. Step /\ <<calm /\ \E d \in Datagrams : Delivered(d)>>_sntpVars =>
         ~(Collecting /\ Coming /\ Collecting' /\ Coming')
  <2>1. SUFFICES ASSUME SntpTypeOK, Collecting, Coming, NEW d \in Datagrams, Delivered(d)
                 PROVE  rx' # <<>>
    OBVIOUS
  <2>2. rx' = Append(<<>>, d)
    BY <2>1, SntpAssumption DEF Delivered
  <2>3. QED BY <2>2
<1>16. Step /\ <<calm /\ \E d \in Datagrams : Arrives(d)>>_sntpVars =>
         ~(Collecting /\ Awaited /\ Collecting' /\ Awaited')
  BY DEF Arrives
<1>17. (AtConfig /\ Configured) \/ AtDns \/ (Collecting /\ (Received \/ Hopeless)) => ClientReady
  BY DEF ClientReady
<1>18. Calm /\ Collecting /\ Coming => DeliveryReady
  BY DEF DeliveryReady
<1>19. Calm /\ Collecting /\ Awaited => AnswerReady
  BY DEF AnswerReady
<1> HIDE DEF Calm, AtConfig, AtDns, Collecting, Sleeping, Configured, Received, Coming, Awaited, Hopeless
<1>20. SyncSpec /\ []SyncCanStep /\ <>[]Calm => <>[]Configured
  BY <1>3, <1>4, <1>5, ClientKeepsItsSpec, SyncKeepsClientTypes, PTL
     DEF SyncSpec, NetworkFairness, SyncCanStep
<1>21. SyncSpec /\ []SyncCanStep /\ <>[]Calm => []<>~Collecting
  BY <1>1, <1>2, <1>8, <1>10, <1>11, <1>12, <1>13, <1>14, <1>15, <1>16, <1>17, <1>18, <1>19, 
     ClientKeepsItsSpec, SyncKeepsClientTypes, PTL
     DEF SyncSpec, NetworkFairness, SyncCanStep
<1>22. QED
  BY <1>1, <1>6, <1>7, <1>8, <1>9, <1>14, <1>17, <1>20, <1>21, 
     ClientKeepsItsSpec, SyncKeepsClientTypes, PTL
     DEF SyncSpec, NetworkFairness, SyncCanStep

---------------------------------------------------------------------------
(* No sleep lasts for ever: a calm network sends nothing to a client that  *)
(* sleeps, so what is under way is delivered one by one, and nothing holds *)
(* the timer back.                                                         *)

WireInv == IsFiniteSet(wire) /\ Cardinality(wire) <= MaxWire

LEMMA WireAlways == SyncSpec => []WireInv
<1>1. SntpInit => WireInv
  BY FS_EmptySet, SntpAssumption DEF SntpInit, WireInv
<1>2. ASSUME WireInv, [SntpNext]_sntpVars
      PROVE  WireInv'
  <2>1. CASE Requested
    <3>1. wire' = {Aged(d) : d \in wire}
      BY <2>1 DEF Requested
    <3>2. IsFiniteSet(wire') /\ Cardinality(wire') <= Cardinality(wire)
      <4> DEFINE aged == [d \in wire |-> Aged(d)]
      <4>1. aged \in Surjection(wire, wire')
        <5>1. aged \in [wire -> wire'] /\ \A t \in wire' : \E d \in wire : aged[d] = t
          BY <3>1
        <5>2. QED BY <5>1, Fun_IsSurj
      <4>2. QED BY <1>2, <4>1, FS_Surjection DEF WireInv
    <3>3. QED BY <1>2, <3>2, FS_CardinalityType, SntpAssumption DEF WireInv
  <2>2. ASSUME NEW d \in Datagrams, Arrives(d)
        PROVE  WireInv'
    <3>1. wire' = wire \cup {d} /\ Cardinality(wire) < MaxWire
      BY <2>2 DEF Arrives
    <3>2. IsFiniteSet(wire) /\ IsFiniteSet(wire')
          /\ Cardinality(wire') \in {Cardinality(wire), Cardinality(wire) + 1}
      BY <1>2, <3>1, FS_AddElement DEF WireInv
    <3>3. Cardinality(wire) \in Nat /\ MaxWire \in Nat
      BY <3>2, FS_CardinalityType, SntpAssumption
    <3>4. QED BY <3>1, <3>2, <3>3 DEF WireInv
  <2>3. ASSUME NEW d \in Datagrams, d \in wire, wire' = wire \ {d}
        PROVE  WireInv'
    <3>1. IsFiniteSet(wire) /\ IsFiniteSet(wire')
          /\ Cardinality(wire') = Cardinality(wire) - 1
      BY <1>2, <2>3, FS_RemoveElement DEF WireInv
    <3>2. Cardinality(wire) \in Nat /\ MaxWire \in Nat /\ Cardinality(wire) <= MaxWire
      BY <1>2, FS_CardinalityType, SntpAssumption DEF WireInv
    <3>3. QED BY <3>1, <3>2 DEF WireInv
  <2>4. CASE UNCHANGED wire
    BY <1>2, <2>4 DEF WireInv
  <2>5. QED
    BY <1>2, <2>1, <2>2, <2>3, <2>4
    DEF SntpNext, Network, ConfigChanges, Disturbed, Delivered, Lost, sntp_task, SyncOnce, ConfigUp,
        NotRequested, Synced, ReplyRefused, TimedOut, Wakes, Consumed, network, sntpVars
<1>3. QED BY <1>1, <1>2, ClientKeepsItsSpec, PTL

UnderWay(n) == Cardinality(wire) = n

LEMMA SleepStep ==
  ASSUME SntpTypeOK, WireInv, Calm, Calm', Sleeping, [SntpNext]_sntpVars
  PROVE  \/ Sleeping' /\ UNCHANGED wire
         \/ /\ Sleeping' /\ \E d \in Datagrams : Delivered(d)
            /\ Cardinality(wire) \in Nat \ {0}
            /\ Cardinality(wire') = Cardinality(wire) - 1
         \/ ~Sleeping'
<1>1. ASSUME NEW d \in Datagrams, Arrives(d)
      PROVE  FALSE
  <2>1. d.kind = "time" /\ d.fresh
    BY <1>1 DEF Arrives, Answer, Calm
  <2>2. QED BY <1>1, <2>1 DEF Arrives, Sleeping
<1>2. ASSUME NEW d \in Datagrams, Delivered(d)
      PROVE  /\ Cardinality(wire) \in Nat \ {0}
             /\ Cardinality(wire') = Cardinality(wire) - 1
  <2>1. d \in wire /\ wire' = wire \ {d}
    BY <1>2 DEF Delivered
  <2>2. Cardinality(wire') = Cardinality(wire) - 1 /\ IsFiniteSet(wire')
    BY <2>1, FS_RemoveElement DEF WireInv
  <2>3. Cardinality(wire) \in Nat /\ Cardinality(wire') \in Nat
    BY <2>2, FS_CardinalityType DEF WireInv
  <2>4. QED BY <2>2, <2>3
<1>3. CASE sntp_task \/ ConfigChanges \/ Consumed \/ UNCHANGED sntpVars
  BY <1>3 DEF sntp_task, SyncOnce, ConfigUp, Requested, NotRequested, Synced, ReplyRefused, TimedOut,
              Wakes, ConfigChanges, Consumed, network, attempt, sntpVars, Sleeping
<1>4. ~Disturbed /\ \A d \in Datagrams : ~Lost(d)
  BY DEF Disturbed, Lost, Calm
<1>5. \A d \in Datagrams : Delivered(d) => Sleeping'
  BY DEF Delivered, Sleeping
<1>6. QED BY <1>1, <1>2, <1>3, <1>4, <1>5 DEF SntpNext, Network

LEMMA SleepsEnd ==
  ASSUME MaxWire <= 4
  PROVE  SyncSpec /\ []SyncCanStep => (<>[]Calm => []<>~Sleeping)
<1> DEFINE Step == SntpTypeOK /\ WireInv /\ Calm /\ Calm' /\ [SntpNext]_sntpVars
<1>1. WireInv => UnderWay(0) \/ UnderWay(1) \/ UnderWay(2) \/ UnderWay(3) \/ UnderWay(4)
  <2>1. SUFFICES ASSUME WireInv
                 PROVE  Cardinality(wire) \in Nat /\ Cardinality(wire) <= 4
    BY DEF UnderWay
  <2>2. QED BY <2>1, FS_CardinalityType, SntpAssumption DEF WireInv
<1>2. Step /\ Sleeping /\ UnderWay(0) => UnderWay(0)' \/ ~Sleeping'
  BY SleepStep DEF UnderWay
<1>3. Step /\ Sleeping /\ UnderWay(1) => UnderWay(1)' \/ UnderWay(0)' \/ ~Sleeping'
  BY SleepStep DEF UnderWay
<1>4. Step /\ Sleeping /\ UnderWay(2) => UnderWay(2)' \/ UnderWay(1)' \/ ~Sleeping'
  BY SleepStep DEF UnderWay
<1>5. Step /\ Sleeping /\ UnderWay(3) => UnderWay(3)' \/ UnderWay(2)' \/ ~Sleeping'
  BY SleepStep DEF UnderWay
<1>6. Step /\ Sleeping /\ UnderWay(4) => UnderWay(4)' \/ UnderWay(3)' \/ ~Sleeping'
  BY SleepStep DEF UnderWay
<1>7. ~((UnderWay(1) \/ UnderWay(2) \/ UnderWay(3) \/ UnderWay(4)) /\ UnderWay(0))
  BY DEF UnderWay
<1>8. Step /\ <<calm /\ \E d \in Datagrams : Delivered(d)>>_sntpVars /\ Sleeping /\ Sleeping' =>
        /\ ~(UnderWay(1) /\ UnderWay(1)') /\ ~(UnderWay(2) /\ UnderWay(2)')
        /\ ~(UnderWay(3) /\ UnderWay(3)') /\ ~(UnderWay(4) /\ UnderWay(4)')
  <2>1. SUFFICES ASSUME WireInv, NEW d \in Datagrams, Delivered(d)
                 PROVE  Cardinality(wire') = Cardinality(wire) - 1 /\ Cardinality(wire) \in Nat
    BY DEF UnderWay
  <2>2. d \in wire /\ wire' = wire \ {d}
    BY <2>1 DEF Delivered
  <2>3. QED BY <2>1, <2>2, FS_RemoveElement, FS_CardinalityType DEF WireInv
<1>9. Step /\ <<ClientStep>>_syncVars => ~(Sleeping /\ Sleeping')
  BY DEF ClientStep, sntp_task, ConfigUp, SyncOnce, Requested, NotRequested, Synced,
         ReplyRefused, TimedOut, Wakes, Sleeping, Calm
<1>10. WireInv /\ Sleeping /\ UnderWay(0) => ClientReady
  BY FS_EmptySet DEF WireInv, UnderWay, ClientReady, Sleeping
<1>11. Calm /\ (UnderWay(1) \/ UnderWay(2) \/ UnderWay(3) \/ UnderWay(4)) => DeliveryReady
  BY FS_EmptySet DEF UnderWay, DeliveryReady, Calm
<1> HIDE DEF Calm, Sleeping, UnderWay
<1>12. QED
  BY <1>1, <1>2, <1>3, <1>4, <1>5, <1>6, <1>7, <1>8, <1>9, <1>10, <1>11, WireAlways,
     ClientKeepsItsSpec, SyncKeepsClientTypes, PTL
     DEF SyncSpec, NetworkFairness, SyncCanStep

---------------------------------------------------------------------------
(* Once a sleep has ended in a calm network every attempt gets the answer  *)
(* to its own request and nothing else.                                    *)

LEMMA CleanForGood ==
  ASSUME EraHolds, MaxWire <= 4
  PROVE  SyncSpec /\ []SyncCanStep => (<>[]Calm => <>[]Clean)
<1> DEFINE Step == SntpTypeOK /\ Idle /\ Calm /\ Calm' /\ [SntpNext]_sntpVars
<1>1. Step /\ Clean => Clean'
  BY CleanStep DEF Calm
<1>2. Step /\ Sleeping /\ ~Sleeping' => Clean'
  <2>1. SUFFICES ASSUME SntpTypeOK, Calm, Calm', [SntpNext]_sntpVars, Sleeping, ~Sleeping'
                 PROVE  Clean'
    OBVIOUS
  <2>2. Wakes
    BY <2>1, CalmSteps DEF Calm, Sleeping, Arriving, Delivering, sntp_task, ConfigUp, SyncOnce, Requested, NotRequested,
                      Synced, ReplyRefused, TimedOut
  <2>3. QED BY <2>1, <2>2 DEF Wakes, Clean, Calm, network
<1> HIDE DEF Calm, Sleeping, Clean
<1>3. QED
  BY <1>1, <1>2, AttemptsEnd, SleepsEnd, IdleAlways, ClientKeepsItsSpec, SyncKeepsClientTypes, PTL

Fresh == ~stale
JustSynced == sntp_at = "resync"
Pending == RTC_SET_EPOCH # 0

LEMMA CleanAttempts ==
  ASSUME SntpTypeOK, Idle, Clean, Calm, Calm', [SntpNext]_sntpVars
  PROVE  /\ Fresh => Fresh'
         /\ ~Sleeping /\ Sleeping' => JustSynced' /\ Fresh' /\ Pending'
<1> USE DEF Fresh, JustSynced, Pending, Sleeping, Calm
<1>1. CASE Synced
  <2>1. stale' = FALSE /\ sntp_at' = "resync"
    BY <1>1 DEF Synced, Clean, FirstReply, Usable
  <2>2. RTC_SET_EPOCH' # 0
    BY <1>1, SyncedKeeps DEF Commands
  <2>3. QED BY <2>1, <2>2
<1>2. CASE ReplyRefused \/ TimedOut
  BY <1>2 DEF ReplyRefused, TimedOut, Clean, FirstReply, Usable
<1>3. CASE ~(Synced \/ ReplyRefused \/ TimedOut)
  <2>1. CASE sntp_task
    <3>1. ~NotRequested
      BY DEF NotRequested
    <3>2. CASE ConfigUp \/ Requested \/ Wakes
      <4>1. sntp_at' \in {"dns", "reply", "config"}
        BY <3>2 DEF ConfigUp, Requested, Wakes
      <4>2. stale' = stale
        BY <3>2 DEF ConfigUp, Requested, Wakes, attempt
      <4>3. QED BY <4>1, <4>2
    <3>3. QED BY <1>3, <2>1, <3>1, <3>2 DEF sntp_task, SyncOnce
  <2>2. CASE ~sntp_task
    BY <2>2, CalmSteps DEF Arriving, Delivering
  <2>3. QED BY <2>1, <2>2
<1>4. QED BY <1>1, <1>2, <1>3

(* Once the network stays calm the client syncs for ever, however many     *)
(* attempts failed, were refused or timed out before (sntp.rs, the loop of *)
(* sntp_task).                                                             *)
THEOREM ClientKeepsSyncing ==
  ASSUME EraHolds, MaxWire <= 4
  PROVE  SyncSpec /\ []SyncCanStep => KeepsSyncing
<1>1. SntpTypeOK /\ Idle /\ Clean /\ Calm /\ Calm' /\ [SntpNext]_sntpVars
        => (~Sleeping /\ Sleeping' => JustSynced')
  BY CleanAttempts
<1> HIDE DEF Calm, Sleeping, Clean, JustSynced
<1>2. SyncSpec /\ []SyncCanStep => (<>[]Calm => []<>JustSynced)
  BY <1>1, CleanForGood, AttemptsEnd, SleepsEnd, IdleAlways, ClientKeepsItsSpec, SyncKeepsClientTypes, PTL
<1>3. QED BY <1>2 DEF KeepsSyncing, Calm, JustSynced

(* A late answer is taken for the answer to a later request only for so    *)
(* long: in a calm network the times taken are in the end all answers to   *)
(* the request of the attempt that took them.                              *)
THEOREM StaleTimesEnd ==
  ASSUME EraHolds, MaxWire <= 4
  PROVE  SyncSpec /\ []SyncCanStep => StaleTimeIsReplaced
<1>1. SntpTypeOK /\ Idle /\ Clean /\ Calm /\ Calm' /\ [SntpNext]_sntpVars
        => /\ ~Sleeping /\ Sleeping' => Fresh'
           /\ Fresh => Fresh'
  BY CleanAttempts
<1> HIDE DEF Calm, Sleeping, Clean, Fresh
<1>2. SyncSpec /\ []SyncCanStep => (<>[]Calm => <>[]Fresh)
  BY <1>1, CleanForGood, AttemptsEnd, SleepsEnd, IdleAlways, ClientKeepsItsSpec, SyncKeepsClientTypes, PTL
<1>3. QED BY <1>2 DEF StaleTimeIsReplaced, Calm, Fresh

(* The clock shown is right and stays so, or the device was given up.      *)
ClockSet == (~chip_os /\ RTC_CLOCK.valid) \/ ~rtc.ok

LEMMA CalmTick ==
  ASSUME RtcTypeOK, NEW due \in BOOLEAN, HubRtc(due, TRUE, TRUE, TRUE), ClockSet \/ Pending
  PROVE  ClockSet'
<1>1. CASE ~rtc.ok
  <2>1. rtc' = rtc
    BY <1>1 DEF HubRtc
  <2>2. QED BY <1>1, <2>1 DEF ClockSet
<1>2. CASE rtc.ok /\ Pending
  <2>1. RTC_CLOCK' = Reading(RTC_SET_EPOCH, FALSE, TRUE) /\ chip_os' = FALSE
    BY <1>2 DEF HubRtc, WholeBurst, Check, Pending
  <2>2. QED BY <2>1 DEF ClockSet, Reading
<1>3. CASE rtc.ok /\ ~Pending
  <2>1. RTC_CLOCK' \in {RTC_CLOCK, Reading(chip_time, chip_os, chip_good)} /\ chip_os' = chip_os
    BY <1>3 DEF HubRtc, Pending, chip
  <2>2. chip_os = FALSE /\ RTC_CLOCK.valid
    BY <1>3 DEF ClockSet, RtcTypeOK
  <2>3. Reading(chip_time, chip_os, chip_good).valid
    BY <2>2 DEF Reading
  <2>4. RTC_CLOCK'.valid
    BY <2>1, <2>2, <2>3
  <2>5. QED BY <2>1, <2>2, <2>4 DEF ClockSet
<1>4. QED BY <1>1, <1>2, <1>3

LEMMA CalmSyncSteps ==
  ASSUME SntpTypeOK, RtcTypeOK, Calm, Calm', [SyncNext]_syncVars
  PROVE  /\ ClockSet => ClockSet'
         /\ Pending => Pending' \/ ClockSet'
         /\ <<HubTick(TRUE)>>_syncVars /\ Pending => ClockSet'
<1>1. ASSUME NEW due \in BOOLEAN, HubTick(due), ClockSet \/ Pending
      PROVE  ClockSet'
  <2>1. HubRtc(due, TRUE, TRUE, TRUE)
    BY <1>1 DEF HubTick, Calm
  <2>2. QED BY <1>1, <2>1, CalmTick
<1>2. CASE Net \/ ClientStep
  <2>1. UNCHANGED <<chip, rtc, RTC_CLOCK>>
    BY <1>2 DEF Net, ClientStep
  <2>2. CASE Synced
    <3>1. Pending'
      BY <2>2, SyncedKeeps DEF Commands, Pending
    <3>2. QED BY <1>1, <2>1, <3>1 DEF ClockSet, chip
  <2>3. CASE ~Synced
    <3>1. RTC_SET_EPOCH' = RTC_SET_EPOCH
      BY <1>2, <2>3
      DEF Net, Network, ConfigChanges, Disturbed, Arrives, Delivered, Lost, ClientStep, sntp_task,
          SyncOnce, ConfigUp, Requested, NotRequested, ReplyRefused, TimedOut, Wakes, network
    <3>2. QED BY <1>1, <2>1, <3>1 DEF ClockSet, chip, Pending
  <2>4. QED BY <2>2, <2>3
<1>3. CASE Device \/ UNCHANGED syncVars
  <2>1. UNCHANGED <<chip_os, rtc, RTC_CLOCK, RTC_SET_EPOCH>>
    BY <1>3 DEF Device, ChipSecond, OscillatorStops, syncVars, rtcVars, chip, Calm
  <2>2. QED BY <1>1, <2>1 DEF ClockSet, Pending
<1>4. CASE \E due \in BOOLEAN : HubTick(due)
  BY <1>1, <1>4
<1>5. QED BY <1>2, <1>3, <1>4 DEF SyncNext

(* Once the network and the bus stay calm the clock becomes valid for good, *)
(* or its device had been given up: a command that a refused write lost is *)
(* made good by a later sync (sntp.rs posts, sensors.rs consumes).         *)
THEOREM ClockIsSetForGood ==
  ASSUME EraHolds, MaxWire <= 4
  PROVE  SyncSpec /\ []SyncCanStep => ClockBecomesValid
<1> DEFINE Shown == RTC_CLOCK.valid \/ ~rtc.ok
           Calmly == SntpTypeOK /\ SntpTypeOK' /\ Idle /\ Clean /\ Calm /\ Calm'
<1>1. Calmly /\ [SntpNext]_sntpVars => (~Sleeping /\ Sleeping' => Pending')
  BY CleanAttempts
<1>2. Calmly /\ RtcTypeOK /\ [SyncNext]_syncVars =>
        /\ ClockSet => ClockSet'
        /\ Pending => Pending' \/ ClockSet'
        /\ <<HubTick(TRUE)>>_syncVars /\ Pending => ClockSet'
  BY CalmSyncSteps
<1>3. Pending => HubReady
  BY DEF Pending, HubReady
<1>4. ClockSet => Shown
  BY DEF ClockSet
<1>5. RtcSpec => []RtcTypeOK
  BY ShownTimeIsTrusted, PTL
<1> HIDE DEF Calm, Sleeping, Clean, Pending, ClockSet, Shown
<1>6. SyncSpec /\ []SyncCanStep => (<>[]Calm => []<>Pending)
  BY <1>1, CleanForGood, AttemptsEnd, SleepsEnd, IdleAlways, ClientKeepsItsSpec, SyncKeepsClientTypes, PTL
<1>7. SyncSpec /\ []SyncCanStep => (<>[]Calm => <>[]ClockSet)
  BY <1>2, <1>3, <1>5, <1>6, CleanForGood, IdleAlways, SyncKeepsClientTypes, ClockKeepsItsSpec, PTL
     DEF SyncSpec, SyncCanStep
<1>8. SyncSpec /\ []SyncCanStep => (<>[]Calm => <>[]Shown)
  BY <1>4, <1>7, PTL
<1>9. QED BY <1>8 DEF ClockBecomesValid, Calm, Shown
===========================================================================
