----------------------------- MODULE NetProofs -----------------------------
(***************************************************************************)
(* Theorems about the Wi-Fi tasks and the SNTP client.                     *)
(***************************************************************************)
EXTENDS Wifi, Sntp, TLAPS

---------------------------------------------------------------------------
(* The types of the Wi-Fi tasks. *)

LEMMA WifiTypeStep ==
  ASSUME WifiTypeOK, [WifiNext]_wifiVars
  PROVE  WifiTypeOK'
<1> USE DEF WifiTypeOK, radio, stack, conn, ip, home
<1>1. CASE ApChanges
  BY <1>1 DEF ApChanges
<1>2. CASE Driver
  BY <1>2 DEF Driver, DriverAssociates, DriverRefused, LinkDrops
<1>3. ASSUME NEW a \in Addresses, Leased(a) \/ Renewed(a)
      PROVE  WifiTypeOK'
  BY <1>3 DEF Leased, Renewed, MaybeAddress
<1>4. CASE LeaseLost
  BY <1>4 DEF LeaseLost, MaybeAddress
<1>5. CASE connection_task
  BY <1>5 DEF connection_task, Connect, ConnectReturns, Disconnected
<1>6. CASE ip_task
  BY <1>6 DEF ip_task, IpUp, IpDown, MaybeAddress
<1>7. CASE HomeUpdate
  <2>1. WIFI_STATE \in States
    BY DEF States
  <2>2. wifi_text(WIFI_STATE, WIFI_IP) \in WifiTexts
    BY <2>1 DEF WifiTexts
  <2>3. QED BY <1>7, <2>1, <2>2 DEF HomeUpdate
<1>8. CASE UNCHANGED wifiVars
  BY <1>8 DEF wifiVars
<1>9. QED BY <1>1, <1>2, <1>3, <1>4, <1>5, <1>6, <1>7, <1>8 DEF WifiNext

(* For every set of addresses: no task stores UNCONFIGURED, the state of a *)
(* build without credentials, and the label is always one that wifi_text   *)
(* makes of a state and an address.                                        *)
THEOREM WifiTypes == WifiSpec => []WifiTypeOK
<1>1. WifiInit => WifiTypeOK
  <2>1. NoAddress \in MaybeAddress /\ "CONNECTING" \in States /\ "UNCONFIGURED" \in States
    BY DEF MaybeAddress, States
  <2>2. wifi_text("CONNECTING", NoAddress) \in WifiTexts
    BY <2>1 DEF WifiTexts
  <2>3. <<"UNCONFIGURED", NoAddress>> \in States \X MaybeAddress
    BY <2>1
  <2>4. QED BY <2>1, <2>2, <2>3, Zenon DEF WifiInit, WifiTypeOK
<1>2. QED BY <1>1, WifiTypeStep, PTL DEF WifiSpec

---------------------------------------------------------------------------
(* ip_task. *)

(* LeaseIsPublished is not inductive: IpDown must be known to leave no     *)
(* address behind while the task waits for the next lease.                 *)
AddressInv ==
  /\ LeaseIsPublished
  /\ ip_at = "wait_up" => WIFI_IP = NoAddress

LEMMA LeaseStep ==
  ASSUME AddressInv, [WifiNext]_wifiVars
  PROVE  AddressInv'
<1> USE DEF AddressInv, LeaseIsPublished
<1>1. CASE WifiNext
  <2>1. CASE UNCHANGED <<stack, ip>>
    BY <2>1 DEF stack, ip
  <2>2. ASSUME NEW a \in Addresses, Leased(a)
        PROVE  AddressInv'
    BY <2>2 DEF Leased, ip
  <2>3. ASSUME NEW a \in Addresses, Renewed(a)
        PROVE  AddressInv'
    BY <2>3 DEF Renewed, ip
  <2>4. CASE LeaseLost
    BY <2>4 DEF LeaseLost, ip
  <2>5. CASE IpUp
    BY <2>5 DEF IpUp, stack
  <2>6. CASE IpDown
    BY <2>6 DEF IpDown
  <2>7. ApChanges \/ Driver \/ connection_task \/ HomeUpdate => UNCHANGED <<stack, ip>>
    BY DEF ApChanges, Driver, DriverAssociates, DriverRefused, LinkDrops,
           connection_task, Connect, ConnectReturns, Disconnected, HomeUpdate
  <2>8. QED
    BY <1>1, <2>1, <2>2, <2>3, <2>4, <2>5, <2>6, <2>7 DEF WifiNext, ip_task
<1>2. CASE UNCHANGED wifiVars
  BY <1>2 DEF wifiVars, stack, ip
<1>3. QED BY <1>1, <1>2

(* For every set of addresses, the address the UI is given is the stack's  *)
(* own as long as the lease keeps it.                                      *)
THEOREM AddressIsTheLease == WifiSpec => []LeaseIsPublished
<1>1. WifiInit => AddressInv
  BY DEF WifiInit, AddressInv, LeaseIsPublished
<1>2. AddressInv /\ [WifiNext]_wifiVars => AddressInv'
  BY LeaseStep
<1>3. AddressInv => LeaseIsPublished
  BY DEF AddressInv
<1>4. QED BY <1>1, <1>2, <1>3, PTL DEF WifiSpec

---------------------------------------------------------------------------
(* The SNTP client. *)

(* The clamp keeps a set command apart from 0, "no command". *)
LEMMA LocalTimeIsACommand ==
  ASSUME NEW utc \in Nat
  PROVE  LocalTime(utc) \in Commands
BY SntpAssumption, EpochAssumption DEF LocalTime, Commands

(* Once the era is checked the subtraction cannot underflow. *)
LEMMA InEraIsPast2000 ==
  ASSUME NEW d \in Datagrams, InEra(d)
  PROVE  d.ntp - NtpToY2k \in Nat
<1>1. d.ntp \in Nat
  BY SntpAssumption DEF Datagrams, Answer, Refused
<1>2. QED BY <1>1, SntpAssumption DEF InEra

(* Moving on to another attempt makes a datagram no less one. *)
LEMMA AgedIsDatagram ==
  ASSUME NEW d \in Datagrams
  PROVE  Aged(d) \in Datagrams
<1>1. CASE d \in {Answer(n, fresh) : n \in 0 .. NtpWrap - 1, fresh \in BOOLEAN}
  <2>1. PICK n \in 0 .. NtpWrap - 1, fresh \in BOOLEAN : d = Answer(n, fresh)
    BY <1>1
  <2>2. Aged(d) = Answer(n, FALSE)
    BY <2>1 DEF Answer, Aged
  <2>3. \E m \in 0 .. NtpWrap - 1, f \in BOOLEAN : Aged(d) = Answer(m, f)
    <3>1. FALSE \in BOOLEAN
      OBVIOUS
    <3>2. QED BY <2>2, <3>1, Zenon
  <2>4. QED BY <2>3 DEF Datagrams
<1>2. CASE d \in {Refused(k) : k \in Refusals}
  <2>1. PICK k \in Refusals : d = Refused(k)
    BY <1>2
  <2>2. Aged(d) = Refused(k)
    BY <2>1 DEF Refused, Aged
  <2>3. QED BY <2>2 DEF Datagrams
<1>3. QED BY <1>1, <1>2 DEF Datagrams

LEMMA SyncedKeeps ==
  ASSUME SntpTypeOK, Synced
  PROVE  SntpTypeOK' /\ RTC_SET_EPOCH' \in Commands
<1>1. Head(rx) \in Datagrams
  BY DEF SntpTypeOK, Synced
<1>2. Head(rx).ntp - NtpToY2k \in Nat
  BY <1>1, InEraIsPast2000 DEF Synced
<1>3. RTC_SET_EPOCH' \in Commands
  BY <1>2, LocalTimeIsACommand DEF Synced
<1>4. RTC_SET_EPOCH' \in Moments
  BY <1>3, EpochAssumption DEF Commands, Moments
<1>5. stale' \in BOOLEAN
  BY DEF Synced
<1>6. UNCHANGED <<config_up, calm, owed, wire>> /\ sntp_at' = "resync" /\ rx' = <<>>
  BY DEF Synced, SocketDropped, network
<1>7. QED BY <1>3, <1>4, <1>5, <1>6 DEF SntpTypeOK

LEMMA NetworkKeeps ==
  ASSUME SntpTypeOK, Network
  PROVE  SntpTypeOK'
<1> USE DEF SntpTypeOK, attempt
<1>1. CASE ConfigChanges
  BY <1>1 DEF ConfigChanges
<1>2. CASE Disturbed
  BY <1>2 DEF Disturbed
<1>3. ASSUME NEW d \in Datagrams, Arrives(d)
      PROVE  SntpTypeOK'
  BY <1>3 DEF Arrives
<1>4. ASSUME NEW d \in Datagrams, Delivered(d)
      PROVE  SntpTypeOK'
  BY <1>4 DEF Delivered
<1>5. ASSUME NEW d \in Datagrams, Lost(d)
      PROVE  SntpTypeOK'
  BY <1>5 DEF Lost
<1>6. QED BY <1>1, <1>2, <1>3, <1>4, <1>5 DEF Network

LEMMA SntpTypeStep ==
  ASSUME SntpTypeOK, [SntpNext]_sntpVars
  PROVE  SntpTypeOK'
<1> USE DEF SntpTypeOK, network, attempt
<1>1. CASE Network
  BY <1>1, NetworkKeeps
<1>2. CASE ConfigUp \/ NotRequested \/ Wakes
  BY <1>2 DEF ConfigUp, NotRequested, Wakes
<1>3. CASE Requested
  <2>1. \A d \in wire : Aged(d) \in Datagrams
    BY AgedIsDatagram
  <2>2. wire' \subseteq Datagrams
    BY <1>3, <2>1 DEF Requested
  <2>3. QED BY <1>3, <2>2 DEF Requested
<1>4. CASE Synced
  BY <1>4, SyncedKeeps
<1>5. CASE ReplyRefused \/ TimedOut
  <2>1. rx' = <<>>
    BY <1>5 DEF ReplyRefused, TimedOut, SocketDropped
  <2>2. rx' \in Seq(Datagrams)
    BY <2>1
  <2>3. QED BY <1>5, <2>2 DEF ReplyRefused, TimedOut
<1>6. CASE Consumed
  BY <1>6, EpochAssumption DEF Consumed, Moments
<1>7. CASE UNCHANGED sntpVars
  BY <1>7 DEF sntpVars
<1>8. QED
  BY <1>1, <1>2, <1>3, <1>4, <1>5, <1>6, <1>7 DEF SntpNext, sntp_task, SyncOnce

(* For every offset and whatever arrives, a set command fits the cell, and *)
(* the subtraction of the two epochs never underflows.                     *)
THEOREM SntpTypes == SntpSpec => []SntpTypeOK
<1>1. SntpInit => SntpTypeOK
  <2>1. <<>> \in Seq(Datagrams) /\ 0 \in Moments
    BY EpochAssumption DEF Moments
  <2>2. QED BY <2>1 DEF SntpInit, SntpTypeOK
<1>2. QED BY <1>1, SntpTypeStep, PTL DEF SntpSpec

(* A day of sleep is earned only by leaving a command for the hub. *)
LEMMA SuccessStep ==
  ASSUME SntpTypeOK, [SntpNext]_sntpVars, sntp_at # "resync", sntp_at' = "resync"
  PROVE  RTC_SET_EPOCH' # 0
<1>1. Synced
  BY DEF SntpNext, Network, ConfigChanges, Disturbed, Arrives, Delivered, Lost,
         sntp_task, ConfigUp, SyncOnce, Requested, NotRequested, TimedOut,
         ReplyRefused, Wakes, Consumed, sntpVars
<1>2. QED BY <1>1, SyncedKeeps, EpochAssumption DEF Commands

(* For every offset and every answer a success queues a command.           *)
THEOREM SuccessLeavesCommand == SntpSpec => SuccessQueuesCommand
<1>1. SntpTypeOK /\ [SntpNext]_sntpVars
        => [sntp_at # "resync" /\ sntp_at' = "resync" => RTC_SET_EPOCH' # 0]_sntpVars
  BY SuccessStep
<1>2. QED BY <1>1, SntpTypes, PTL DEF SntpSpec, SuccessQueuesCommand

---------------------------------------------------------------------------
(* Liveness of the Wi-Fi tasks.  tlapm does not reason about ENABLED, so    *)
(* each theorem has as its hypothesis that the guards named below enable   *)
(* their actions; it holds in every state that can be reached.             *)

(* What each task, the driver and the stack wait for. *)
DriverReady ==
  \/ conn_at = "connect" /\ outcome = "none"
  \/ link /\ ~ap
ConnectionReady ==
  \/ conn_at \in {"start", "pause"}
  \/ conn_at = "connect" /\ outcome # "none"
  \/ conn_at = "disconnect" /\ ~link
StackReady == ~link /\ config # NoAddress
IpReady ==
  \/ ip_at = "wait_up" /\ config # NoAddress
  \/ ip_at = "wait_down" /\ config = NoAddress
HomeReady == <<WIFI_STATE, WIFI_IP>> # last_wifi

(* No more than the guards of the five actions WifiSpec is fair to, but a  *)
(* statement about ENABLED.                                                *)
WifiCanStep ==
  /\ DriverReady => ENABLED <<Driver>>_wifiVars
  /\ ConnectionReady => ENABLED <<connection_task>>_wifiVars
  /\ StackReady => ENABLED <<StackSeesLinkDown>>_wifiVars
  /\ IpReady => ENABLED <<ip_task>>_wifiVars
  /\ HomeReady => ENABLED <<HomeUpdate>>_wifiVars

(* connection_task and the driver, together. *)
Resting == conn_at \in {"start", "pause"}
Asking == conn_at = "connect" /\ outcome = "none"
Refusal == conn_at = "connect" /\ outcome = "err"
Granted(up) == conn_at = "connect" /\ outcome = "ok" /\ link = up
Joined(up) == conn_at = "disconnect" /\ link = up

(* WIFI_STATE says where connection_task waits, the radio is up only while *)
(* it is joined or about to learn that it is, and an answer of the driver  *)
(* finds it waiting.                                                       *)
AssocInv ==
  /\ WIFI_STATE = "CONNECTED" <=> conn_at = "disconnect"
  /\ outcome # "none" => conn_at = "connect"
  /\ link => conn_at = "disconnect" \/ outcome = "ok"

LEMMA AssocInvStep ==
  ASSUME AssocInv, [WifiNext]_wifiVars
  PROVE  AssocInv'
<1>1. Driver \/ connection_task \/ UNCHANGED <<link, outcome, conn>>
  BY DEF WifiNext, ApChanges, Leased, Renewed, LeaseLost, ip_task, IpUp, IpDown,
         HomeUpdate, wifiVars, radio
<1>2. CASE Driver
  BY <1>2 DEF AssocInv, Driver, DriverAssociates, DriverRefused, LinkDrops, conn
<1>3. CASE connection_task
  BY <1>3 DEF AssocInv, connection_task, Connect, ConnectReturns, Disconnected, radio
<1>4. CASE UNCHANGED <<link, outcome, conn>>
  BY <1>4 DEF AssocInv, conn
<1>5. QED BY <1>1, <1>2, <1>3, <1>4

LEMMA AssocAlways == WifiSpec => []AssocInv
<1>1. WifiInit => AssocInv
  BY DEF WifiInit, AssocInv
<1>2. AssocInv /\ [WifiNext]_wifiVars => AssocInv'
  BY AssocInvStep
<1>3. QED BY <1>1, <1>2, PTL DEF WifiSpec

(* While the access point stays, nothing but these moves the association.  *)
LEMMA AssociationSteps ==
  ASSUME ap, ap', [WifiNext]_wifiVars
  PROVE  DriverAssociates \/ connection_task \/ UNCHANGED <<radio, conn>>
BY DEF WifiNext, ApChanges, Driver, DriverRefused, LinkDrops, Leased, Renewed, LeaseLost,
       ip_task, IpUp, IpDown, HomeUpdate, wifiVars

(* However often an association was refused or lost, a network that comes  *)
(* back for good is joined for good and WIFI_STATE says so, if the driver  *)
(* and connection_task take the steps they can (wifi.rs, the loop of       *)
(* connection_task).                                                       *)
THEOREM NetworkIsJoined == WifiSpec /\ []WifiCanStep => KeepsAssociating
<1> DEFINE Step == WifiTypeOK /\ AssocInv /\ ap /\ ap' /\ [WifiNext]_wifiVars
<1> USE DEF Resting, Asking, Refusal, Granted, Joined, radio, conn,
            DriverAssociates, connection_task, Connect, ConnectReturns, Disconnected
<1>1. WifiTypeOK => \/ Resting \/ Asking \/ Refusal
                    \/ Granted(TRUE) \/ Granted(FALSE) \/ Joined(TRUE) \/ Joined(FALSE)
  BY DEF WifiTypeOK
<1>2. Step /\ Joined(FALSE) => Joined(FALSE)' \/ Resting'
  BY AssociationSteps DEF AssocInv
<1>3. Step /\ Granted(FALSE) => Granted(FALSE)' \/ Joined(FALSE)'
  BY AssociationSteps
<1>4. Step /\ Refusal => Refusal' \/ Resting'
  BY AssociationSteps
<1>5. Step /\ Resting => Resting' \/ Asking'
  BY AssociationSteps DEF AssocInv
<1>6. Step /\ Asking => Asking' \/ Granted(TRUE)'
  BY AssociationSteps
<1>7. Step /\ Granted(TRUE) => Granted(TRUE)' \/ Joined(TRUE)'
  BY AssociationSteps
<1>8. Step /\ Joined(TRUE) => Joined(TRUE)'
  BY AssociationSteps DEF AssocInv
<1>9. Step /\ <<connection_task>>_wifiVars =>
        /\ ~(Joined(FALSE) /\ Joined(FALSE)') /\ ~(Granted(FALSE) /\ Granted(FALSE)')
        /\ ~(Refusal /\ Refusal') /\ ~(Resting /\ Resting')
        /\ ~(Granted(TRUE) /\ Granted(TRUE)')
  BY AssociationSteps
<1>10. Step /\ <<Driver>>_wifiVars => ~(Asking /\ Asking')
  BY DEF Driver, DriverRefused, LinkDrops
<1>11. Joined(FALSE) \/ Granted(FALSE) \/ Refusal \/ Resting \/ Granted(TRUE) => ConnectionReady
  BY DEF ConnectionReady
<1>12. Asking => DriverReady
  BY DEF DriverReady
<1>13. Joined(TRUE) /\ AssocInv => WIFI_STATE = "CONNECTED"
  BY DEF AssocInv
<1> HIDE DEF Resting, Asking, Refusal, Granted, Joined, radio, conn,
             DriverAssociates, connection_task, Connect, ConnectReturns, Disconnected
<1>14. WifiSpec /\ []WifiCanStep /\ <>[]ap => <>[]Joined(TRUE)
  BY <1>1, <1>2, <1>3, <1>4, <1>5, <1>6, <1>7, <1>8, <1>9, <1>10, <1>11, <1>12,
     WifiTypes, AssocAlways, PTL DEF WifiSpec, WifiCanStep
<1>15. QED BY <1>13, <1>14, AssocAlways, PTL DEF KeepsAssociating

---------------------------------------------------------------------------
(* What the Home tab shows. *)

(* The label was rendered from the cache it is compared with, except for   *)
(* the first one.                                                          *)
LabelInv ==
  \/ label = wifi_text(last_wifi[1], last_wifi[2])
  \/ last_wifi = <<"UNCONFIGURED", NoAddress>> /\ label = wifi_text("CONNECTING", NoAddress)

LEMMA LabelAlways == WifiSpec => []LabelInv
<1>1. WifiInit => LabelInv
  BY DEF WifiInit, LabelInv
<1>2. LabelInv /\ [WifiNext]_wifiVars => LabelInv'
  <2>1. [WifiNext]_wifiVars => HomeUpdate \/ UNCHANGED home
    BY DEF WifiNext, ApChanges, Driver, DriverAssociates, DriverRefused, LinkDrops,
           Leased, Renewed, LeaseLost, connection_task, Connect, ConnectReturns, Disconnected,
           ip_task, IpUp, IpDown, wifiVars
  <2>2. LabelInv /\ HomeUpdate => LabelInv'
    BY DEF LabelInv, HomeUpdate, home
  <2>3. LabelInv /\ UNCHANGED home => LabelInv'
    BY DEF LabelInv, home
  <2>4. QED BY <2>1, <2>2, <2>3
<1>3. QED BY <1>1, <1>2, PTL DEF WifiSpec

(* IpUp publishes an address, IpDown none. *)
IpInv == ip_at = "wait_down" <=> WIFI_IP # NoAddress

LEMMA IpAlways == WifiSpec => []IpInv
<1>1. WifiInit => IpInv
  BY DEF WifiInit, IpInv
<1>2. IpInv /\ WifiTypeOK /\ [WifiNext]_wifiVars => IpInv'
  <2>1. [WifiNext]_wifiVars => ip_task \/ UNCHANGED ip
    BY DEF WifiNext, ApChanges, Driver, DriverAssociates, DriverRefused, LinkDrops,
           Leased, Renewed, LeaseLost, connection_task, Connect, ConnectReturns, Disconnected,
           HomeUpdate, wifiVars
  <2>2. IpInv /\ ip_task => IpInv'
    BY DEF IpInv, ip_task, IpUp, IpDown
  <2>3. IpInv /\ UNCHANGED ip => IpInv'
    BY DEF IpInv, ip
  <2>4. QED BY <2>1, <2>2, <2>3
<1>3. QED BY <1>1, <1>2, WifiTypes, PTL DEF WifiSpec

(* A lease kept for good, with its address, ends up on the Home tab and    *)
(* stays there, whatever the association does meanwhile: an address is     *)
(* shown in every state of it.                                             *)
THEOREM LeaseReachesTheTab == WifiSpec /\ []WifiCanStep => LeaseIsShown
<1> SUFFICES ASSUME NEW a \in Addresses
             PROVE  WifiSpec /\ []WifiCanStep
                      => (<>[](config = a /\ ~renumbered)
                            => <>[](label = wifi_text("CONNECTED", a)))
  BY DEF LeaseIsShown
<1> DEFINE Kept == config = a /\ ~renumbered
           Published == WIFI_IP = a
           Cached == last_wifi[2] = a
           Inv == WifiTypeOK /\ IpInv /\ LabelInv /\ LeaseIsPublished
           Step == Inv /\ Inv' /\ Kept /\ Kept' /\ [WifiNext]_wifiVars
<1>0. a # NoAddress
  BY AddressAssumption
<1>1. Step => IpUp \/ UNCHANGED ip
  BY <1>0 DEF WifiNext, ApChanges, Driver, DriverAssociates, DriverRefused, LinkDrops,
           Leased, Renewed, LeaseLost, connection_task, Connect, ConnectReturns, Disconnected,
           HomeUpdate, ip_task, IpDown, wifiVars
<1>2. Step /\ Published => Published'
  BY <1>1 DEF IpUp, ip
<1>3. Inv /\ Kept => Published \/ IpReady
  BY <1>0 DEF IpInv, IpReady, LeaseIsPublished, WifiTypeOK
<1>4. Step /\ <<ip_task>>_wifiVars => Published'
  BY <1>0 DEF ip_task, IpUp, IpDown
<1>5. Published /\ ~Cached => HomeReady
  BY DEF HomeReady
<1>6. Step /\ Published /\ Cached => Cached'
  BY DEF WifiNext, ApChanges, Driver, DriverAssociates, DriverRefused, LinkDrops,
           Leased, Renewed, LeaseLost, connection_task, Connect, ConnectReturns, Disconnected,
           HomeUpdate, ip_task, IpUp, IpDown, home, wifiVars
<1>7. Published /\ ~Cached /\ <<HomeUpdate>>_wifiVars => Cached'
  BY DEF HomeUpdate
<1>8. Inv /\ Cached => label = wifi_text("CONNECTED", a)
  BY <1>0 DEF LabelInv, wifi_text
<1>9. WifiSpec => []Inv
  BY WifiTypes, IpAlways, LabelAlways, AddressIsTheLease, PTL
<1> HIDE DEF Kept, Published, Cached, Inv
<1>10. WifiSpec /\ []WifiCanStep /\ <>[]Kept => <>[]Cached
  BY <1>2, <1>3, <1>4, <1>5, <1>6, <1>7, <1>9, PTL DEF WifiSpec, WifiCanStep
<1>11. QED BY <1>8, <1>9, <1>10, PTL DEF Kept

(* A network that goes away for good leaves no trace on the Home tab, in   *)
(* whatever order connection_task, the stack and ip_task notice.           *)
THEOREM LossReachesTheTab == WifiSpec /\ []WifiCanStep => LossIsShown
<1> DEFINE Down == ~link
           Told == conn_at # "disconnect" /\ outcome # "ok"
           Unconfigured == config = NoAddress
           Withdrawn == ip_at = "wait_up" /\ WIFI_IP = NoAddress
           Cached == last_wifi = <<"CONNECTING", NoAddress>>
           Inv == WifiTypeOK /\ AssocInv /\ IpInv /\ LabelInv
           Step == Inv /\ Inv' /\ ~ap /\ ~ap' /\ [WifiNext]_wifiVars
<1>1. Step => \/ DriverRefused \/ LinkDrops \/ connection_task
              \/ UNCHANGED <<radio, conn>>
  BY DEF WifiNext, ApChanges, Driver, DriverAssociates, Leased, Renewed, LeaseLost,
         ip_task, IpUp, IpDown, HomeUpdate, wifiVars
<1>2. Step /\ Down => Down'
  BY <1>1 DEF DriverRefused, LinkDrops, connection_task, Connect, ConnectReturns,
              Disconnected, radio
<1>3. Inv /\ ~ap /\ ~Down => DriverReady
  BY DEF DriverReady
<1>4. Step /\ ~Down /\ <<Driver>>_wifiVars => Down'
  BY DEF AssocInv, Driver, DriverAssociates, DriverRefused, LinkDrops
<1>5. Step /\ Down /\ Told => Told'
  BY <1>1 DEF DriverRefused, LinkDrops, connection_task, Connect, ConnectReturns,
              Disconnected, radio, conn
<1>6. Step /\ Down /\ Granted(FALSE) => Granted(FALSE)' \/ Joined(FALSE)'
  BY <1>1 DEF Granted, Joined, DriverRefused, LinkDrops, connection_task, Connect, ConnectReturns,
              Disconnected, radio, conn
<1>7. Step /\ Down /\ Joined(FALSE) => Joined(FALSE)' \/ Told'
  BY <1>1 DEF AssocInv, Joined, DriverRefused, LinkDrops, connection_task, Connect, ConnectReturns,
              Disconnected, radio, conn
<1>8. Step /\ Down /\ <<connection_task>>_wifiVars
        => ~(Granted(FALSE) /\ Granted(FALSE)') /\ ~(Joined(FALSE) /\ Joined(FALSE)')
  BY DEF Granted, Joined, connection_task, Connect, ConnectReturns, Disconnected
<1>9. Inv /\ Down => Told \/ Granted(FALSE) \/ Joined(FALSE)
  BY DEF AssocInv, WifiTypeOK, Granted, Joined
<1>10. Granted(FALSE) \/ Joined(FALSE) => ConnectionReady
  BY DEF Granted, Joined, ConnectionReady
<1>11. Step /\ Down /\ Unconfigured => Unconfigured'
  BY DEF WifiNext, ApChanges, Driver, DriverAssociates, DriverRefused, LinkDrops,
           Leased, Renewed, LeaseLost, connection_task, Connect, ConnectReturns, Disconnected,
           HomeUpdate, ip_task, IpUp, IpDown, stack, wifiVars
<1>12. Down /\ ~Unconfigured => StackReady
  BY DEF StackReady
<1>13. <<StackSeesLinkDown>>_wifiVars => Unconfigured'
  BY DEF StackSeesLinkDown, LeaseLost
<1>14. Step /\ Unconfigured /\ Withdrawn => Withdrawn'
  BY DEF WifiNext, ApChanges, Driver, DriverAssociates, DriverRefused, LinkDrops,
           Leased, Renewed, LeaseLost, connection_task, Connect, ConnectReturns, Disconnected,
           HomeUpdate, ip_task, IpUp, IpDown, ip, wifiVars
<1>15. Inv /\ Unconfigured => Withdrawn \/ IpReady
  BY DEF IpReady, IpInv, WifiTypeOK
<1>16. Unconfigured /\ <<ip_task>>_wifiVars => Withdrawn'
  BY DEF ip_task, IpUp, IpDown
<1>17. Inv /\ Told => WIFI_STATE = "CONNECTING"
  BY DEF AssocInv, WifiTypeOK
<1>18. Inv /\ Told /\ Withdrawn /\ ~Cached => HomeReady
  BY <1>17 DEF HomeReady
<1>19. Inv /\ Told /\ Withdrawn /\ <<HomeUpdate>>_wifiVars => Cached'
  BY <1>17 DEF HomeUpdate, home
<1>20. Step /\ Told /\ Withdrawn /\ Cached => Cached'
  BY <1>17 DEF WifiNext, ApChanges, Driver, DriverAssociates, DriverRefused, LinkDrops,
           Leased, Renewed, LeaseLost, connection_task, Connect, ConnectReturns, Disconnected,
           HomeUpdate, ip_task, IpUp, IpDown, home, wifiVars
<1>21. Inv /\ Cached => label = wifi_text("CONNECTING", NoAddress)
  BY DEF LabelInv
<1>22. WifiSpec => []Inv
  BY WifiTypes, AssocAlways, IpAlways, LabelAlways, PTL
<1> HIDE DEF Down, Told, Unconfigured, Withdrawn, Cached, Inv
<1>23. WifiSpec /\ []WifiCanStep /\ <>[]~ap => <>[]Down
  BY <1>2, <1>3, <1>4, <1>22, PTL DEF WifiSpec, WifiCanStep
<1>24. WifiSpec /\ []WifiCanStep /\ <>[]~ap => <>[]Told
  BY <1>5, <1>6, <1>7, <1>8, <1>9, <1>10, <1>22, <1>23, PTL DEF WifiSpec, WifiCanStep
<1>25. WifiSpec /\ []WifiCanStep /\ <>[]~ap => <>[](Unconfigured /\ Withdrawn)
  BY <1>11, <1>12, <1>13, <1>14, <1>15, <1>16, <1>22, <1>23, PTL DEF WifiSpec, WifiCanStep
<1>26. WifiSpec /\ []WifiCanStep /\ <>[]~ap => <>[]Cached
  BY <1>18, <1>19, <1>20, <1>22, <1>24, <1>25, PTL DEF WifiSpec, WifiCanStep
<1>27. QED BY <1>21, <1>22, <1>26, PTL DEF LossIsShown
===========================================================================
