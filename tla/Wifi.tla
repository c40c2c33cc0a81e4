-------------------------------- MODULE Wifi ------------------------------
(***************************************************************************)
(* The Wi-Fi station of a build with credentials: connection_task keeps    *)
(* the radio associated, net_task (embassy-net) runs DHCP over the link,   *)
(* ip_task publishes the lease, and the Home tab shows both cells in one   *)
(* label.  The radio driver, the stack and the access point are external.  *)
(***************************************************************************)
EXTENDS UiMod

VARIABLES ap,          \* all an association needs is there (external)
          link,        \* the station is associated (driver, external)
          outcome,     \* result of the pending connect_async (external)
          config,      \* IPv4 configuration of the stack (external)
          renumbered,  \* ghost: a renewal has changed the address of the lease
          conn_at,     \* where connection_task waits
          ip_at,       \* where ip_task waits
          last_wifi,   \* HomeTab's cache of the two cells
          label        \* what the Home tab shows

radio == <<ap, link, outcome>>
stack == <<config, renumbered>>
conn == <<conn_at, WIFI_STATE>>
ip == <<ip_at, WIFI_IP>>
home == <<last_wifi, label>>
wifiVars == <<radio, stack, conn, ip, home>>

WifiTypeOK ==
  /\ ap \in BOOLEAN /\ link \in BOOLEAN
  /\ outcome \in {"none", "ok", "err"}
  /\ config \in MaybeAddress /\ renumbered \in BOOLEAN
  /\ conn_at \in {"start", "connect", "disconnect", "pause"}
  /\ WIFI_STATE \in {"CONNECTING", "CONNECTED"}
  /\ ip_at \in {"wait_up", "wait_down"}
  /\ WIFI_IP \in MaybeAddress
  /\ last_wifi \in States \X MaybeAddress
  /\ label \in WifiTexts

(* wifi::start has stored CONNECTING and spawned the tasks; DemoView is    *)
(* created before any of them runs.                                        *)
WifiInit ==
  /\ ap \in BOOLEAN /\ link = FALSE /\ outcome = "none"
  /\ config = NoAddress /\ renumbered = FALSE
  /\ conn_at = "start" /\ WIFI_STATE = "CONNECTING"
  /\ ip_at = "wait_up" /\ WIFI_IP = NoAddress
  /\ last_wifi = <<"UNCONFIGURED", NoAddress>>
  /\ label = wifi_text("CONNECTING", NoAddress)

---------------------------------------------------------------------------
(* The radio and the stack. *)

ApChanges ==
  /\ ap' = ~ap
  /\ UNCHANGED <<link, outcome, stack, conn, ip, home>>

DriverAssociates ==
  /\ conn_at = "connect" /\ outcome = "none" /\ ap
  /\ outcome' = "ok" /\ link' = TRUE
  /\ UNCHANGED <<ap, stack, conn, ip, home>>

DriverRefused ==
  /\ conn_at = "connect" /\ outcome = "none" /\ ~ap
  /\ outcome' = "err"
  /\ UNCHANGED <<ap, link, stack, conn, ip, home>>

LinkDrops ==
  /\ link /\ ~ap
  /\ link' = FALSE
  /\ UNCHANGED <<ap, outcome, stack, conn, ip, home>>

(* A first lease takes DHCP several polls of net_task; ip_task, woken when *)
(* the previous lease went, is polled between two of them.                 *)
Leased(a) ==
  /\ link /\ config = NoAddress /\ ip_at = "wait_up"
  /\ config' = a
  /\ UNCHANGED <<renumbered, radio, conn, ip, home>>

(* A renewal is one message: the configuration is never down.  The server  *)
(* may take the occasion to assign another address.                        *)
Renewed(a) ==
  /\ link /\ config \notin {NoAddress, a}
  /\ config' = a
  /\ renumbered' = TRUE
  /\ UNCHANGED <<radio, conn, ip, home>>

(* The lease expired, or the stack saw the link go down. *)
LeaseLost ==
  /\ config # NoAddress
  /\ config' = NoAddress
  /\ renumbered' = FALSE
  /\ UNCHANGED <<radio, conn, ip, home>>

StackSeesLinkDown == ~link /\ LeaseLost

---------------------------------------------------------------------------
(* connection_task *)

(* Mutant of Connect: a failed or lost association is not tried again.     *)
ConnectOnce ==
  /\ conn_at = "start"
  /\ conn_at' = "connect" /\ WIFI_STATE' = "CONNECTING"
  /\ UNCHANGED <<radio, stack, ip, home>>

Connect ==
  /\ conn_at \in {"start", "pause"}
  /\ conn_at' = "connect" /\ WIFI_STATE' = "CONNECTING"
  /\ UNCHANGED <<radio, stack, ip, home>>

ConnectReturns ==
  /\ conn_at = "connect" /\ outcome # "none"
  /\ outcome' = "none"
  /\ IF outcome = "ok"
     THEN conn_at' = "disconnect" /\ WIFI_STATE' = "CONNECTED"
     ELSE conn_at' = "pause" /\ UNCHANGED WIFI_STATE
  /\ UNCHANGED <<ap, link, stack, ip, home>>

(* Mutant of Disconnected: the wrong constant is stored.                   *)
DisconnectedWrongState ==
  /\ conn_at = "disconnect" /\ ~link
  /\ conn_at' = "pause" /\ WIFI_STATE' = "UNCONFIGURED"
  /\ UNCHANGED <<radio, stack, ip, home>>

(* wait_for_disconnect_async returns once the link is down, also when it   *)
(* went down before the call.                                              *)
Disconnected ==
  /\ conn_at = "disconnect" /\ ~link
  /\ conn_at' = "pause" /\ WIFI_STATE' = "CONNECTING"
  /\ UNCHANGED <<radio, stack, ip, home>>

---------------------------------------------------------------------------
(* ip_task and the Home tab *)

IpUp ==
  /\ ip_at = "wait_up" /\ config # NoAddress
  /\ WIFI_IP' = config
  /\ ip_at' = "wait_down"
  /\ UNCHANGED <<radio, stack, conn, home>>

(* Mutant of IpDown: the address of the lease that went is not cleared.    *)
IpDownKeepsAddress ==
  /\ ip_at = "wait_down" /\ config = NoAddress
  /\ ip_at' = "wait_up"
  /\ UNCHANGED <<WIFI_IP, radio, stack, conn, home>>

IpDown ==
  /\ ip_at = "wait_down" /\ config = NoAddress
  /\ WIFI_IP' = NoAddress
  /\ ip_at' = "wait_up"
  /\ UNCHANGED <<radio, stack, conn, home>>

(* Mutant of HomeUpdate: only the connection state is compared.            *)
HomeUpdateStateOnly ==
  /\ IF WIFI_STATE # last_wifi[1]
     THEN /\ last_wifi' = <<WIFI_STATE, WIFI_IP>>
          /\ label' = wifi_text(WIFI_STATE, WIFI_IP)
     ELSE UNCHANGED home
  /\ UNCHANGED <<radio, stack, conn, ip>>

HomeUpdate ==
  /\ IF <<WIFI_STATE, WIFI_IP>> # last_wifi
     THEN /\ last_wifi' = <<WIFI_STATE, WIFI_IP>>
          /\ label' = wifi_text(WIFI_STATE, WIFI_IP)
     ELSE UNCHANGED home
  /\ UNCHANGED <<radio, stack, conn, ip>>

Driver == DriverAssociates \/ DriverRefused \/ LinkDrops
connection_task == Connect \/ ConnectReturns \/ Disconnected
ip_task == IpUp \/ IpDown

WifiNext ==
  \/ ApChanges \/ Driver
  \/ (\E a \in Addresses : Leased(a) \/ Renewed(a)) \/ LeaseLost
  \/ connection_task \/ ip_task \/ HomeUpdate

(* Timers fire, woken tasks are polled, the UI loop runs; the driver       *)
(* answers a connect and reports a lost link; the stack follows the link.  *)
WifiSpec ==
  /\ WifiInit /\ [][WifiNext]_wifiVars
  /\ WF_wifiVars(Driver) /\ WF_wifiVars(StackSeesLinkDown)
  /\ WF_wifiVars(connection_task) /\ WF_wifiVars(ip_task) /\ WF_wifiVars(HomeUpdate)

---------------------------------------------------------------------------

(* The address the UI is given is the stack's own for every lease that     *)
(* keeps its address, losses and new leases on either side of it included, *)
(* unless the stack has lost its configuration and ip_task has not run     *)
(* since.                                                                  *)
LeaseIsPublished ==
  WIFI_IP # NoAddress /\ config # NoAddress /\ ~renumbered => WIFI_IP = config

(* The same of every lease (wifi.rs:149, "Tracks DHCP state, publishing    *)
(* the IPv4 address for the UI").                                          *)
AddressTracksLease == WIFI_IP # NoAddress /\ config # NoAddress => WIFI_IP = config

(* However often association failed before, a network that comes back for  *)
(* good is joined for good, and the UI is told.                            *)
KeepsAssociating == <>[]ap => <>[](WIFI_STATE = "CONNECTED")

(* A network that goes away for good leaves no trace on the Home tab: both *)
(* the address and the connected state go, in whatever order the two tasks *)
(* notice.                                                                 *)
LossIsShown == <>[]~ap => <>[](label = wifi_text("CONNECTING", NoAddress))

(* A lease kept for good, with its address, ends up on the Home tab,       *)
(* whatever happened to the leases before it.                              *)
LeaseIsShown ==
  \A a \in Addresses :
    <>[](config = a /\ ~renumbered) => <>[](label = wifi_text("CONNECTED", a))
===========================================================================
