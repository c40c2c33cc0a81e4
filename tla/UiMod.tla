------------------------------- MODULE UiMod -------------------------------
(***************************************************************************)
(* What the tabs of the UI share: the two Wi-Fi cells two of them show,    *)
(* the text made of them, and the way a label follows a cell: the tab      *)
(* keeps the value it rendered last and rewrites the label on a change.    *)
(***************************************************************************)
EXTENDS Naturals

CONSTANTS Addresses,   \* IPv4 addresses a DHCP server may hand out
          NoAddress    \* 0 in WIFI_IP

ASSUME AddressAssumption == NoAddress \notin Addresses

VARIABLES WIFI_STATE, WIFI_IP

States == {"UNCONFIGURED", "CONNECTING", "CONNECTED"}
MaybeAddress == Addresses \cup {NoAddress}

(* An address is shown whatever the connection state. *)
wifi_text(state, addr) ==
  IF addr # NoAddress THEN <<"ip", addr>> ELSE <<"state", state>>

WifiTexts == {wifi_text(s, a) : s \in States, a \in MaybeAddress}

(* A label and the cached value it was rendered from. *)
Label(cached, shown) == [last |-> cached, text |-> shown]

Diff(label, source, text) ==
  IF source # label.last THEN Label(source, text) ELSE label
===========================================================================
