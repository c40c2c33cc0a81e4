-------------------------------- MODULE Sntp ------------------------------
(***************************************************************************)
(* sntp_task: wait for a network configuration, make one attempt (a DNS    *)
(* query, one request, one reply, all of it under a timeout), then sleep a *)
(* day after a success and a minute after anything else.  A reply that     *)
(* passes the checks of sync_once becomes a set command for the hub.  The  *)
(* network stack, the resolver, the servers and the wire are external.     *)
(***************************************************************************)
EXTENDS SetCommand, Integers, FiniteSets, Sequences

CONSTANTS MaxUtc,     \* bound on server times, seconds since 2000
          TzSeconds,  \* TZ_OFFSET_MINUTES * 60
          NtpToY2k,   \* NTP_TO_Y2K, seconds from 1900 to 2000
          NtpWrap,    \* 2^32: the timestamps of NTP wrap there
          Refusals,   \* the checks of a reply that datagrams may fail
          MaxWire,    \* bound on the datagrams under way
          RxSlots     \* datagrams the socket holds, rx_meta, 2 in the code

ASSUME SntpAssumption ==
  /\ MaxUtc \in Nat
  /\ TzSeconds \in Int
  /\ NtpToY2k \in Nat /\ NtpWrap \in Nat /\ NtpToY2k < NtpWrap
  /\ MaxWire \in Nat \ {0} /\ RxSlots \in Nat \ {0}

ASSUME RefusalAssumption ==
  Refusals \subseteq {"unexpected host", "short", "not a server", "kiss of death"}

VARIABLES sntp_at,        \* where sntp_task waits
          config_up,      \* the stack has a configuration (external)
          calm,           \* the network and the servers work (external)
          owed,           \* the request will be answered (external)
          wire,           \* datagrams addressed to LOCAL_PORT (external)
          rx,             \* receive buffer of the attempt's socket
          stale           \* ghost: the last time taken answered no request
                          \* of the attempt that took it

network == <<config_up, calm, owed, wire>>
attempt == <<rx, stale>>
sntpVars == <<sntp_at, network, attempt, RTC_SET_EPOCH>>

(* What can come back: a server's timestamp, or a datagram one of the      *)
(* checks refuses.  fresh is a ghost: it answers the attempt under way.    *)
Answer(n, fresh) == [kind |-> "time", ntp |-> n, fresh |-> fresh]
Refused(k) == [kind |-> k, ntp |-> 0, fresh |-> FALSE]
Aged(d) == [kind |-> d.kind, ntp |-> d.ntp, fresh |-> FALSE]
Datagrams ==
  {Answer(n, fresh) : n \in 0 .. NtpWrap - 1, fresh \in BOOLEAN}
    \cup {Refused(k) : k \in Refusals}

(* The transmit timestamp of a server whose clock is right. *)
Timestamp(utc) == (utc + NtpToY2k) % NtpWrap

SntpTypeOK ==
  /\ sntp_at \in {"config", "dns", "reply", "resync", "retry"}
  /\ config_up \in BOOLEAN /\ calm \in BOOLEAN /\ owed \in BOOLEAN
  /\ wire \subseteq Datagrams
  /\ rx \in Seq(Datagrams) /\ stale \in BOOLEAN
  /\ RTC_SET_EPOCH \in Moments

(* checked_sub: a timestamp before 2000 is an error. *)
InEra(d) == d.kind = "time" /\ d.ntp >= NtpToY2k

(* Mutant of LocalTime: the sum is not clamped from above.                 *)
LocalTimeUnbounded(utc) == LET t == utc + TzSeconds IN IF t < 1 THEN 1 ELSE t

LocalTime(utc) ==
  LET t == utc + TzSeconds
  IN IF t < 1 THEN 1 ELSE IF t > MaxEpoch THEN MaxEpoch ELSE t

SntpInit ==
  /\ sntp_at = "config"
  /\ config_up = FALSE /\ calm \in BOOLEAN /\ owed = FALSE
  /\ wire = {} /\ rx = <<>> /\ stale = FALSE
  /\ RTC_SET_EPOCH = 0

---------------------------------------------------------------------------
(* The network. *)

ConfigChanges ==
  /\ calm => ~config_up
  /\ config_up' = ~config_up
  /\ UNCHANGED <<sntp_at, calm, owed, wire, attempt, RTC_SET_EPOCH>>

Disturbed ==
  /\ calm' = ~calm
  /\ owed' = FALSE
  /\ UNCHANGED <<sntp_at, config_up, wire, attempt, RTC_SET_EPOCH>>

(* A server answers a request.  A disturbed network may also answer for    *)
(* it, answer twice, or deliver what belongs to an attempt long given up:  *)
(* every attempt binds the same local port.                                *)
Arrives(d) ==
  /\ calm => owed /\ \E utc \in 0 .. MaxUtc : d = Answer(Timestamp(utc), TRUE)
  /\ Cardinality(wire) < MaxWire
  /\ d.kind = "time" => d.fresh = (sntp_at = "reply")
  /\ wire' = wire \cup {d}
  /\ owed' = FALSE
  /\ UNCHANGED <<sntp_at, config_up, calm, attempt, RTC_SET_EPOCH>>

(* The stack puts a datagram into the socket bound to the port, if there   *)
(* is one and it has room; otherwise it drops it.                          *)
Delivered(d) ==
  /\ d \in wire
  /\ wire' = wire \ {d}
  /\ rx' = IF sntp_at = "reply" /\ Len(rx) < RxSlots THEN Append(rx, d) ELSE rx
  /\ UNCHANGED <<sntp_at, config_up, calm, owed, stale, RTC_SET_EPOCH>>

Lost(d) ==
  /\ d \in wire /\ ~calm
  /\ wire' = wire \ {d}
  /\ UNCHANGED <<sntp_at, config_up, calm, owed, attempt, RTC_SET_EPOCH>>

---------------------------------------------------------------------------
(* sntp_task *)

ConfigUp ==
  /\ sntp_at = "config" /\ config_up
  /\ sntp_at' = "dns"
  /\ UNCHANGED <<network, attempt, RTC_SET_EPOCH>>

(* The query succeeded; the socket is bound and the request sent without   *)
(* suspending.  No address, a refused bind or a refused send ends the      *)
(* attempt like a failed query.  What is still under way answers an        *)
(* earlier request.                                                        *)
Requested ==
  /\ sntp_at = "dns"
  /\ sntp_at' = "reply"
  /\ owed' = calm
  /\ wire' = {Aged(d) : d \in wire}
  /\ UNCHANGED <<config_up, calm, attempt, RTC_SET_EPOCH>>

NotRequested ==
  /\ sntp_at = "dns" /\ ~calm
  /\ sntp_at' = "retry"
  /\ UNCHANGED <<network, attempt, RTC_SET_EPOCH>>

(* Mutant of SocketDropped: the socket is kept for the next attempt.       *)
SocketKept ==
  rx' = IF rx = <<>> THEN rx
        ELSE [i \in 1 .. Len(rx) - 1 |-> Aged(rx[i + 1])]

(* The end of an attempt drops its socket, with what it had not received.  *)
SocketDropped == rx' = <<>>

(* The first datagram received decides the attempt. *)
Synced ==
  /\ sntp_at = "reply" /\ rx # <<>> /\ InEra(Head(rx))
  /\ RTC_SET_EPOCH' = LocalTime(Head(rx).ntp - NtpToY2k)
  /\ stale' = ~Head(rx).fresh
  /\ SocketDropped
  /\ sntp_at' = "resync"
  /\ UNCHANGED network

(* Mutant of ReplyRefused: the refusal sleeps as a success would.          *)
ReplyRefusedResync ==
  /\ sntp_at = "reply" /\ rx # <<>> /\ ~InEra(Head(rx))
  /\ SocketDropped
  /\ sntp_at' = "resync"
  /\ UNCHANGED <<network, stale, RTC_SET_EPOCH>>

ReplyRefused ==
  /\ sntp_at = "reply" /\ rx # <<>> /\ ~InEra(Head(rx))
  /\ SocketDropped
  /\ sntp_at' = "retry"
  /\ UNCHANGED <<network, stale, RTC_SET_EPOCH>>

(* Mutant of TimedOut: the attempt is awaited without a timeout.           *)
TimedOutNever == FALSE /\ UNCHANGED sntpVars

(* The attempt is dropped wherever it waits, its socket with it. *)
TimedOut ==
  /\ sntp_at \in {"dns", "reply"}
  /\ calm => sntp_at = "reply" /\ wire = {} /\ rx = <<>> /\ ~owed
  /\ SocketDropped
  /\ sntp_at' = "retry"
  /\ UNCHANGED <<network, stale, RTC_SET_EPOCH>>

(* Mutant of Wakes: after a success the task is done.                      *)
WakesToRetry ==
  /\ sntp_at = "retry"
  /\ calm => wire = {}
  /\ sntp_at' = "config"
  /\ UNCHANGED <<network, attempt, RTC_SET_EPOCH>>

(* The shorter of the sleeps, a minute, outlasts any datagram of a calm    *)
(* network.                                                                *)
Wakes ==
  /\ sntp_at \in {"resync", "retry"}
  /\ calm => wire = {}
  /\ sntp_at' = "config"
  /\ UNCHANGED <<network, attempt, RTC_SET_EPOCH>>

(* The hub takes the command: swap(0). *)
Consumed ==
  /\ RTC_SET_EPOCH' = 0
  /\ UNCHANGED <<sntp_at, network, attempt>>

SyncOnce == Requested \/ NotRequested \/ Synced \/ ReplyRefused \/ TimedOut

Network ==
  \/ ConfigChanges \/ Disturbed
  \/ \E d \in Datagrams : Arrives(d) \/ Delivered(d) \/ Lost(d)

sntp_task == ConfigUp \/ SyncOnce \/ Wakes

SntpNext == Network \/ sntp_task \/ Consumed

(* A calm network brings the configuration up and delivers the answers it  *)
(* owes; timers fire and woken tasks are polled; the hub ticks.            *)
NetworkFairness ==
  /\ WF_sntpVars(calm /\ ConfigChanges)
  /\ WF_sntpVars(calm /\ \E d \in Datagrams : Arrives(d))
  /\ WF_sntpVars(calm /\ \E d \in Datagrams : Delivered(d))

SntpSpec ==
  /\ SntpInit /\ [][SntpNext]_sntpVars
  /\ NetworkFairness /\ WF_sntpVars(sntp_task) /\ WF_sntpVars(Consumed)

---------------------------------------------------------------------------

(* A sync reported as a success, which is good for a day of sleep, has left*)
(* a command for the hub: neither a refused datagram nor a local time at   *)
(* or before the epoch ends that way without one.                          *)
SuccessQueuesCommand ==
  [][sntp_at # "resync" /\ sntp_at' = "resync" => RTC_SET_EPOCH' # 0]_sntpVars

(* Once the network stays calm the client syncs again and again, whatever  *)
(* lost requests, foreign datagrams and timed-out attempts came before     *)
(* (sntp.rs:33, "then keeps the RTC synced").                              *)
KeepsSyncing == <>[]calm => []<>(sntp_at = "resync")

(* Nothing in a reply is compared with the request, so a late answer to an *)
(* attempt given up is taken for an answer to the one under way.  That     *)
(* does not last: in a calm network the times taken are in the end all     *)
(* answers to the request just sent, and no leftover of one attempt shifts *)
(* the answers of those that follow.                                       *)
StaleTimeIsReplaced == <>[]calm => <>[]~stale
===========================================================================
