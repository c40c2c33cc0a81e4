------------------------------ MODULE PmuPoll -----------------------------
(***************************************************************************)
(* The AXP2101 as the sensor hub polls it, about once a second.  A poll is *)
(* up to three bus operations (status, voltage, gauge), each folded into   *)
(* the tracker on its own, and publishes three cells: the status flags,    *)
(* the battery voltage and the charge.                                     *)
(***************************************************************************)
EXTENDS Health

CONSTANTS Statuses,     \* status readings considered
          MilliVolts,   \* battery voltages the ADC may return
          Gauge,        \* values of the gauge register, bytes
          Unknown       \* BAT_PERCENT_UNKNOWN, 0xFF

(* The charger reports that it is charging, or done, whether or not a      *)
(* battery is attached.                                                    *)
Status == [vbus : BOOLEAN, battery : BOOLEAN,
           charging : BOOLEAN, charge_done : BOOLEAN]

ASSUME PmuAssumption ==
  /\ Statuses \subseteq Status
  /\ MilliVolts \subseteq Nat
  /\ Gauge \subseteq Nat
  /\ Unknown \in Nat /\ Unknown > 100

VARIABLES pmu,          \* the tracker
          PMU_FLAGS,    \* set of the flag bits that are on
          BAT_MV,       \* millivolts, 0 = unknown or no battery
          BAT_PERCENT   \* 0 .. 100 or Unknown

pmuPublished == <<PMU_FLAGS, BAT_MV, BAT_PERCENT>>
pmuVars == <<pmu, pmuPublished>>

Flags == {"OK", "VBUS", "BATTERY", "CHARGING", "CHARGE_DONE"}

PmuTypeOK ==
  /\ pmu \in HealthState
  /\ PMU_FLAGS \subseteq Flags
  /\ BAT_MV \in MilliVolts \cup {0}
  /\ BAT_PERCENT \in (0 .. 100) \cup {Unknown}

PmuInit ==
  /\ pmu \in {HealthNew(ok) : ok \in BOOLEAN}    \* the result of init()
  /\ PMU_FLAGS = {}
  /\ BAT_MV = 0
  /\ BAT_PERCENT = Unknown

AtMost100(n) == IF n > 100 THEN 100 ELSE n

FlagsOf(st) ==
  {"OK"} \cup (IF st.vbus THEN {"VBUS"} ELSE {})
         \cup (IF st.battery THEN {"BATTERY"} ELSE {})
         \cup (IF st.battery /\ st.charging THEN {"CHARGING"} ELSE {})
         \cup (IF st.battery /\ st.charge_done THEN {"CHARGE_DONE"} ELSE {})

PmuStatusFails ==
  /\ pmu.ok
  /\ pmu' = Check(pmu, FALSE)
  /\ UNCHANGED pmuPublished

(* Mutant of PmuNoBattery: the sentinels are not written.                     *)
PmuNoBatteryKeepsReading(st) ==
  /\ pmu.ok /\ ~st.battery
  /\ pmu' = Check(pmu, TRUE)
  /\ PMU_FLAGS' = FlagsOf(st)
  /\ UNCHANGED <<BAT_MV, BAT_PERCENT>>

(* The ADC floats without a battery: the sentinels are published. *)
PmuNoBattery(st) ==
  /\ pmu.ok /\ ~st.battery
  /\ pmu' = Check(pmu, TRUE)
  /\ PMU_FLAGS' = FlagsOf(st)
  /\ BAT_MV' = 0
  /\ BAT_PERCENT' = Unknown

(* With a battery, voltage and charge are read one after the other, and    *)
(* each is published only if its own read succeeded (mv_ok, pct_ok).       *)
PmuBattery(st, mv_ok, mv, pct_ok, pct) ==
  /\ pmu.ok /\ st.battery
  /\ pmu' = Check(Check(Check(pmu, TRUE), mv_ok), pct_ok)
  /\ PMU_FLAGS' = FlagsOf(st)
  /\ BAT_MV' = IF mv_ok THEN mv ELSE BAT_MV
  /\ BAT_PERCENT' = IF pct_ok THEN AtMost100(pct) ELSE BAT_PERCENT

PmuSkip == ~pmu.ok /\ UNCHANGED pmuVars

PmuMeasuredPoll ==
  \E st \in Statuses, mv_ok, pct_ok \in BOOLEAN,
     mv \in MilliVolts, pct \in Gauge :
    PmuBattery(st, mv_ok, mv, pct_ok, pct)

PollPmu ==
  \/ PmuStatusFails
  \/ \E st \in Statuses : PmuNoBattery(st)
  \/ PmuMeasuredPoll
  \/ PmuSkip

PmuNext == PollPmu

PmuSpec == PmuInit /\ [][PmuNext]_pmuVars

---------------------------------------------------------------------------

(* With the PMU answering and no battery attached the sentinels are up, so *)
(* the charge of a battery that was pulled is never shown; and the charge  *)
(* flags, which the charger reports regardless, are never shown then.      *)
NoBatterySentinels ==
  "BATTERY" \notin PMU_FLAGS
    => /\ BAT_MV = 0
       /\ BAT_PERCENT = Unknown
       /\ PMU_FLAGS \cap {"CHARGING", "CHARGE_DONE"} = {}

(* sensors.rs:44, "BAT_PERCENT_UNKNOWN = no battery attached", which the   *)
(* Home tab takes it for: a charge shown as unknown is that of no battery. *)
UnknownMeansNoBattery ==
  "OK" \in PMU_FLAGS /\ BAT_PERCENT = Unknown => "BATTERY" \notin PMU_FLAGS
===========================================================================
