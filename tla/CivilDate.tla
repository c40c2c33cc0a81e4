----------------------------- MODULE CivilDate ----------------------------
(***************************************************************************)
(* datetime_from_epoch and the BCD registers of the PCF85063, against the  *)
(* device that counts on from what was written to it.  An epoch is the     *)
(* pair of its day and its second of the day, the two numbers the code     *)
(* splits it into first: TLC's integers are narrower than a u32.           *)
(***************************************************************************)
EXTENDS Integers

CONSTANTS MaxDay,      \* last day a set command may name, counted from 2000-01-01
          LastSecs,    \* the sets considered fall on these seconds of a day
          Run          \* seconds the device is watched for after a set

ASSUME CivilAssumption ==
  /\ MaxDay \in Nat
  /\ \A s \in LastSecs : s \in Nat /\ s <= 86399
  /\ Run \in Nat /\ Run <= 86400

VARIABLES day, sec,    \* the moment the device should show
          regs,        \* the time registers of the device, BCD
          ran          \* seconds since the set

civilVars == <<day, sec, regs, ran>>

bcd_to_bin(b) == (b \div 16) * 10 + (b % 16)

bin_to_bcd(b) == (b \div 10) * 16 + (b % 10)

(* Mutant of date_from_day: January and February stay in the year the      *)
(* algorithm's year began in.                                              *)
date_from_dayMarchYear(d) ==
  LET z == d + 730425
      era == z \div 146097
      doe == z - era * 146097
      yoe == (doe - doe \div 1460 + doe \div 36524 - doe \div 146096) \div 365
      doy == doe - (365 * yoe + yoe \div 4 - yoe \div 100)
      mp == (5 * doy + 2) \div 153
  IN [year  |-> era * 400 + yoe,
      month |-> IF mp < 10 THEN mp + 3 ELSE mp - 9,
      day   |-> doy - (153 * mp + 2) \div 5 + 1]

(* Howard Hinnant's civil_from_days; 2000-01-01 is day 730425 of an era    *)
(* base that starts on 0000-03-01.                                         *)
date_from_day(d) ==
  LET z == d + 730425
      era == z \div 146097
      doe == z - era * 146097
      yoe == (doe - doe \div 1460 + doe \div 36524 - doe \div 146096) \div 365
      doy == doe - (365 * yoe + yoe \div 4 - yoe \div 100)
      mp == (5 * doy + 2) \div 153
      early == mp < 10
  IN [year  |-> era * 400 + yoe + (IF early THEN 0 ELSE 1),
      month |-> IF early THEN mp + 3 ELSE mp - 9,
      day   |-> doy - (153 * mp + 2) \div 5 + 1]

datetime_from_epoch(d, rem) ==
  [date |-> date_from_day(d),
   time |-> [hour |-> rem \div 3600, minute |-> (rem \div 60) % 60, second |-> rem % 60]]

(* Pcf85063::set: the seven bytes of the burst, the weekday left out.      *)
set(dt) ==
  [second |-> bin_to_bcd(dt.time.second),
   minute |-> bin_to_bcd(dt.time.minute),
   hour   |-> bin_to_bcd(dt.time.hour),
   day    |-> bin_to_bcd(dt.date.day),
   month  |-> bin_to_bcd(dt.date.month),
   year   |-> bin_to_bcd(dt.date.year % 100)]

(* Pcf85063::read, the unused bits of each register masked off.            *)
read(r) ==
  [date |-> [year |-> 2000 + bcd_to_bin(r.year),
             month |-> bcd_to_bin(r.month % 32), day |-> bcd_to_bin(r.day % 64)],
   time |-> [hour |-> bcd_to_bin(r.hour % 64),
             minute |-> bcd_to_bin(r.minute % 128), second |-> bcd_to_bin(r.second % 128)]]

---------------------------------------------------------------------------
(* The device: a chain of BCD counters with the calendar's carries, and a  *)
(* leap year whenever the two digits of the year divide by four.           *)

BcdNext(b) == IF b % 16 = 9 THEN b + 7 ELSE b + 1

MonthLast(r) ==
  IF r.month = 2
  THEN IF bcd_to_bin(r.year) % 4 = 0 THEN 41 ELSE 40       \* 0x29, 0x28
  ELSE IF r.month \in {4, 6, 9, 17} THEN 48 ELSE 49        \* 0x30, 0x31

CarryYear(r) == [r EXCEPT !.year = IF @ = 153 THEN 0 ELSE BcdNext(@)]

CarryMonth(r) ==
  IF r.month = 18 THEN CarryYear([r EXCEPT !.month = 1])
  ELSE [r EXCEPT !.month = BcdNext(@)]

CarryDay(r) ==
  IF r.day = MonthLast(r) THEN CarryMonth([r EXCEPT !.day = 1])
  ELSE [r EXCEPT !.day = BcdNext(@)]

CarryHour(r) ==
  IF r.hour = 35 THEN CarryDay([r EXCEPT !.hour = 0]) ELSE [r EXCEPT !.hour = BcdNext(@)]

CarryMinute(r) ==
  IF r.minute = 89 THEN CarryHour([r EXCEPT !.minute = 0])
  ELSE [r EXCEPT !.minute = BcdNext(@)]

DeviceSecond(r) ==
  IF r.second = 89 THEN CarryMinute([r EXCEPT !.second = 0])
  ELSE [r EXCEPT !.second = BcdNext(@)]

CivilInit ==
  /\ day \in 0 .. MaxDay /\ sec \in LastSecs
  /\ regs = set(datetime_from_epoch(day, sec))
  /\ ran = 0

DeviceCounts ==
  /\ ran < Run
  /\ ran' = ran + 1
  /\ regs' = DeviceSecond(regs)
  /\ sec' = (sec + 1) % 86400
  /\ day' = IF sec = 86399 THEN day + 1 ELSE day

CivilSpec == CivilInit /\ [][DeviceCounts]_civilVars

---------------------------------------------------------------------------

(* pcf85063.rs:21, "Full year, 2000-2099".                                 *)
(* What the hub reads back is the moment it set, moved on by the seconds   *)
(* that passed: the conversion, the BCD coding in both directions and the  *)
(* carries of the device agree across midnight, month ends, leap days and  *)
(* year ends.                                                              *)
ClockKeepsCalendar == read(regs) = datetime_from_epoch(day, sec)
===========================================================================
