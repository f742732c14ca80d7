------------------------------ MODULE Calendar -------------------------------
(***************************************************************************)
(* The real-time clocks (rtc.cpp, softrtc.cpp, ds1307-3231.cpp, pcf8583.cpp)   *)
(* and the date as the clock device and FatFS ask for it.  Days are real; of   *)
(* the time of day only its first and its last second are told apart.         *)
(***************************************************************************)
EXTENDS Integers, Sequences, FiniteSets

CONSTANTS
  Chip,            \* the clocks: "soft", "ds1307", "ds3231", "pcf8583"
  Dates,           \* dates the host may set the clock to, as in 20240229
  Build,           \* the date the firmware was built
  MaxDays,         \* bound: days that pass
  MaxAway,         \* bound: years the unit is switched off
  CalendarHabits   \* what may happen

AllCalendarHabits ==
  {"january",     \* the host sets the software clock in January
   "leapDay",     \* the software clock is read on February 29
   "noYear",      \* the PCF8583 answers when asked for the date, not for the year
   "notSet",      \* the chip does not answer while it is set
   "cutSet",      \* the power is cut while a clock that runs is set
   "earlyBuild"}  \* the firmware was built in the first nine days of a month
ASSUME CalendarAssumption ==
  /\ Chip \subseteq {"soft", "ds1307", "ds3231", "pcf8583"} /\ Dates \subseteq Nat
  /\ MaxDays \in Nat /\ MaxAway \in Nat /\ CalendarHabits \subseteq AllCalendarHabits

VARIABLES
  chip,         \* which of them the unit has
  rtc_state,    \* "INVALID": clk_init() has yet to set it, or "OK"
  days, late,   \* of the software clock, and whether it is 23:59:59 (for all of them)
  reg,          \* the chip's registers and RAM
  today,        \* the date the clock was last set to, and the days since; Unknown if not set
  passed,       \* days so far
  said          \* the last answer, and what FatFS would write into an entry

calendarVars == <<chip, rtc_state, days, late, reg, today, passed, said>>

-----------------------------------------------------------------------------
(* The calendar as it is. *)
month_days == <<31, 28, 31, 30, 31, 30, 31, 31, 30, 31, 30, 31>>
is_leap(y) == y % 4 = 0 /\ (y % 100 # 0 \/ y % 400 = 0)
Date(y, m, d) == [y |-> y, m |-> m, d |-> d]
DateOf(n) == Date(n \div 10000, (n \div 100) % 100, n % 100)     \* 20240229
LastDay(m, leap) == month_days[m] + (IF m = 2 /\ leap THEN 1 ELSE 0)
NextDay(t, leap) ==
  IF t.d < LastDay(t.m, leap) THEN [t EXCEPT !.d = @ + 1]
  ELSE IF t.m < 12 THEN Date(t.y, t.m + 1, 1) ELSE Date(t.y + 1, 1, 1)
Unknown == Date(0, 0, 0)

(* A date the host may ask for: it is told the year as two digits.            *)
RealDate(t) == /\ t.y \in 2000 .. 2099 /\ t.m \in 1 .. 12
               /\ t.d \in 1 .. LastDay(t.m, is_leap(t.y))
ASSUME DatesAssumption == Build \in Nat /\ \A n \in Dates \cup {Build} : RealDate(DateOf(n))

(* struct tm, and rtc_default_date: "if the RTC isn't present or not set".     *)
Tm(year, mon, mday) == [year |-> year % 256, mon |-> mon, mday |-> mday]
rtc_default_date == Tm(120, 0, 1)
SoftStart == Date(2008, 8, 2)                                    \* 1217647125 s
TmOf(t) == Tm(t.y - 1900, t.m - 1, t.d)

(* What clk_init() takes from __DATE__, which has a blank for the tens of an     *)
(* early day: ' ' - '0' is -16.                                              *)
BuildTm == LET t == DateOf(Build) IN
           Tm(t.y - 1900, t.m - 1, IF t.d < 10 THEN (t.d - 160) % 256 ELSE t.d)
int2bcd(n) == (n % 10) + 16 * (n \div 10)
bcd2int(b) == (b % 16) + 10 * (b \div 16)

-----------------------------------------------------------------------------
(* softrtc.cpp.  mktime() works with months of 8 bits and ints of 16.         *)
Int16(n) == IF n % 65536 < 32768 THEN n % 65536 ELSE (n % 65536) - 65536
mktime(tm) ==
  LET m == (tm.mon + 1 - 2) % 256
      mon == IF m = 0 THEN 12 ELSE m
      year == tm.year + 1900 - (IF m = 0 THEN 1 ELSE 0)
  IN (year \div 4) - (year \div 100) + (year \div 400) + (Int16(367 * mon) \div 12) + tm.mday
       + year * 365 - 719499

(* gmtime(): takes years off the days, then months, and a month of a leap year *)
(* after February starts a day later.  Whether a year is leap is asked of the  *)
(* years since 1900, and the last day of a leap February is in no month: the   *)
(* count runs below zero and the table of months ends.                       *)
Lost == Tm(0, 0, 0)
DaysTo(year) == 365 * (year - 1970) + ((year - 1) \div 4) - ((year - 1) \div 100)
                  + ((year - 1) \div 400) - 477
MonthStart(i, leap) ==
  <<0, 31, 59, 90, 120, 151, 181, 212, 243, 273, 304, 334>>[i + 1] + (IF leap /\ i > 1 THEN 1 ELSE 0)
InMonth(tim, i, leap) == /\ MonthStart(i, leap) <= tim
                         /\ tim < MonthStart(i, leap) + month_days[i + 1]
Month(tim, year) ==
  LET leap == is_leap(year)
      found == {i \in 0 .. 11 : InMonth(tim, i, leap)}
      i == CHOOSE i \in found : TRUE
  IN IF found = {} THEN Lost ELSE Tm(year, i, tim - MonthStart(i, leap) + 1)
gmtime(tim) ==
  LET i == CHOOSE i \in 1970 .. 1970 + (tim \div 365) : DaysTo(i) <= tim /\ tim < DaysTo(i + 1)
  IN Month(tim - DaysTo(i), i - 1900)

-----------------------------------------------------------------------------
(* The chips.  reg.day and reg.month are BCD; the DS chips have the year of     *)
(* the century in reg.yy and the century in bit 7 of reg.month, the PCF8583    *)
(* the year's last two bits in bits 6 and 7 of reg.day, and RAM, where the      *)
(* driver keeps the year and its complement.                                *)
NewChip == [day |-> 1, month |-> 1, yy |-> 0, year |-> 0, comp |-> 0, stopped |-> TRUE]
IsDs == chip \in {"ds1307", "ds3231"}
YearBits(r) == r.day \div 64
Inside(r) == Date(IF IsDs THEN bcd2int(r.yy) ELSE YearBits(r), bcd2int(r.month % 32),
                  bcd2int(r.day % 64))
ChipAt(r, t) ==
  IF IsDs
  THEN [r EXCEPT !.day = int2bcd(t.d), !.yy = int2bcd(t.y % 100),
                 !.month = int2bcd(t.m) + (IF (r.month >= 128) # (t.y > 99) THEN 128 ELSE 0)]
  ELSE [r EXCEPT !.day = int2bcd(t.d) + 64 * (t.y % 4), !.month = int2bcd(t.m)]
ChipMidnight(r) == ChipAt(r, NextDay(Inside(r), Inside(r).y % 4 = 0))
ChipYears(r, n) == ChipAt(r, [Inside(r) EXCEPT !.y = @ + n])

(* dsrtc_set() and pcf8583_set(), register by register.                       *)
SetSteps(r, tm) ==
  LET a == [r EXCEPT !.day = int2bcd(tm.mday)]
      b == [a EXCEPT !.month = int2bcd(tm.mon + 1) + (IF tm.year >= 200 THEN 128 ELSE 0)]
      c == [b EXCEPT !.yy = int2bcd(tm.year % 100)]
      p == [r EXCEPT !.day = int2bcd(tm.mday) + 64 * (tm.year % 4)]
      q == [p EXCEPT !.month = int2bcd(tm.mon + 1)]
      u == [q EXCEPT !.year = tm.year + 1900]
  IN IF chip = "ds3231" THEN <<r, a, b, c, [c EXCEPT !.stopped = FALSE]>>
     ELSE IF chip = "ds1307"
     THEN [i \in 1 .. 4 |-> [<<a, b, c, c>>[i] EXCEPT !.stopped = FALSE]]
     ELSE <<r, p, q, u, [u EXCEPT !.comp = 65535 - tm.year - 1900]>>

(* pcf8583_get(): the year in RAM is moved on until it agrees with the chip.   *)
RollYear(year, bits) == (year + ((bits - year) % 4)) % 65536
PcfRead_NotStored(r, ram) ==
  [tm |-> Tm(RollYear(ram, YearBits(r)) - 1900, bcd2int(r.month % 32) - 1, bcd2int(r.day % 64)),
   reg |-> r]
PcfRead(r, ram) ==
  LET year == RollYear(ram, YearBits(r)) IN
  [tm |-> Tm(year - 1900, bcd2int(r.month % 32) - 1, bcd2int(r.day % 64)),
   reg |-> IF year = ram THEN r ELSE [r EXCEPT !.year = year, !.comp = 65535 - year]]
DsRead(r) ==
  [tm |-> Tm(bcd2int(r.yy) + 100 + (IF r.month >= 128 THEN 100 ELSE 0),
             bcd2int(r.month % 128) - 1, bcd2int(r.day)), reg |-> r]

(* rtc_get(); nack tells what the chip does not answer.                       *)
rtc_get(nack) ==
  IF chip = "soft" THEN [tm |-> gmtime(days), reg |-> reg]
  ELSE IF rtc_state # "OK" \/ nack = "date" THEN [tm |-> rtc_default_date, reg |-> reg]
  ELSE IF IsDs THEN DsRead(reg)
  ELSE PcfRead(reg, IF nack # "year" THEN reg.year ELSE IF late THEN 22873 ELSE 0)

(* dsrtc_init() and pcf8583_init(): is the clock set?  t is the date it should   *)
(* have.  The software clock starts with a date of its own.                    *)
Valid_NoComplement(r) == ~r.stopped \/ (~IsDs /\ r.year # 0)
Valid(r) == IF IsDs THEN ~r.stopped ELSE r.comp = 65535 - r.year
Restart(r, t) ==
  /\ rtc_state' = IF chip = "soft" \/ Valid(r) THEN "OK" ELSE "INVALID"
  /\ reg' = IF chip = "pcf8583" /\ Valid(r) THEN PcfRead(r, r.year).reg ELSE r
  /\ days' = mktime(TmOf(SoftStart))
  /\ today' = IF chip = "soft" THEN SoftStart ELSE IF Valid(r) THEN t ELSE Unknown

-----------------------------------------------------------------------------
NothingSaid == [date |-> Unknown, stamp |-> 0, nack |-> FALSE]

(* rtc_set(): the unit takes the clock to be set, whether the chip answered or   *)
(* not.                                                                    *)
rtc_set(t, tm) ==
  LET steps == SetSteps(reg, tm) IN
  \/ /\ reg' = IF chip = "soft" THEN reg ELSE steps[Len(steps)]
     /\ days' = IF chip = "soft" THEN mktime(tm) ELSE days
     /\ rtc_state' = "OK" /\ today' = t
     /\ late' \in BOOLEAN
  \/ /\ "notSet" \in CalendarHabits /\ chip # "soft"
     /\ rtc_state' = "OK" /\ today' = t
     /\ UNCHANGED <<days, reg, late>>
  \/ /\ chip # "soft"        \* the power is cut before all of it is written
     /\ "cutSet" \in CalendarHabits \/ (rtc_state = "INVALID" /\ chip # "ds1307")
     /\ \E i \in 1 .. Len(steps) - 1 : Restart(steps[i], today)
     /\ UNCHANGED late

(* At every start clk_init() sets a clock that is not set to the date the        *)
(* firmware was built.                                                      *)
clk_init ==
  /\ rtc_state = "INVALID"
  /\ DateOf(Build).d < 10 => "earlyBuild" \in CalendarHabits
  /\ rtc_set(DateOf(Build), BuildTm)
  /\ UNCHANGED <<chip, passed, said>>

(* clk_write(): the host sets the clock.                                      *)
SetTo(t) ==
  /\ rtc_state = "OK"
  /\ chip = "soft" /\ t.m = 1 => "january" \in CalendarHabits
  /\ rtc_set(t, TmOf(t)) /\ said' = NothingSaid
  /\ UNCHANGED <<chip, passed>>

(* The date is read and written as 20YY, and packed for FatFS, get_fattime().  *)
get_fattime_Month0(tm) == ((tm.year - 80) % 128) * 512 + tm.mon * 32 + tm.mday
get_fattime(tm) == ((tm.year - 80) % 128) * 512 + (tm.mon + 1) * 32 + tm.mday
Nacks == {"no"} \cup (IF chip = "soft" THEN {} ELSE {"date"})
                \cup (IF chip = "pcf8583" /\ "noYear" \in CalendarHabits THEN {"year"} ELSE {})
Tell ==
  /\ rtc_state = "OK"
  /\ chip = "soft" /\ gmtime(days) = Lost => "leapDay" \in CalendarHabits
  /\ \E nack \in Nacks :
       LET r == rtc_get(nack) IN
       /\ reg' = r.reg
       /\ said' = [date |-> Date(2000 + (r.tm.year % 100), r.tm.mon + 1, r.tm.mday),
                   stamp |-> get_fattime(r.tm), nack |-> nack = "date"]
  /\ UNCHANGED <<chip, rtc_state, days, late, today, passed>>

(* Time passes, softrtc_tick() and the chips counting.                        *)
Evening == ~late /\ late' = TRUE /\ UNCHANGED <<chip, rtc_state, days, reg, today, passed, said>>
Midnight ==
  /\ late /\ late' = FALSE /\ passed < MaxDays /\ passed' = passed + 1
  /\ days' = days + 1 /\ reg' = IF chip = "soft" \/ today = Unknown THEN reg ELSE ChipMidnight(reg)
  /\ today' = IF today = Unknown THEN today ELSE NextDay(today, is_leap(today.y))
  /\ said' = NothingSaid
  /\ UNCHANGED <<chip, rtc_state>>

(* The unit is switched off, for n years, and on again.                       *)
Away(n) ==
  /\ n > 0 => passed < MaxDays /\ today.m # 2 /\ today.d < 29
  /\ passed' = IF n > 0 THEN passed + 1 ELSE passed
  /\ IF chip = "soft" \/ today = Unknown THEN Restart(reg, today)
     ELSE Restart(ChipYears(reg, n), [today EXCEPT !.y = @ + n])
  /\ said' = NothingSaid
  /\ UNCHANGED <<chip, late>>

CalendarInit ==
  /\ chip \in Chip /\ rtc_state = (IF chip = "soft" THEN "OK" ELSE "INVALID")
  /\ days = mktime(TmOf(SoftStart)) /\ late = FALSE
  /\ reg = NewChip /\ today = (IF chip = "soft" THEN SoftStart ELSE Unknown)
  /\ passed = 0 /\ said = NothingSaid

CalendarNext ==
  \/ clk_init
  \/ \E n \in Dates : SetTo(DateOf(n))
  \/ Tell \/ Evening \/ Midnight
  \/ \E n \in 0 .. MaxAway : Away(n)

CalendarSpec == CalendarInit /\ [][CalendarNext]_calendarVars

-----------------------------------------------------------------------------
(* The host is told the date it is: the one it set, or, if it never did, the one   *)
(* the firmware put into the chip at its first start (a software clock: at this   *)
(* one), and the days since, power on or off, over the ends of months and years,  *)
(* and though the power was cut while the firmware set the chip.  When the chip   *)
(* does not answer it is told the default date.                               *)
TellsDate ==
  said # NothingSaid => said.date = IF said.nack THEN Date(2020, 1, 1) ELSE today

(* A file is stamped with the date the clock device tells.                    *)
StampsDate ==
  said # NothingSaid =>
    said.date = Date(1980 + (said.stamp \div 512), (said.stamp \div 32) % 16, said.stamp % 32)

(* The host and the card's directories are given the same, right date            *)
(* (clk_read(), get_fattime()).                                               *)
DatesRight == TellsDate /\ StampsDate

(* The PCF8583 knows four years; once it is set the year kept beside it is        *)
(* whole, never ahead, and never so far behind that the next read cannot tell     *)
(* (pcf8583_init(), pcf8583_get()).                                           *)
YearFollows ==
  chip = "pcf8583" /\ rtc_state = "OK" =>
    today # Unknown /\ Valid(reg) /\ reg.year \in today.y - 3 .. today.y
=============================================================================
