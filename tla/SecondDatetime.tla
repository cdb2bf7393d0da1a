--------------------------- MODULE SecondDatetime ---------------------------
(***************************************************************************)
(* misc/second_datetime.c and misc/bcd_code.c: seconds since 2000-01-01    *)
(* to a date and back, and the BCD bytes the clock chips keep.             *)
(***************************************************************************)
EXTENDS Integers, Sequences, FiniteSetsExt

SECONDS_PER_DAY == 24 * 60 * 60
SECONDS_PER_LEAP_YEAR == SECONDS_PER_DAY * 366
SECONDS_PER_COM_YEAR == SECONDS_PER_DAY * 365
SECONDS_PER_FOUR_YEARS == SECONDS_PER_LEAP_YEAR + SECONDS_PER_COM_YEAR * 3

\* Where each of four years starts, and each month (both tables are searched below).
seconds_table_4year(i) == IF i = 0 THEN 0 ELSE SECONDS_PER_LEAP_YEAR + SECONDS_PER_COM_YEAR * (i - 1)
month_days_acc_table(leap) ==
    IF leap THEN <<0, 31, 60, 91, 121, 152, 182, 213, 244, 274, 305, 335>>
            ELSE <<0, 31, 59, 90, 120, 151, 181, 212, 243, 273, 304, 334>>
is_leap_year_Never(year) == FALSE
is_leap_year(year) == year % 4 = 0

calc_year(second) ==
    LET left == second % SECONDS_PER_FOUR_YEARS
        i == Max({n \in 0 .. 3 : seconds_table_4year(n) <= left})
    IN  [year |-> ((second \div SECONDS_PER_FOUR_YEARS) * 4 + i) % 256,
         left |-> left - seconds_table_4year(i)]

\* The month whose table entry is the last one at or before the day.
calc_month(year, day) == Max({m \in 1 .. 12 : month_days_acc_table(is_leap_year(year))[m] <= day})

__calWeekDay(second) == ((second \div SECONDS_PER_DAY) + 5) % 7

second_to_datetime(second) ==
    LET y == calc_year(second)
        days == y.left \div SECONDS_PER_DAY
        month == calc_month(y.year, days)
        left == y.left % SECONDS_PER_DAY
    IN  [year |-> y.year, month |-> month,
         day |-> days - month_days_acc_table(is_leap_year(y.year))[month] + 1,
         weekday |-> __calWeekDay(second),
         hour |-> left \div 3600, minute |-> (left % 3600) \div 60, second |-> left % 60]

is_valid_datatime_ignore_weekday(t) ==
    t.month \in 1 .. 12 /\ t.day \in 1 .. 31 /\ t.hour < 24 /\ t.minute <= 59 /\ t.second <= 59

__toSeconds(t) ==
    (t.year \div 4) * SECONDS_PER_FOUR_YEARS + seconds_table_4year(t.year % 4)
        + (month_days_acc_table(is_leap_year(t.year))[t.month] + t.day - 1) * SECONDS_PER_DAY
        + t.hour * 3600 + t.minute * 60 + t.second

datetime_is_valid(t, weekday) ==
    is_valid_datatime_ignore_weekday(t) /\ (weekday => __calWeekDay(__toSeconds(t)) = t.weekday)

\* 32 => 0x32 and 0x32 => 32; what has no answer becomes 0.
to_bcd(n) == IF n \div 10 > 9 THEN 0 ELSE 16 * (n \div 10) + (n % 10)
from_bcd(bcd) == IF bcd \div 16 > 9 \/ bcd % 16 > 9 THEN 0 ELSE 10 * (bcd \div 16) + (bcd % 16)
=============================================================================
