------------------------------ MODULE HttpDates ------------------------------
(*****************************************************************************)
(* The dates of HTTP headers: the formatter and the parser of the ATS        *)
(* headers (hdr/MIME.cpp) and the parser of the Nginx side                   *)
(* (http/ngx_http_parse_time.c). From some years the calendar is walked a    *)
(* day at a time by the Gregorian rule and the arithmetic of the code is     *)
(* compared with it.  A time_t is <<days since 1 January 1970, second of the *)
(* day>>, and a date text is a record of its fields with the format it is    *)
(* laid out in; months count from 0 as in struct tm.                         *)
(*****************************************************************************)
EXTENDS Integers, Sequences, FiniteSets

CONSTANTS
    Starts,       \* New Year's days the walk starts on: [n |-> days since the epoch, y |-> year, wday |-> day of the week]
    MaxDays,      \* bound: the days of a walk
    ProcessStart, \* days on which the process may have been started
    Seconds       \* seconds of the day that are tried

VARIABLES
    n,     \* days since the epoch
    date,  \* the day of the calendar: [y, m, d]
    wday,  \* the day of the week, Sunday is 0
    now    \* the day mime_init_date_format_table() was called on

vars == <<n, date, wday, now>>

Formats == {"rfc822", "short822", "rfc850", "asctime", "nntp"}
MonthNames == << <<"J","a","n">>, <<"F","e","b">>, <<"M","a","r">>, <<"A","p","r">>,
                 <<"M","a","y">>, <<"J","u","n">>, <<"J","u","l">>, <<"A","u","g">>,
                 <<"S","e","p">>, <<"O","c","t">>, <<"N","o","v">>, <<"D","e","c">> >>
Failed == <<-1, -1>>
INT_MAX == <<24855, 11647>>   \* 2^31 - 1 seconds

-----------------------------------------------------------------------------
(* The ATS arithmetic: years that start in March. *)

DAYS_OFFSET == 25508
(* days[]: the days before the month, from March on, less one. *)
days == [m \in 0 .. 11 |-> <<305, 336, -1, 30, 60, 91, 121, 152, 183, 213, 244, 274>>[m + 1]]
(* months[d]: the month of day d of such a year. *)
months(d) == CHOOSE m \in 0 .. 11 :
    /\ days[m] + 1 < d
    /\ \A k \in 0 .. 11 : days[k] + 1 < d => days[k] <= days[m]
YearDays(y) == y * 365 + y \div 4 - y \div 100 + (y \div 100 + 3) \div 4

(* The year is guessed and moved forward while it starts before the day. *)
mime_days_since_epoch_to_mdy_slowcase(mday) ==
    LET guess == mday \div 365 + 69
        Start(y) == YearDays(y) - DAYS_OFFSET - 1
        year == CHOOSE y \in guess .. guess + 2 :
                    /\ Start(y) >= mday
                    /\ \A k \in guess .. y - 1 : Start(k) < mday
        d == mday - Start(IF year = guess THEN year ELSE year - 1)
        month == months(d)
    IN [y |-> (IF month > 1 THEN year - 1 ELSE year) + 1900, m |-> month, d |-> d - days[month] - 1]

(* The table of the days within 366 days of the start of the process. *)
mime_init_date_format_table ==
    [i \in now - 366 .. now + 366 |-> mime_days_since_epoch_to_mdy_slowcase(i)]

mime_days_since_epoch_to_mdy(day) ==
    IF day \in now - 366 .. now + 366
    THEN mime_init_date_format_table[day]
    ELSE mime_days_since_epoch_to_mdy_slowcase(day)

mime_format_date(value) ==
    LET s == value[2]
        mdy == mime_days_since_epoch_to_mdy(value[1])
    IN [fmt |-> "rfc822", wday |-> (4 + value[1]) % 7, mday |-> mdy.d, mon |-> MonthNames[mdy.m + 1],
        year |-> mdy.y, hour |-> s \div 3600, min |-> (s \div 60) % 60, sec |-> s % 60]

-----------------------------------------------------------------------------
(* mime_parse_date(). *)

(* The index of a month name: the binary search and the DFA give the same. *)
MonthIndex(name) == CHOOSE m \in -1 .. 11 :
    IF \E k \in 1 .. 12 : MonthNames[k] = name THEN m >= 0 /\ MonthNames[m + 1] = name ELSE m = -1
mime_parse_month(text) == MonthIndex(text.mon)
mime_parse_rfc822_date_fastcase(text) ==
    [mday |-> text.mday, mon |-> MonthIndex(text.mon), year |-> text.year - 1900,
     secs |-> text.hour * 3600 + text.min * 60 + text.sec]
mime_parse_year(text) ==
    CASE text.year >= 1900 -> text.year - 1900
      [] text.year < 70 -> text.year + 100
      [] OTHER -> text.year
mime_parse_time(text) == text.hour * 3600 + text.min * 60 + text.sec
SlowFields(text) ==
    [mday |-> text.mday, mon |-> mime_parse_month(text), year |-> mime_parse_year(text), secs |-> mime_parse_time(text)]

(* Mutant: a year the arithmetic cannot hold is an unreadable date. *)
mime_parse_date_FarIsBad(text) ==
    LET tp == IF text.fmt = "rfc822" THEN mime_parse_rfc822_date_fastcase(text) ELSE SlowFields(text)
        year == IF tp.mon < 2 THEN tp.year - 1 ELSE tp.year
    IN IF tp.mon < 0 \/ tp.year > 137 \/ tp.year < 70 THEN <<0, 0>>
       ELSE <<tp.mday + days[tp.mon] + YearDays(year) - DAYS_OFFSET, tp.secs>>
mime_parse_date(text) ==
    LET tp == IF text.fmt = "rfc822" THEN mime_parse_rfc822_date_fastcase(text) ELSE SlowFields(text)
        year == IF tp.mon < 2 THEN tp.year - 1 ELSE tp.year
    IN CASE tp.mon < 0 -> <<0, 0>>
         [] tp.year > 137 -> INT_MAX
         [] tp.year < 70 -> <<0, 0>>
         [] OTHER -> <<tp.mday + days[tp.mon] + YearDays(year) - DAYS_OFFSET, tp.secs>>

-----------------------------------------------------------------------------
(* ngx_http_parse_time(). *)

(* The first comma or space tells the format; two digits must follow a     *)
(* comma, and a date that starts with the day does not fit any format.     *)
ReadFormat(text) ==
    CASE text.fmt \in {"rfc822", "rfc850"} -> text.fmt
      [] text.fmt = "short822" -> IF text.mday > 9 THEN "rfc822" ELSE "no"
      [] text.fmt = "asctime" -> "isoc"
      [] OTHER -> "no"
ReadMonth(name) ==
    CASE name[1] = "J" -> IF name[2] = "a" THEN 0 ELSE IF name[3] = "n" THEN 5 ELSE 6
      [] name[1] = "F" -> 1
      [] name[1] = "M" -> IF name[3] = "r" THEN 2 ELSE 4
      [] name[1] = "A" -> IF name[2] = "p" THEN 3 ELSE 7
      [] name[1] = "S" -> 8
      [] name[1] = "O" -> 9
      [] name[1] = "N" -> 10
      [] name[1] = "D" -> 11
      [] OTHER -> -1
ReadYear(text) ==
    IF text.fmt # "rfc850" THEN text.year
    ELSE text.year + (IF text.year < 70 THEN 2000 ELSE 1900)
NgxMonthDays == <<31, 28, 31, 30, 31, 30, 31, 31, 30, 31, 30, 31>>
DayExists(day, month, year) ==
    IF day = 29 /\ month = 1
    THEN year % 4 = 0 /\ ~(year % 100 = 0 /\ year % 400 # 0)
    ELSE day <= NgxMonthDays[month + 1]
GaussDays(day, month, year) ==
    LET m == IF month - 1 <= 0 THEN month + 11 ELSE month - 1
        y == IF month - 1 <= 0 THEN year - 1 ELSE year
    IN 365 * y + y \div 4 - y \div 100 + y \div 400 + (367 * m) \div 12 - 30 + day - 1 - 719527 + 31 + 28
ngx_http_parse_time(text) ==
    LET month == ReadMonth(text.mon)
        year == ReadYear(text)
    IN IF \/ ReadFormat(text) = "no"
          \/ month < 0
          \/ text.hour > 23 \/ text.min > 59 \/ text.sec > 59
          \/ ~DayExists(text.mday, month, year)
       THEN Failed
       ELSE <<GaussDays(text.mday, month, year), text.hour * 3600 + text.min * 60 + text.sec>>

-----------------------------------------------------------------------------
(* The calendar. *)

IsLeap(y) == y % 4 = 0 /\ (y % 100 # 0 \/ y % 400 = 0)
DaysIn(y, m) == IF m = 1 /\ IsLeap(y) THEN 29
                ELSE <<31, 28, 31, 30, 31, 30, 31, 31, 30, 31, 30, 31>>[m + 1]

Init ==
    /\ \E st \in Starts : n = st.n /\ date = [y |-> st.y, m |-> 0, d |-> 1] /\ wday = st.wday
    /\ now \in ProcessStart

Tomorrow ==
    /\ \E st \in Starts : n \in st.n .. st.n + MaxDays - 1
    /\ n' = n + 1
    /\ wday' = (wday + 1) % 7
    /\ date' = CASE date.d < DaysIn(date.y, date.m) -> [date EXCEPT !.d = date.d + 1]
                 [] date.d = DaysIn(date.y, date.m) /\ date.m < 11 -> [date EXCEPT !.d = 1, !.m = date.m + 1]
                 [] OTHER -> [y |-> date.y + 1, m |-> 0, d |-> 1]
    /\ UNCHANGED now

Next == Tomorrow
Spec == Init /\ [][Next]_vars

(* The text of second s of a day in a format. *)
Text(f, dt, wd, s) ==
    [fmt |-> f, wday |-> wd, mday |-> dt.d, mon |-> MonthNames[dt.m + 1],
     year |-> IF f = "rfc850" THEN dt.y % 100 ELSE dt.y,
     hour |-> s \div 3600, min |-> (s \div 60) % 60, sec |-> s % 60]

-----------------------------------------------------------------------------
(* mime_format_date() writes the calendar's day, month, year and weekday   *)
(* for every day, by the table near the start of the process and by the    *)
(* slow arithmetic elsewhere.                                              *)
FormatIsCalendar ==
    \A s \in Seconds : mime_format_date(<<n, s>>) = Text("rfc822", date, wday, s)

(* Both parsers read every format they know back as the same second, up to *)
(* 2037, the last year mime_parse_date() computes.                         *)
ParsersAgree ==
    \A f \in Formats, s \in Seconds :
        LET text == Text(f, date, wday, s)
        IN /\ date.y <= 2037 => mime_parse_date(text) = <<n, s>>
           /\ ReadFormat(text) # "no" /\ (f = "rfc850" => date.y < 2070) => ngx_http_parse_time(text) = <<n, s>>

(* ngx_http_parse_time() refuses the days a month does not have, those of  *)
(* February included, and no others.                                       *)
RejectsMissingDays ==
    \A d \in 1 .. 31 :
        LET text == Text("rfc822", [date EXCEPT !.d = d], wday, 0)
        IN (ngx_http_parse_time(text) # Failed) <=> d <= DaysIn(date.y, date.m)

(* A later day is never read as an earlier time by mime_parse_date(), the  *)
(* days it cannot compute included: a far Expires stays in the future.     *)
NeverEarlier(a, b) == a[1] < b[1] \/ (a[1] = b[1] /\ a[2] <= b[2])
FarFutureStaysFar ==
    [][\A f \in {"rfc822", "asctime", "nntp"} :
           NeverEarlier(mime_parse_date(Text(f, date, wday, 0)), mime_parse_date(Text(f, date', wday', 0)))]_vars
=============================================================================
