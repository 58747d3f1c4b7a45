--------------------------- MODULE MCTimeCompare ---------------------------
EXTENDS TimeCompare

(* Texts as IsoText keeps them.                                          *)
Z         == Txt!Zone("Z")
Local     == Txt!Zone("local")
Off(neg, h, m) == Txt!Offset(neg, Txt!HMS(h, m, 0))
W1        == Off(TRUE, 1, 0)     (* -01:00 *)
E1        == Off(FALSE, 1, 0)    (* +01:00 *)
T(h, m, s) == Txt!HMS(h, m, s)
YMD(y, m, d) == Txt!Date("ymd", y, m, d)
YD(y, d)     == Txt!Date("yd", y, d, 0)
YWD(y, w, d) == Txt!Date("ywd", y, w, d)

(* The last day of a leap year and the first day of the next in all three *)
(* date forms, at midnight, half past midnight and 23:00, one hour west   *)
(* of, at and east of UTC (2000-12-31 is 2000-366 and 2000-W52-7,         *)
(* 2001-01-01 is 2001-001 and 2001-W01-1); a date alone, 24:00:00, texts  *)
(* without a zone and times alone (on the host's date), "epoch"; the week *)
(* dates of the code's own comment (2009 starts on a Thursday, 2009-W53-7 *)
(* is in 2010) and 2004-W53-7; and texts the parser must refuse.          *)
MCTexts ==
  { Txt!Text(YMD(2000, 12, 31), T(0, 0, 0), W1),
    Txt!Text(YD(2000, 366), T(0, 0, 0), Z),
    Txt!Text(YWD(2000, 52, 7), T(0, 0, 0), E1),
    Txt!Text(YMD(2000, 12, 31), T(23, 0, 0), W1),
    Txt!Text(YD(2000, 366), T(23, 0, 0), Z),
    Txt!Text(YWD(2000, 52, 7), T(23, 0, 0), E1),
    Txt!Text(YWD(2001, 1, 1), T(0, 0, 0), W1),
    Txt!Text(YMD(2001, 1, 1), T(0, 0, 0), Z),
    Txt!Text(YD(2001, 1), T(0, 30, 0), E1),
    Txt!Text(YMD(2001, 1, 1), Txt!NoTime, Local),
    Txt!Text(YMD(2000, 12, 31), T(24, 0, 0), Z),
    Txt!Text(YD(2000, 366), T(12, 0, 0), Local),
    Txt!Text(Txt!NoDate, T(12, 0, 0), Z),
    Txt!Text(Txt!NoDate, T(23, 30, 0), Local),
    Txt!Text(Txt!Date("epoch", 0, 0, 0), Txt!NoTime, Local),
    Txt!Text(YWD(2009, 1, 1), Txt!NoTime, Local),
    Txt!Text(YWD(2009, 53, 7), T(0, 0, 0), Z),
    Txt!Text(YWD(2008, 37, 6), Txt!NoTime, Local),
    Txt!Text(YWD(2004, 53, 7), T(12, 0, 0), W1),
    Txt!Text(YMD(2001, 2, 29), Txt!NoTime, Local),
    Txt!Text(YWD(2001, 53, 1), Txt!NoTime, Local),
    Txt!Text(YD(2001, 366), Txt!NoTime, Local),
    Txt!Text(YMD(2000, 12, 31), T(24, 0, 1), Z),
    Txt!Text(YMD(2001, 1, 1), T(12, 60, 0), Z),
    Txt!Text(Txt!Date("bad", 0, 0, 0), Txt!NoTime, Local) }

(* The host's clock at 2001-01-01 12:00:00 local time, 5:30 east of UTC.   *)
MCLocalTm ==
  [tm_year |-> 101, tm_yday |-> 0, tm_hour |-> 12, tm_min |-> 0, tm_sec |-> 0,
   gmtoff |-> 19800]

(* The same clock in a zone 3:30 west of UTC (St. John's).                 *)
MCLocalTmWest == [MCLocalTm EXCEPT !.gmtoff = -12600]

(* Dates and times in each date form, in UTC or with the zone.             *)
MCTimeFormats ==
  { {"date", "timeofday"} \cup form \cup tz :
      form \in {{}, {"ordinal"}, {"weeks"}}, tz \in {{}, {"with_timezone"}} }

(* Intervals at each unit boundary and either side of it, the longest     *)
(* text (10d23h59m59.999s) and the largest guint TLC's integers hold; the *)
(* guint values above 2^31 print days 25..49, no longer than these.       *)
MCIntervals ==
  { 0, 1, 999, 1000, 1001, 59999, 60000, 61001, 3599999, 3600000,
    3661001, 86399999, 86400000, 950399999, 2147483647 }

(* Interval texts: Tok("n", u) is the number n and its unit, TT the 'T'.  *)
Tok(n, u) == Txt!Token("num", n, u)
TT        == Txt!Token("T", 0, "")
Dur(toks) == Txt!Item("duration", Txt!NoText, toks)
At(x)     == Txt!Item("date", x, <<>>)
None      == Txt!Item("none", Txt!NoText, <<>>)
Jan1      == Txt!Text(YMD(2001, 1, 1), Txt!NoTime, Local)

(* Each form of interval: start/duration across a year end and a month    *)
(* end that must be clipped (2000-01-31 + P1M), duration/end (2001-03-31  *)
(* - P1M), start/end, a duration alone (from the host's clock, with       *)
(* minutes after the T and weeks); and texts the parser must refuse: two  *)
(* durations, a start alone, a bad unit, a number without a unit, a       *)
(* duration of nothing but T, days and hours past int, a bad end.         *)
MCPeriods ==
  { Txt!Period(At(Jan1), Dur(<<Tok(1, "D")>>)),
    Txt!Period(At(Txt!Text(YMD(2000, 12, 31), T(23, 0, 0), Z)), Dur(<<TT, Tok(2, "H")>>)),
    Txt!Period(At(Txt!Text(YMD(2000, 1, 31), Txt!NoTime, Local)), Dur(<<Tok(1, "M")>>)),
    Txt!Period(Dur(<<Tok(1, "M")>>), At(Txt!Text(YMD(2001, 3, 31), T(6, 0, 0), E1))),
    Txt!Period(At(Jan1),
               Dur(<<Tok(1, "Y"), Tok(2, "M"), Tok(10, "D"), TT, Tok(2, "H"), Tok(30, "M")>>)),
    Txt!Period(At(Jan1), At(Txt!Text(YD(2001, 365), T(12, 0, 0), W1))),
    Txt!Period(Dur(<<TT, Tok(90, "M")>>), None),
    Txt!Period(Dur(<<Tok(2, "W")>>), None),
    Txt!Period(Dur(<<Tok(1, "D")>>), Dur(<<Tok(2, "D")>>)),
    Txt!Period(At(Jan1), None),
    Txt!Period(Dur(<<Tok(1, "X")>>), None),
    Txt!Period(Dur(<<Tok(1, "none")>>), None),
    Txt!Period(Dur(<<TT>>), None),
    Txt!Period(At(Jan1), Dur(<<Tok(400000000, "W")>>)),
    Txt!Period(At(Jan1), Dur(<<TT, Tok(600000, "H")>>)),
    Txt!Period(At(Jan1), At(Txt!Text(YMD(2001, 2, 29), Txt!NoTime, Local))) }

(* Durations ISO 8601 does not write, each from 2001-01-01 or to the end  *)
(* of March: a day twice, a year twice, a day after the time units, M both *)
(* as months and minutes, a T at the end, negative days, minutes and       *)
(* months (the last clipped to 28 February), amounts that cancel out, a   *)
(* negative week alone from the host's clock, and seconds whose partial   *)
(* sum passes INT_MAX or INT_MIN although each amount fits.               *)
Mar31 == Txt!Text(YMD(2001, 3, 31), Txt!NoTime, Local)
MCLenientPeriods ==
  { Txt!Period(At(Jan1), Dur(<<Tok(1, "D"), Tok(1, "D")>>)),
    Txt!Period(At(Jan1), Dur(<<Tok(1, "Y"), Tok(2, "Y")>>)),
    Txt!Period(At(Jan1), Dur(<<Tok(1, "D"), TT, Tok(1, "H"), Tok(1, "D")>>)),
    Txt!Period(At(Jan1), Dur(<<Tok(1, "M"), TT, Tok(1, "M"), Tok(1, "M")>>)),
    Txt!Period(At(Jan1), Dur(<<Tok(1, "Y"), TT>>)),
    Txt!Period(At(Jan1), Dur(<<Tok(-1, "D")>>)),
    Txt!Period(At(Jan1), Dur(<<TT, Tok(-90, "M")>>)),
    Txt!Period(At(Mar31), Dur(<<Tok(-1, "M")>>)),
    Txt!Period(Dur(<<Tok(-1, "M")>>), At(Mar31)),
    Txt!Period(At(Jan1), Dur(<<Tok(1, "D"), Tok(-1, "D")>>)),
    Txt!Period(Dur(<<Tok(-1, "W"), TT, Tok(30, "M")>>), None),
    Txt!Period(At(Jan1), Dur(<<TT, Tok(2000000000, "S"), Tok(1000000000, "S"),
                               Tok(-1000000000, "S")>>)),
    Txt!Period(At(Jan1), Dur(<<TT, Tok(-2000000000, "S"), Tok(-1000000000, "S")>>)) }

=============================================================================
