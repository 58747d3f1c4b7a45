---------------------------- MODULE MCIso8601 ----------------------------
(* Model values for Iso8601: the durations crm_time_parse_duration() would *)
(* produce for P1M, P1D and P1M10D, and PT1H1S for the clock runs.          *)
EXTENDS Iso8601

MCDurations ==
  { TimeRecord(0, 1, 0, 0, 0, TRUE),
    TimeRecord(0, 0, 1, 0, 0, TRUE),
    TimeRecord(0, 1, 10, 0, 0, TRUE) }

(* Years whose 1 January falls on each day of the week (2003 Wednesday to  *)
(* 2010 Friday, with 53-week years 2004 and 2009), and century years that  *)
(* are (2000) and are not (1900, 2100) leap years.                         *)
MCCalendarYears == {1900, 2000, 2100} \cup (2003 .. 2010)

(* One day either way, and a whole (leap) year forward.                    *)
MCDayExtras == {-1, 1, 366}

(* One month either way, and a year and a month forward.                   *)
MCMonthExtras == {-1, 1, 13}

(* One year either way, for crm_time_add_years().                          *)
MCYearExtras == {-1, 1}
(* A leap and a non-leap century year for the clock runs.                 *)
MCClockYears == {2000, 2100}

(* Seconds either side of a day boundary, half a day and a whole day.     *)
MCSecondExtras == {-90000, -1, 1, 43200, 86400}

(* A minute back and a whole day of minutes forward.                       *)
MCMinuteExtras == {-1, 1440}

(* Half a day forward and a day and an hour back.                          *)
MCHourExtras == {-25, 12}

(* XML attributes of a rule's duration element, by how they are read.     *)
Num(n)         == [kind |-> "num", val |-> n]
XmlAttr(kind)  == [kind |-> kind, val |-> 0]

(* Each component at the largest magnitude whose product with its unit    *)
(* stays in int range, in both directions; ten years of days; a week and *)
(* a year and a month; and every read failure and non-value once.         *)
MCXmlInputs ==
  { <<"seconds", Num(INT_MAX)>>, <<"seconds", Num(-INT_MAX)>>,
    <<"minutes", Num(INT_MAX \div 60)>>, <<"minutes", Num(-(INT_MAX \div 60))>>,
    <<"hours", Num(INT_MAX \div HOUR_SECONDS)>>,
    <<"hours", Num(-(INT_MAX \div HOUR_SECONDS))>>,
    <<"days", Num(-3653)>>, <<"weeks", Num(1)>>, <<"months", Num(13)>>,
    <<"invalid", Num(1)>>, <<"days", XmlAttr("absent")>>,
    <<"minutes", XmlAttr("bad")>>, <<"hours", XmlAttr("big")>>,
    <<"seconds", XmlAttr("small")>>, <<"weeks", XmlAttr("no_xml")>> }

(* The same without months: a month added to a time left at 86400 s      *)
(* lands on the wrong day (the leak recorded with the 1789 finding).      *)
MCXmlClockInputs == {ci \in MCXmlInputs : ci[1] # "months"}

=============================================================================
