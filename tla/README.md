# TLA+ models of the Pacemaker scheduler core and its utilities

This directory holds TLA+ models of the code under `src/`, the TLC configurations
that check them, and `PROJECT.json`. The manifest lists the components, runs,
mutants, source map, findings and hazards.

## The system and its parts

The repository is a slice of Pacemaker. `spec.md` describes the scheduler core:

- the weight model;
- the allocator;
- the action-graph builder.

The scheduler places resources on nodes by merging integer scores, then builds a
graph of actions. `src/` contains the following parts of that system:

| part | source | state and operations |
|------|--------|----------------------|
| score arithmetic | `src/lib/pengine/common.c` `merge_weights()` | scores in `[-INFINITY, INFINITY]`, folded per node by the allocator (spec 4.1, 4.3) |
| scheduler options and names | `src/lib/pengine/common.c` | option validators (`check_health`, `check_stonith_action`, `check_placement_strategy`), the `pe_opts` table, text conversions for roles, tasks and failures, and `add_hash_param()` |
| date/time | `src/lib/common/iso8601.c` | `crm_time_t` = {years, months, days, seconds, offset, duration}: calendar helpers, arithmetic, UTC conversion, comparison, ISO 8601 parsing and formatting, and a high-resolution variant |
| cibadmin | `src/tools/cibadmin.c` | option callbacks that set global options, then `main()`: force check for dangerous commands, call options, ACL handling, request, exit code |
| allocator table | `src/daemons/schedulerd/sched_allocate.h` | prototypes only: the per-variant operation table of spec 4.2 |
| other headers | `based_transaction.h`, `tickets_internal.h`, `*_compat.h` | one prototype, one struct, and deprecated macros |

The parts interact in two ways:

- The allocator calls `merge_weights()` once for every constraint that applies to a node.
- Rules in the configuration compare dates with the `iso8601.c` arithmetic.

`cibadmin` is a client of the configuration store. It reaches the scheduler only
through the configuration it submits.

## Modules

| module | models | state | actions |
|--------|--------|-------|---------|
| `Score` | `merge_weights()` and the per-node fold | `weight` (the node's current weight), `merged` (the scores folded so far) | `MergeScore(s)` |
| `Iso8601` | `crm_time_t` arithmetic of `iso8601.c` | `t` (one time object), `ref` (the reference instant, as day number and second), `steps` | `AddSeconds`, `AddMinutes`, `AddHours`, `AddDays`, `AddWeeks`, `AddMonths`, `AddYears`, `Add` (`crm_time_add`), `Subtract` (`crm_time_subtract`), `AddFromXml(c, x)` (`pcmk__add_time_from_xml`); `crm_time_calculate_duration` is an operator that `TimeCompare` uses |
| `Cibadmin` | option parsing and `main()` of `cibadmin.c`; `Main` is every step after parsing | `argv` (arguments parsed so far), `options` (the global `options` struct), `extra_args`, `pc` (the point of `main()` reached), `cmd_options`, `input`, `acl_cred`, `connected`, `request`, `output`, `annotated`, `exit_code`, `failures` | `ParseArg(o)`, `CheckCommand`, `ReadInput(readable)`, `SignOn(ok)`, `SendRequest(rc, xml)`, `RenderOutput(annotate_ok, render_ok)`, `Finish(cleanup_ok)` |
| `CibadminSession` | the promise a `cibadmin` invocation makes about its session with the CIB, written from the help and the comments of `main()`, not from the code | `conn`, `sent`, `exited` | `Connect`, `Send`, `Exit` |
| `IsoText` | date/time texts of `iso8601.c`: `crm_time_new()` with `parse_date()`, `crm_time_parse()`, `crm_time_parse_sec()`, `crm_time_parse_offset()`, `ha_set_tm_time()` and `crm_time_check()`; the date and time-of-day branch of `time_as_string_common()`; `crm_time_parse_duration()` with `parse_int()`, and `crm_time_parse_period()` | none (operators only; constant `LocalTm`, the host's `localtime()` with `tm_gmtoff`) | |
| `TimeCompare` | the `iso8601.c` helpers that take whole time objects or intervals: `pcmk__set_time_if_earlier()` and `crm_time_compare()` (defined in `Iso8601`), called on one target per candidate text parsed by `crm_time_new()` (`IsoText`); `crm_time_calculate_duration()` of two parsed candidates; `pcmk__readable_interval()`; `crm_time_parse_period()` of an interval text (`IsoText`) | `target` (the earliest time so far, initially `crm_time_new_undefined()`), `seen` (candidate texts offered), `calc` (the last duration computed, with its two arguments), `shown` (the last interval logged, with its text), `periods` (interval texts read, each with what `crm_time_parse_period()` returned) | `SetTimeIfEarlier(x)`, `CalculateDuration(dt, value)`, `ReadableInterval(ms)`, `ParsePeriod(p)` |
| `PeCommon` | the rest of `common.c`: enum validators and the enum rows of `pe_opts`, the text conversions, `add_hash_param()`, and the node attribute lookups `pe_node_attribute_calculated()` and `_raw()` (a node is its value of the one attribute looked up and, for a guest or remote node, its `remote_rsc` with the container's `running_on` list) | `hash` (one parameter table), `calls` (the calls made on it), `last` (the last conversion, validation or lookup, with its input and result) | `AddHashParam(name, value)`, `ConvertTask(t)`, `ConvertRole(r)`, `NameFailure(f)`, `CheckOption(o, v)`, `LookupAttribute(node, rsc)` |
| `HrFormat` | `pcmk__time_format_hr()` of `iso8601.c`, with the hour of `ha_get_tm_time()` | `fmt` (the format, or NULL), `usec` (the time's microseconds), `called`, `result` (NULL or the text returned) | `Format` |
| `DurationText` | the duration, seconds and epoch-seconds texts of `time_as_string_common()`: `duration_as_string()`, `sec_usec_as_string()`, `crm_time_get_sec()` (from `IsoText`), `crm_time_get_seconds()` and `crm_time_get_seconds_since_epoch()`; its callers `crm_time_as_string()`, `pcmk__timespec2str()` and `pcmk__epoch2str()`, with `crm_time_set_timet()` (`ha_set_tm_time()` of `IsoText` applied to `localtime()`) | `dt`, `usec`, `flags` (the call's arguments), `ts` (the time_t, nanoseconds and host offset of a timespec or epoch call, or `NoTimespec`), `called`, `text` (the text returned) | `AsString`, `Timespec2Str`, `Epoch2Str` |
| `MCScore`, `MCIso8601`, `MCCibadmin`, `MCTimeCompare` | model values for the cfgs (`MCTimeCompare` also builds the texts) | | |
| `MCTimeText` | puts `HrFormat` and `DurationText` side by side: each behaviour is one call of one of them, while the other stays in a state it reaches itself (a NULL format already formatted, an undefined time already printed) | the variables of both, renamed apart | `Format`, `AsString`, `Timespec2Str` or `Epoch2Str` |
| `MCPeCommon` | composes `PeCommon` and `Score` (both are helpers of the scheduler's common code) into one behaviour: `add_hash_param()` calls, conversions, validations and attribute lookups interleave with `merge_weights()` folds, under one budget of calls | `hash`, `calls`, `last`, `weight`, `merged` | every action of both |

`Score` is a one-variable fold. `merge_weights()` is translated operand test by
operand test. It includes the wrap-around detection and the final clamp
(`Clamped`). The code's `if`/`else if` is kept as nested IFs, not a CASE, so
that the -INFINITY test comes first as it does in the code.

`PeCommon` writes each conversion from its own code. `task2text()` and
`role2text()` are the switches. `text2task()` and `text2role()` are their
`if`/`else if` chains (`TaskChain`, `RoleChain`), read by `FirstMatch`: the
first string that matches wins, and an unmatched text gives the default.
Because the two directions are written separately, a chain that names the
wrong constant breaks the round trip.

`Iso8601` translates each C function into an operator of the same name.
`crm_time_add_days()`'s two loops are `AddDaysForward` and `AddDaysBackward`, each
RECURSIVE, one recursion per loop iteration. The uint32 month arithmetic of
`crm_time_add_months()` is `MonthStep`, which wraps only at exactly 13 or 0, as
the loops do. With no months to add, neither loop runs, so a month of 13
stays 13. C division and remainder truncate toward zero (`CDiv`, `CMod`).

Each action applies one function to `t`, as a caller does. It applies the
matching reference operation to `ref`. The reference calendar (`Ref*`
definitions) is written from the proleptic Gregorian rules, not from the code:

- days are numbered from 1 = Monday 0001-01-01;
- an instant is `[day, sec]` with `sec` in 0..86399;
- moving by months or years keeps the day of the month, or the month's last day if the month is shorter;
- the ISO week is the week of the day's Thursday.

The next-state relations are:

- `NextCalendar`: days, weeks, months, and durations of months and days;
- `NextYears`: `NextCalendar` plus years;
- `NextClock`: seconds, minutes, hours and days;
- `NextXml`: rule-duration components read from XML by `pcmk__add_time_from_xml()`;
- `NextClockXml`: the two interleaved, which is what a rule evaluation does to one time object.

An XML attribute is abstracted by how `pcmk__scan_ll()` reads it:

- no element;
- no attribute, which reads as the default 0;
- not a number;
- a long long above or below int;
- a number.

`int` products in `crm_time_add_minutes()`, `_hours()` and `_weeks()` are 32-bit
(`IntMul`). Signed overflow is undefined in C, and the model takes the
two's-complement wrap that the builds produce.

In `TimeCompare`, `pcmk__readable_interval()`'s text is the sequence of pieces
the code appends. Each piece is a number and its printf format (`%ud`, `%uh`,
`%um`, `%u`, `.%03u`, the lone `s`, `%ums`). The property reads the text back as
a reader would: `PieceLength` gives its characters and `PieceValue` its
milliseconds. `guint` intervals above 2^31 are outside TLC's integers. They print
a day count of 25 to 49, and the longest text (`10d23h59m59.999s`, 16
characters) is below 2^31. `CalculateDuration` is only in `NextDuration`, the
next-state relation of the violation run. The duration is wrong for every pair of
candidates, so a passing run has no property of it to check.

`IsoText` keeps a text as what the `sscanf()` calls read from it, not as
characters. A text is a record of a date, a time and a zone:

- the date is a form (`ymd` for YYYY-MM-DD and YYYYMMDD, `yd`, `ywd`, `none`
  for a time alone, `epoch`, or `bad`) and its numbers;
- the time is absent, unreadable, or hours, minutes and seconds;
- the zone is absent, `Z`, an offset, or another character after the space or
  sign that `crm_time_parse()` looks for.

`parse_date()` is translated branch by branch. It checks each form, then builds
the time object. A week date is built as the code builds it, by three
`crm_time_add_days()` calls from day 0 of its year (`WeekDate`). A time is given
to `crm_time_parse()`, which moves 24:00:00 to the next day. The result must
pass `crm_time_check()`. A text without a zone gets the offset of
`crm_time_parse_offset(NULL)`. A time alone starts from `crm_time_new(NULL)`,
which is `ha_set_tm_time()` of the constant `LocalTm`.

`time_as_string_common()` returns the text it prints, in the same form, so its
result can be parsed again. `RefText` reads a text by ISO 8601 with the
reference calendar, independently of the code. It places week 1 at the Monday
on or before 4 January. A text without a zone is at the host's `tm_gmtoff`. The
code's conventions are kept where ISO 8601 leaves the meaning open:

- a date alone is its midnight in UTC;
- a time alone is on the host's current date;
- `epoch` is 1970-01-01T00:00:00Z.

A duration text is kept as the results of `parse_int()` and the unit after
each: a number and a unit (`Token("num", n, u)`), a `T`, or no number
(`"nonum"`). `DurationStep` is one pass of the loop of
`crm_time_parse_duration()`. Years and months are set, weeks and days added to
`days`, and hours, minutes (an `M` after the `T`) and seconds added to
`seconds`. Each sum is formed as the code's `long long` and checked against int
(`LLSum`, in 16-bit halves). A period text is two parts, each a date/time text,
a duration or nothing. `crm_time_parse_period()` follows the code's branches:

- two durations, or a start alone, are invalid;
- a duration alone starts at `crm_time_new(NULL)`;
- a missing end is `crm_time_add()` of the start, and a missing start is
  `crm_time_subtract()` from the end;
- both must pass `crm_time_check()`.

`RefDuration` reads the ISO 8601 grammar. The units come in the order
Y M W D T H M S, each at most once, and the `T` is not last. The total must fit
`crm_time_t`'s int fields. `RefPeriod` applies the duration to the given
time's local calendar with the reference calendar (`RefApplyDuration`), and
then converts the result to UTC.
`LenientDuration` reads the same tokens the way the parser's comment
promises instead: units in any order and any number of times, and signed
amounts. It states the result with sums over the token positions, not as a
loop. `LenientPeriod` applies it through the same `PeriodWith` as `RefPeriod`.

`HrFormat` keeps a format as a sequence of one-character strings, C index i
being `f[i+1]`. `Step` is the scanning part of one pass of the `while` loop:
`strchr()` for the next `%` (`Mark`), the width digits (`SkipDigits`), and the
`switch` (`StepAt`): a `%` at the end, `%[width]N` with `atoi()` and the clamp
to 0..6, or another specifier, which either continues the loop one character
past it or ends the format. `FormatLoop` hands each chunk to
`g_date_time_format()` (`GlibFormat`: literal characters, `%%` and `%H`; every
other conversion is refused), appends the `"%0*d"` fraction, and returns NULL
for an empty buffer (`Done`). When glib refuses a chunk, `strftime()` either
gives some text (`Opaque`) or fails, and a failure discards everything built so
far (`Emit`). The result is the set of answers the fallbacks allow; `Format`
takes one of them. `RefText` reads a format as the function's documentation and
unit test describe it, independently of the scan.

`TimeCompare`'s `SetTimeIfEarlier(x)` parses a candidate text with `crm_time_new()`.
A text the parser refuses gives NULL, which `pcmk__set_time_if_earlier()`
ignores. The caller makes at most `MaxCalls` calls, and one of them may log an
interval (`Calls`). The two text properties check the newest text of `seen` in
each state. Every offered text is the newest in the state that offers it, so
every reachable text is checked once rather than in every later state.

`PeCommon` keeps each conversion a separate operator, translated from its switch or
`if` chain. A string that comes from a header outside `src/` (`CRMD_ACTION_STOP`,
`RSC_ROLE_STARTED_S`, ...) is represented by the macro's name. A conversion or
validation is a step that records its input and result in `last`. The properties
then speak about every conversion TLC enumerates.

`Cibadmin` parses the command line one argument per step. An argument is an
abstract token, for example `-d`, `-o=valid`, `-S=bogus` or `ARG`.
`OptionEffect` applies the argument's callback or store:

- `command_cb`, which clears `delete_all` for every command option;
- `section_cb`, where the last of `-o` and `-A` wins;
- `show_access_cb`, which rejects an unknown mode.

`main()` is then one action per stretch between two calls into the outside
world. Each call's result is an existential input: whether the input parses,
whether sign-on succeeds, the request's return code and output, and whether
rendering and clean-up succeed. Failure paths go to `done` with the code's exit
code. `Finish` models the tail of `main()`, where clean-up may set the exit code
only if it is still OK.

A duration text (`DurationText`) is the sequence of pieces the code appends: a
number with its printf format, or a word (`year`/`years`, `(`, `)`, `-`).
Spaces and field widths are layout and are left out. `duration_as_string()` is
translated call by call: the years, months and days printed when not zero
(`Field`), the seconds printed when nothing came before them or when they or
the shown microseconds are not zero (`SecondsPart`), and the breakdown of a
minute or more into the hours, minutes and seconds of `|seconds|`
(`Breakdown`). A `long long` count of seconds is kept as days and seconds.
`crm_time_get_seconds()` adds the days of every year before the UTC copy's year
(365, or 366 for a leap year), 30 per month, the days before `days`, and the
seconds. The properties read the text back: a unit's number is the one before
its word, with a `-` printed before it, and `-N.fff` reads as -(N + fff).
`localtime()` is the C library's. It is modelled by what it does for a host
whose zone is a fixed UTC offset: the proleptic Gregorian calendar of
`Iso8601` gives the local year, day of year and time of day, with `tm_gmtoff`
the offset.

### Refinement

`Cibadmin` defines `Session == INSTANCE CibadminSession WITH conn <- connected,
sent <- request # NULL, exited <- pc = "exited"`. `MCCibadmin.cfg` checks
`SessionRefined == Session!SSpec` as a PROPERTY. Every step of `main()` is
therefore one of the following:
- a stuttering step of the session (parsing, the checks, reading input,
  rendering);
- the sign-on;
- the one request over an open connection;
- the exit that closes the connection.

The mutant `SignOn_no_goto` drops the `goto done` after a failed
`cib__create_signon()`. TLC then finds a request sent without a connection.
`FailureNeverExitsOk` does not catch that mutant, because the exit code is
still an error.

## Runs

| run | cfg | expect | what it shows |
|-----|-----|--------|---------------|
| `score_order` | `MCScore_order.cfg` | violation | `OrderIndependent`: the fold depends on order. -600000, -600000, +600000 gives -INFINITY; another order gives -600000. Spec 4.1/8 require associativity. |
| `iso_calendar` | `MCIso8601_calendar.cfg` | pass | From every day of 1900, 2000, 2100 and 2003-2010, 3 steps of ±1 day, 366 days, 1 week, ±1 or 13 months, or ±P1M/P1D/P1M10D land on the reference date (`DateMatchesReference`). `crm_time_get_isoweek()` agrees with the reference ISO week (`IsoWeekMatchesReference`). |
| `iso_clock` | `MCIso8601_clock.cfg` | pass | From every day of 2000 and 2100 at 00:00:00, 00:00:01, 12:00:00 and 23:59:59, two steps. Each step adds seconds, minutes, hours or days, or one rule-duration component read from XML. The XML seconds, minutes and hours are at the largest magnitude whose product fits in int, both signs. The XML also has ten years of days back, a week, an invalid component, and every read failure. The instant moves exactly by what was accepted, and not at all on an error (`InstantMatchesReference`). |
| `time_earliest` | `MCTimeCompare.cfg` | pass | Up to three candidate texts, on a host at +05:30. The texts are: 2000-12-31 and 2001-01-01 in all three date forms at 00:00, 00:30 and 23:00 with offsets -01:00, Z and +01:00; a date alone; 24:00:00; texts without a zone; times alone; `epoch`; the week dates of the code's comment (2009-W01-1, 2009-W53-7, 2008-W37-6) and 2004-W53-7; six texts to refuse. `crm_time_new()` accepts exactly the texts ISO 8601 gives a meaning, at the instant and offset they name (`ParseMatchesReference`). Each parsed time printed by `crm_time_as_string()` in each date form, with and without its zone, reads back as the same instant, and with its zone with the same offset (`FormatParseRoundTrip`). The target is undefined exactly until the first text that parses, and then is a parsed time that no other precedes in UTC (`EarliestIsMinimum`). Interleaved with them, `pcmk__readable_interval()` of 0, 1 ms, each unit's boundary and either side of it, `10d23h59m59.999s` and 2^31-1 ms, as one of the three calls. Each text denotes its interval, with every count below its next unit, and fits the 18-byte static buffer, so the `pcmk__assert` never fires (`ReadableIntervalFaithful`). Also interleaved are `crm_time_parse_period()` calls on sixteen interval texts. They are start/duration across a year end, 2000-01-31/P1M (clipped to 29 February), P1M/2001-03-31T06:00:00+01:00, P1Y2M10DT2H30M, start/end, and PT90M and P2W alone, from the host's clock. The rest must be refused: two durations, a start alone, an unknown unit, a number without a unit, `PT`, P400000000W and PT600000H (past int), and an invalid end. Each is accepted exactly when ISO 8601 gives it a meaning. The start, end and duration are then the ones the text names (`PeriodMatchesReference`). Thirteen more interval texts use durations ISO 8601 does not write, which the parser accepts by design (its comment: "we're not strict about the order"). They are P1D1D, P1Y2Y, P1DT1H1D, P1MT1M1M, P1YT, P-1D, PT-90M, 2001-03-31/P-1M and P-1M/2001-03-31, P1D-1D (all zero, refused), P-1WT30M alone, and two second sums whose partial sum passes INT_MAX or INT_MIN. Each is read as that comment promises. Years and months are the last amount given, weeks, days and time units add up, and an M means minutes only after a T. Every partial sum must fit an int. The start and end follow from the sums, backwards in time for negative amounts (`LenientPeriodDenotes`, against `IsoText`'s `LenientDuration`). |
| `time_duration` | `MCTimeCompare_duration.cfg` | violation | `DurationRestoresTime`: `crm_time_calculate_duration()` subtracts the years with `crm_time_add_years()`, which clips 0 to 1 (iso8601.c:1908). The duration between a time and itself is P1Y. From 2000-12-31 to 2001-01-01, the day subtraction then hits the year-1 clip of `crm_time_add_days()` (line 1829), which gives P1Y1D instead of P1D. |
| `time_local_offset` | `MCTimeCompare_west.cfg` | violation | `ParseMatchesReference` on a host 3:30 west of UTC (St. John's). `crm_time_parse_offset(NULL)` splits `tm_gmtoff` = -12600 into -3 hours and -30 minutes, then negates the minutes (iso8601.c:803). So "T23:30:00", and every text without a zone, is read at -02:30, an hour off. `ha_set_tm_time()` does the same split without the negation and gets -03:30. |
| `time_compare_equal` | `MCTimeCompare_equal.cfg` | violation | `CompareAgreesWithInstant`: 2000-12-31T23:00:00-01:00 shifts to UTC as day 366, second 86400 (the `>` of iso8601.c:1789), so `crm_time_compare()` orders it before 2001-01-01T00:00:00Z, the same instant. The left-over second 86400 also fails `crm_time_check()`. It also reaches month arithmetic: 2000-01-28 12:00 + 43200 s + 13 months gives 2001-03-01 instead of 2001-02-28. |
| `pe_common` | `MCPeCommon.cfg` | pass | Up to three `add_hash_param()` calls over two names, two values, NULL and `"#default"`. Each name keeps the first real value, and a name that never had one has no entry (`FirstValueWins`). Every value an enum row of `pe_opts` advertises passes that row's validator and no other row's, and each default is listed (`OptionTableConsistent`). Every task and role, printed by its switch and read back by its if-chain, gives itself, and `fail2text()` names every response differently (`ConversionsInvertible`). Attributes are looked up on two cluster nodes, a remote node and guest nodes whose container runs on one host, is stopped, or is active on two hosts, for no resource and for resources without `container-attribute-target`, with `host` and with another value. A `host` lookup on a guest node reads the first host's value, or nothing while the container is stopped, and every other lookup reads the node's own value (`AttributeFromContainerHost`). A `host` lookup on a cluster or remote node fails `CRM_ASSERT()` (common.c:475-476) and aborts; those inputs are left out and listed as a hazard. The same run interleaves up to three `merge_weights()` folds of scores from {-INF, -600000, -1, 0, 1, 600000, INF}, within the shared budget of three calls. The weight follows the history of merged scores (`WeightFollowsScores`). It is -INFINITY once a -INFINITY score was merged, whatever came before or after, +INFINITY included. It is +INFINITY when the only sentinels merged were +INFINITY and the finite scores before the first of them did not saturate. (Two -600000 scores saturate to -INFINITY first, and a later +INFINITY then gives -INFINITY, because the ban test comes first.) With no sentinel, it is the plain sum whenever every prefix sum stayed strictly between the sentinels. Folds whose partial sums saturated are left unconstrained: there the result depends on order, which `score_order` shows. The mutant that tests +INFINITY first breaks this property. `CommonTypeOK` is the type invariant of both modules. |
| `time_text` | `MCTimeText.cfg` | pass | Two conversions of `iso8601.c`, one call per behaviour. First, `pcmk__time_format_hr()` on every format of up to five characters over `%`, `N`, `H`, `0`, `3`, `7` and `.` (19608 formats, and NULL), at the unit test's 03:04:05 with 0, 789 or 123456 microseconds. Whenever the documented meaning of the format is defined and not empty, the function returns exactly it, whatever `strftime()` does with the chunks glib refuses (`HrFormatFaithful`). This covers escaped `%%` before `N` and digits, `%N` and `%0N` printing nothing, widths over 6, leading zeros and zero-padded fractions. A format whose expansion is empty (`%N` alone) returns NULL, which the doc comment (iso8601.c:2079) reserves for an error; this is listed as a hazard, as every run slot is in use. A format the reference does not define goes, chunk by chunk, to glib and then `strftime()`; if any fallback fails the result is NULL, so a text returned always holds the fallback's output and never only the part built before the failure (`FallbackNeverTruncates`). Second, `time_as_string_common()` on durations of 0-2 years, 0-1 months, 0, 1 or 3 days and seconds 0, ±1, 59, 60, 61, -61, 3600, ±3661 and 86399, with microseconds 0, 1, ±500000 and 999999 where `valid_sec_usec()` allows them, with and without `crm_time_usecs`. Each text names the duration's years, months and days, the seconds with their sign (also a `-` for 0 s and negative microseconds), and for a minute or more a breakdown that adds up to `|seconds|` with each part below its unit and the same microseconds (`DurationTextDenotes`). Also on dates of years 1, 1970 (+01:00, which moves it before the epoch), 2000 (leap day, -05:30), 2024 (the offset carries 23:59:59 of 31 December into 2025) and 2100, printed as seconds or as epoch seconds, with 0 or 999999 microseconds. The number is the count of seconds from 0001-01-01T00:00:00Z (or the epoch) to the date's UTC instant, with the microseconds after the point (`SecondsTextDenotes`). Also on `pcmk__timespec2str()` and `pcmk__epoch2str()` of time_t -1, 0, 86399, 951825600 (2000-02-29T12:00:00Z) and 2^31-1, with 0 or 999999999 ns, on hosts at UTC, +05:30 and -03:30. The number is tv_sec, plus the seconds from year 1 to the epoch for `crm_time_seconds`, and the fraction is the whole microseconds of tv_nsec (`TimespecTextDenotes`). Epoch texts with microseconds of times before 1970 are left out: `sec_usec_as_string()` prints them wrongly. With them in, TLC reports `pcmk__timespec2str()` of {-1 s, 999999999 ns} printed as `-1.999999` for -0.000001 (see the hazards). |
| `cibadmin_flow` | `MCCibadmin.cfg` | pass | Every command line of up to three of 19 arguments, through `main()` with every outcome of the outside calls. `cib_multiple` is sent only for `--delete-all` given last, and then only with `--force` (`MultipleDeleteNeedsForce`). The section sent is the last `-o`/`-A` given (`SectionIsLastGiven`). No run that met a failure exits 0 (`FailureNeverExitsOk`). `main()` implements `CibadminSession` under the mapping below (`SessionRefined`). |
| `cibadmin_access` | `MCCibadmin_access.cfg` | violation | `AccessShownForUser`: `-S=color -X` with no `-U` reads the CIB as the caller and annotates the output for no user. `main()` skips the ACL set-up when input XML is given (cibadmin.c:767), against the comment at line 792. |
| `iso_years` | `MCIso8601_years.cfg` | violation | `DateMatchesReference` with years added: `crm_time_add_years()` keeps the ordinal day, so 2000-02-29 - 1 year = 1999-03-01. |

Every property of a passing run has a mutant in `PROJECT.json`. A mutant is a
plausible bug in the code that the run catches, for example:

- a dropped clamp;
- sentinel tests in the wrong order;
- a dropped day carry or borrow;
- a `jan1 > 4` written `>= 4`.

### Bounds

- The scores straddle ±INFINITY/2. Two of them of the same sign saturate, and a third of the other sign shows the order dependence.
- The calendar years give 1 January on every weekday. They include 53-week years (2004, 2009) and the three kinds of century year.
- The step sets cross year ends in both directions and cross February of leap and non-leap years.
- Every initial day of each year is enumerated, so every day-of-month clipping case is reached.
- Three steps suffice for a carry, a clip, and a step from the clipped date.
- The clock seconds include a day boundary in both directions, and half a day, which reaches 86400 exactly. `Instant()` reads second 86400 as the next day, so `iso_clock` passes through it, and `InstantMatchesReference` does not see the 1789 finding; `time_compare_equal` does.
- XML: the boundary values are the largest accepted without overflow. One more minute (`minutes="35791395"`) overflows `extra * 60` (iso8601.c:1886) and violates `InstantMatchesReference`: 2000-01-01 moves to 1931-12-13. That input is left out of the passing run. The run that showed it gave its place to `time_local_offset` (the project keeps at most twelve runs), and the hazard is listed with this note. Years and months are left out of `iso_clock`: `iso_years` shows the ordinal-day finding, and a month added after a step that leaves second 86400 shows the 1789 finding. Weeks and days stay far below the limits, because the day loops recurse once per year. The clock and XML steps share one run of two steps. Three steps of both take about nine minutes. Two steps reach every carry of one step followed by another.
- Intervals: every unit boundary, either side of it, a value with every unit present, and the longest text.
- TimeCompare: the candidates straddle a leap year's end, and the offsets move them across midnight and the year boundary in both directions. 23:00 at -01:00 reaches exactly 86400 s. Three calls are enough for a later, an equal and an earlier candidate.
- Texts: each text's date forms, each check `parse_date()` makes (month, day of month, day of year, week of year, hour, minute, 24:00:00), a year starting on Thursday (2009, 2004: the `jan1 <= 4` boundary), 53-week years, and week dates in the neighbouring calendar year. +05:30 is a half-hour zone that the offset code handles correctly, and -03:30 is one it does not.
- Cibadmin: three arguments are enough for a command followed by another command, `--force` in either position, two section options, and a non-option argument. The tokens cover every command, `-o`/`-A`, every `--show-access` form including an invalid one, `-U`, `-t=0`, and `-X`/`-x`/`-f`.
- Intervals: every form of period text, each of `crm_time_parse_period()`'s refusals, a month step that clips, a subtraction across a month end in a zone east of UTC, minutes after the `T` (the M ambiguity), and sums just past int for both `days` and `seconds`. Left out on purpose, each listed as a hazard:
  - negative amounts;
  - repeated or reordered units;
  - zero durations;
  - starts whose zone `crm_time_parse()` would take from the end text.

  Also left out, because known findings would mask the question: sums that land on exactly 86400 s (the 1789 finding), year steps across a leap February (`iso_years`), and weeks mixed with other units.
- Formats: five characters reach an escaped `%%` followed by a width and `N` (`%%3N`), an escape followed by a real `%3N` (`%%%3N`), two-digit widths (`%37N`), a leading zero (`%03N`) and a specifier after a fraction. The three microsecond values are the unit test's: zero, one needing padding to six digits, and one with six significant digits. Six characters take six times as long and add only longer combinations of the same cases.
- Duration texts: the seconds straddle the one-minute breakdown (59, 60, 61) and include exact hours (3600), every unit together (3661) and the longest day (86399), in both signs. Microseconds of both signs reach the `-` before a zero second and the breakdown that prints only a fraction (60 s and 0.5 s). 1 and 3 of each unit reach both plural forms. The dates cross the epoch, a leap day, a year end moved by an offset, and a century year that is not leap, which is where the year loop of `crm_time_get_seconds()` can go wrong.
- Each run is a bounded sequence of operations on one object, so `CHECK_DEADLOCK FALSE`.

### Fairness

The code is sequential (spec 5: one synchronous batch), and no run assumes
fairness or checks a liveness property. `cibadmin` is one process that makes
blocking calls, and the model takes their results as nondeterministic inputs.
After parsing, `main()` is straight-line code: every branch, error returns
included, jumps forward to the `done:` label and `crm_exit()`. No path loops
back, so reaching the exit holds by the shape of the code and needs no
property. A CIB connection that hangs is outside the model. The runs check
safety properties, and the refinement of `CibadminSession` (a safety property
here).

## Not modelled, and why

- `time_as_string_common()` with `crm_time_seconds` on a duration: `crm_time_get_seconds()` counts the years before `years` and the days before `days`, which is right for dates but wrong for durations (the `@TODO` at iso8601.c:350). The callers that pass durations there are the rule code, which is not in the repository, so `time_text` gives only dates to the seconds texts. This is listed as a hazard.
- A time_t in 1900 or earlier: `ha_set_tm_time()` sets the year only when `tm_year > 0` (iso8601.c:1428), so such a time gets year 0 and its seconds text is 1900 years off. These times are below -2208988800, beyond TLC's 32-bit integers, so the timespec inputs keep to 32-bit time_t values.
- DST: `localtime()` is modelled for a zone that is a fixed offset.
- `crm_time_get_timezone()` (iso8601.c:325) passes `dt->seconds`, not `dt->offset`, to `crm_time_get_sec()`, so it returns the time of day as the zone. Nothing in the repository calls it, so no model uses it.
- `scope_is_valid()` in `cibadmin` only decides whether a warning is printed to stderr. An invalid `--scope` is still sent, and the CIB applies it to the whole configuration. The model keeps the valid and the invalid section as two values, and the warning is output.
- The wording of duration texts (plurals, spaces). The breakdown's `second%s` takes its plural from `dt->seconds` (iso8601.c:577), so 61 s prints "1 minute 1 seconds". `Breakdown` models the call as written, and the properties accept either form.
- In `pcmk__time_format_hr()`: glib's other conversions (`%Y`, `%M`, ...) and its modifiers (`%0H`) are not modelled, so a chunk with one of them takes the nondeterministic `strftime()` path; the time's date and zone (`get_g_date_time()`) only feed those conversions. `mktime()` with `tm_isdst = -1` normalises the time in the host's zone, whose DST rules are outside the model.
- Text quirks left out of the inputs, because each would need its own violation run: "0000-W01-1" is accepted (the week form does not check the year); a zone that is neither `Z` nor an offset is read as UTC (the code's `@TODO else invalid?`); an offset of +24:00 is accepted; `epoch` ignores any time after it. The model handles each of them (`DateValid`, `crm_time_parse_offset`); `RefText` disagrees with the code on each of them.
- Daylight saving time: `LocalTm` is one `localtime()` result, so the host's offset is the same for every text.
- The `crm_time_get_*` accessors are modelled where `time_as_string_common()` and the month arithmetic call them (`IsoText`, `Iso8601`); `crm_time_get_timezone()` is the exception below.
- `pcmk__scan_ll()` is not under `src/`. The model uses only its outcome classes.
- `crm_time_get_seconds()` sums seconds since year 1. The sum exceeds TLC's 32-bit integers, so instants are compared as `[day, sec]` pairs instead.
- In `common.c`: `pe_metadata()`, `verify_pe_options()` and `pe_pref()` hand `pe_opts` to `options.c`, which is not in the repository. The validators named from there (`check_boolean`, `check_number`, ...) are in `options.c` too.
- In `cibadmin`: `-V` verbosity, `--version`, the empty CIB's `validate-with`, the deprecated `--node`/`--local`/`--sync-call`, and the contents of the XML. Requests, output and credentials are abstract values.
- `sched_allocate.h`, `based_transaction.h`, `tickets_internal.h` and the compat headers hold declarations and macros without behaviour.
- Tests are test code.

## Plan

1. `Score` (done).
2. `Iso8601` arithmetic and `TimeCompare` (done). `pcmk__add_time_from_xml()` (done). `crm_time_calculate_duration()` and `pcmk__readable_interval()` (done). Date/time texts in `IsoText` (done). Duration and period parsing (done).
3. `Cibadmin` (done). Next: `--score` and `--allow-create` interplay with the XML, if the XML is modelled.
4. `PeCommon` (done).
5. `Allocator` (spec-modelled, because the bodies are not in `src/`). It composes `Score` by INSTANCE. Properties from spec 8:
   - mandatory location enforcement;
   - colocation satisfaction;
   - promotion ceiling.
6. `ActionGraph` (spec-modelled). Properties:
   - acyclicity;
   - fencing interlock;
   - termination of the fixed point.
7. `pcmk__time_format_hr()` (done).
8. `DurationText` (done): duration, seconds and epoch texts, with `pcmk__timespec2str()` and `pcmk__epoch2str()`.
9. A violation run for the period zone scan of `crm_time_parse()` (iso8601.c:861), when a run slot is free.
