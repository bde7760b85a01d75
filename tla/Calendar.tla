------------------------------ MODULE Calendar ------------------------------
(***************************************************************************)
(* One person's days: the sessions of the attendance table, and the month, *)
(* the calendars and the cards that four services compute from them.       *)
(* Module Attendance has the handlers query by query; here each is one     *)
(* step, and what counts is time: hours, days, shifts that change, and     *)
(* decisions and corrections made days later.                              *)
(*                                                                         *)
(* Time passes in ticks, and so are hours counted; the date in UTC, under  *)
(* which the calendars file a session, changes some ticks later than the   *)
(* local date.  A day of the week is its date, as no run is a week long,   *)
(* and all dates are of the month shown.  Offices, photos, distances and   *)
(* the levels of a decision are left out.  A mix of requests also bounds   *)
(* the sessions, and names the times people type, the shift the person has *)
(* at first and the joining date.                                          *)
(***************************************************************************)
EXTENDS Requests, Integers, Sequences

CONSTANTS
  Ticks,           \* of a day
  Offset,          \* the tick of the local day at which it begins in UTC
  Days,            \* bound: the days of the run
  Sunday,
  Roster,          \* the shifts there are
  CheckOutBefore,  \* the attendance rules, for whoever has no shift
  MinimumHours,
  Window,          \* the days a calendar is asked for
  Slack            \* sessions of a manager's calendar beyond one a day (5)

VARIABLES
  instant,     \* now
  attendance,  \* the sessions, each with its MissedCheckoutRequest, in order of creation
  roster,      \* the person's shift, or None
  leave,       \* the person's leave requests
  joined       \* joiningDate

calendar == <<instant, attendance, roster, leave, joined>>

Sets == INSTANCE FiniteSetsExt

Instant == Ticks..(Ticks * (Days + 1) - 1)

\* The tick a shift opens is its start less the grace minutes.
Shift ==
  [opens : 0..(Ticks - 1), closes : 0..(Ticks - 1), half : Nat, full : Nat, works : SUBSET (1..Days)]

ASSUME CalendarAssumption ==
  /\ Ticks \in Nat \ {0} /\ Offset \in 0..(Ticks - 1)
  /\ Days \in Nat /\ Window \in Nat /\ Slack \in Nat
  /\ Roster \subseteq Shift /\ CheckOutBefore \in 0..(Ticks - 1) /\ MinimumHours \in Nat
  /\ None \notin Int /\ None \notin Shift
  /\ \A w \in Workloads :
       /\ w.sessions \in Nat /\ w.times \subseteq Instant
       /\ w.rosters \subseteq Roster \union {None} /\ w.joined \subseteq 1..Days

\* charged: a day without pay has been recorded, and not been given back.
Row ==
  [in : Int, out : Int \union {None},
   status : {"CHECKED_IN", "CHECKED_OUT", "ABSENT", "PRESENT", "HALF_DAY"},
   ask : {"none", "PENDING", "APPROVED", "REJECTED"}, charged : BOOLEAN]

CalendarInit ==
  /\ instant = Ticks
  /\ attendance = <<>>
  /\ roster \in workload.rosters
  /\ leave = [d \in 1..Days |-> "none"]
  /\ joined \in workload.joined

-----------------------------------------------------------------------------
(* Dates *)

\* By the clock of the server, and as fmtDate and toDateOnlyString write it.
Date(t) == t \div Ticks
Key(t) == (t - Offset) \div Ticks

Today == Date(instant)

Rows == DOMAIN attendance

\* orderBy: { checkInTime: 'asc' }
Before(i, j) ==
  \/ attendance[i].in < attendance[j].in
  \/ attendance[i].in = attendance[j].in /\ i < j

Oldest(I) == CHOOSE i \in I : \A j \in I \ {i} : Before(i, j)
Newest(I) == CHOOSE i \in I : \A j \in I \ {i} : Before(j, i)

Todays == {i \in Rows : Date(attendance[i].in) = Today}
Open == {i \in Todays : attendance[i].status = "CHECKED_IN"}

-----------------------------------------------------------------------------
(* The shift *)

evaluateShiftWindow ==
  roster # None =>
    /\ roster.works # {} => Today \in roster.works
    /\ instant % Ticks \in roster.opens..roster.closes

\* Two hours after the end, which are one tick.
getMissedCheckoutDeadline(a) ==
  Date(a.in) * Ticks + (IF roster = None THEN CheckOutBefore ELSE roster.closes) + 1

resolveAttendanceOutcome(hours) ==
  LET full == IF roster = None THEN MinimumHours ELSE roster.full
      half == IF roster = None THEN MinimumHours \div 2 ELSE roster.half
  IN IF hours >= full THEN "PRESENT" ELSE IF hours >= half THEN "HALF_DAY" ELSE "ABSENT"

IsDue(a) == a.status = "CHECKED_IN" /\ instant >= getMissedCheckoutDeadline(a)

\* Session and request are written together, or not at all if there is one.
Flagged(a) == [a EXCEPT !.status = "ABSENT", !.ask = "PENDING", !.charged = TRUE]

\* flagIfMissedCheckout of session i
FlagIfMissed(rows, i) ==
  IF IsDue(rows[i]) /\ rows[i].ask = "none" THEN [rows EXCEPT ![i] = Flagged(@)] ELSE rows

-----------------------------------------------------------------------------
(* The person *)

\* The answer looks the day up, which flags a session begun after the deadline.
CheckIn(r) ==
  /\ AtOnce(r, "checkIn")
  /\ Len(attendance) < workload.sessions
  /\ Open = {} /\ evaluateShiftWindow
  /\ attendance' =
       FlagIfMissed(Append(attendance, [in |-> instant, out |-> None, status |-> "CHECKED_IN",
                                        ask |-> "none", charged |-> FALSE]),
                    Len(attendance) + 1)
  /\ UNCHANGED <<instant, roster, leave, joined>>

\* A session that is due is flagged instead; another that is open is then closed.
CheckOut(r) ==
  /\ AtOnce(r, "checkOut")
  /\ \E i \in Open :
       LET rows == FlagIfMissed(attendance, i)
           open == {j \in Open : rows[j].status = "CHECKED_IN"}
       IN /\ IsDue(attendance[i]) => rows # attendance
          /\ \/ open = {} /\ attendance' = rows
             \/ \E j \in open :
                  attendance' = [rows EXCEPT ![j].status = "CHECKED_OUT", ![j].out = instant]
  /\ UNCHANGED <<instant, roster, leave, joined>>

\* Whoever looks at the day flags what is due: getTodayAttendance, getTodaySessions.
LookAtToday(r) ==
  /\ AtOnce(r, "look")
  /\ \E i \in Open : attendance' = FlagIfMissed(attendance, i)
  /\ UNCHANGED <<instant, roster, leave, joined>>

\* Leave is asked for, and granted later whatever has happened since.
ApplyLeave(r, d) ==
  /\ AtOnce(r, "leave")
  /\ d >= Today /\ d >= joined
  /\ leave[d] = "none"
  /\ \A i \in Rows : Key(attendance[i].in) = d => attendance[i].status = "ABSENT"
  /\ leave' = [leave EXCEPT ![d] = "PENDING"]
  /\ UNCHANGED <<instant, attendance, roster, joined>>

-----------------------------------------------------------------------------
(* The office *)

\* runMissedCheckoutDetection: a session that has a request already stops it.
Sweep(r) ==
  /\ AtOnce(r, "sweep")
  /\ LET due == {i \in Rows : IsDue(attendance[i])}
         new == {i \in due : attendance[i].ask = "none"}
     IN \E marked \in SUBSET new :
          /\ new = due => marked = due
          /\ attendance' = [i \in Rows |-> IF i \in marked THEN Flagged(attendance[i]) ELSE attendance[i]]
  /\ UNCHANGED <<instant, roster, leave, joined>>

\* Mutant: the day is given back whatever the outcome.
ApproveMissedAlways(r, i, out) ==
  /\ AtOnce(r, "decide")
  /\ attendance[i].ask = "PENDING" /\ out > attendance[i].in
  /\ attendance' = [attendance EXCEPT ![i].out = out, ![i].ask = "APPROVED", ![i].charged = FALSE,
                      ![i].status = resolveAttendanceOutcome(out - attendance[i].in)]
  /\ UNCHANGED <<instant, roster, leave, joined>>

\* The day is given back if it counts for something.
ApproveMissed(r, i, out) ==
  /\ AtOnce(r, "decide")
  /\ attendance[i].ask = "PENDING" /\ out > attendance[i].in
  /\ LET status == resolveAttendanceOutcome(out - attendance[i].in)
     IN attendance' = [attendance EXCEPT ![i].out = out, ![i].status = status, ![i].ask = "APPROVED",
                                         ![i].charged = (status = "ABSENT")]
  /\ UNCHANGED <<instant, roster, leave, joined>>

RejectMissed(r, i) ==
  /\ AtOnce(r, "decide")
  /\ attendance[i].ask = "PENDING"
  /\ attendance' = [attendance EXCEPT ![i].status = "ABSENT", ![i].ask = "REJECTED"]
  /\ UNCHANGED <<instant, roster, leave, joined>>

\* The two times are compared only if both are sent; each is optional.
Correct(r, i, in, out) ==
  /\ AtOnce(r, IF in = {} THEN "correctOut" ELSE "correctIn")
  /\ \A s \in in, e \in out : e > s
  /\ attendance' = [attendance EXCEPT
       ![i].in = Given(in, @),
       ![i].out = Given(out, @),
       ![i].status = IF out = {} THEN @ ELSE "CHECKED_OUT"]
  /\ UNCHANGED <<instant, roster, leave, joined>>

GrantLeave(r, d) ==
  /\ AtOnce(r, "leave")
  /\ leave[d] = "PENDING"
  /\ leave' = [leave EXCEPT ![d] = "APPROVED"]
  /\ UNCHANGED <<instant, attendance, roster, joined>>

\* The shift is edited, or the person gets another one, or none.
AssignRoster(r, s) ==
  /\ AtOnce(r, "roster")
  /\ roster' = s
  /\ UNCHANGED <<instant, attendance, leave, joined>>

Tick(r) ==
  /\ AtOnce(r, "tick")
  /\ instant + 1 \in Instant
  /\ instant' = instant + 1
  /\ UNCHANGED <<attendance, roster, leave, joined>>

CalendarNext ==
  \E r \in Request :
    \/ CheckIn(r) \/ CheckOut(r) \/ LookAtToday(r) \/ Sweep(r) \/ Tick(r)
    \/ \E s \in Roster \union {None} : AssignRoster(r, s)
    \/ \E d \in 1..Days : ApplyLeave(r, d) \/ GrantLeave(r, d)
    \/ \E i \in Rows :
         \/ RejectMissed(r, i)
         \/ \E t \in workload.times : ApproveMissed(r, i, t)
         \/ \E in, out \in Optional(workload.times) : Correct(r, i, in, out)

-----------------------------------------------------------------------------
(* The month: getMonthlySummary *)

Worked(a) ==
  IF a.out # None THEN a.out - a.in ELSE IF Date(a.in) = Today THEN instant - a.in ELSE 0

\* A decision stands; everything else is measured, if there is a shift.
IsHalf(a) ==
  \/ a.status = "HALF_DAY"
  \/ /\ a.status \in {"CHECKED_IN", "CHECKED_OUT"}
     /\ roster # None /\ (a.out # None \/ Date(a.in) = Today)
     /\ roster.half <= Worked(a) /\ Worked(a) < roster.full

\* Mutant: half a day is also counted as a day.
IsPresentAtAll(a) == a.status # "ABSENT"

\* Attended, just short of half a day, still counts as present.
IsPresent(a) == a.status # "ABSENT" /\ ~IsHalf(a)

\* countWorkingDays
IsWorkingDay(d) == IF roster = None THEN d # Sunday ELSE d \in roster.works

getMonthlySummary ==
  LET total   == Cardinality({d \in 1..Today : IsWorkingDay(d)})
      present == Cardinality({i \in Rows : IsPresent(attendance[i])})
      half    == Cardinality({i \in Rows : IsHalf(attendance[i])})
      onLeave == Cardinality({d \in 1..Days : leave[d] = "APPROVED"})
      rest    == total - present - half - onLeave
  IN [totalDays |-> total, presentCount |-> present, halfDayCount |-> half,
      leaveCount |-> onLeave, absentCount |-> IF rest > 0 THEN rest ELSE 0]

-----------------------------------------------------------------------------
(* The calendars: date by date, "none" where there is no entry *)

\* getAttendanceHistory of the worker's panel: today and the days before.
WorkerHistory(n) == {i \in Rows : Date(attendance[i].in) >= Today - (n - 1)}

HoursOf(I) ==
  Sets!MapThenSumSet(LAMBDA i : IF attendance[i].out = None THEN 0 ELSE attendance[i].out - attendance[i].in, I)

\* buildDayRecord, of the sessions of a day together; half a day is PRESENT.
buildDayRecord(I) ==
  IF \/ \E i \in I : attendance[i].status = "CHECKED_IN"
     \/ resolveAttendanceOutcome(HoursOf(I)) # "ABSENT"
    THEN "PRESENT" ELSE "ABSENT"

\* getHistory, cut off after the latest sessions.
ManagerHistory(n) ==
  LET found == {i \in Rows : Key(attendance[i].in) >= Key(instant) - n}
  IN {i \in found : Cardinality({j \in found : Before(i, j)}) < n + Slack}

\* Of several sessions of a day the earliest is written last.
FirstSession(I) == IF attendance[Oldest(I)].status = "ABSENT" THEN "ABSENT" ELSE "PRESENT"

\* The rest of both calendars: leave, and then the working days from the joining
\* date, or from the first of the window, to yesterday.
Filled(I, n, d, verdict(_)) ==
  LET filed == {i \in I : Key(attendance[i].in) = d} IN
    CASE filed # {} -> verdict(filed)
      [] filed = {} /\ d \in 1..Days /\ leave[d] = "APPROVED" -> "LEAVE"
      [] filed = {} /\ (d \in 1..Days => leave[d] # "APPROVED")
           /\ d >= joined /\ d >= Key(instant) - n /\ d < Key(instant)
           /\ (roster # None => d \in roster.works) -> "ABSENT"
      [] OTHER -> "none"

\* getLeaveCalendar of the worker's panel
WorkerCalendar(n) == [d \in 0..Days |-> Filled(WorkerHistory(n), n, d, buildDayRecord)]

\* getLeaveCalendar of the manager's panel
ManagerCalendar(n) == [d \in 0..Days |-> Filled(ManagerHistory(n), n, d, FirstSession)]

-----------------------------------------------------------------------------
(* The cards of today *)

\* The most recent session: getTodayAttendance, for the manager's panel, and
\* getWorkerDashboard.
Shown == IF Todays = {} THEN "none" ELSE attendance[Newest(Todays)].status

\* getTodayAttendanceRecord of the worker's panel: any session that is open.
TodayCheckIn == \E i \in Todays : attendance[i].status = "CHECKED_IN"

\* workersCheckedInToday and activeWorkersToday count open sessions.
CheckedInToday == Cardinality(Open)

-----------------------------------------------------------------------------
(* Properties *)

CalendarTypeOK ==
  /\ instant \in Instant
  /\ Len(attendance) <= workload.sessions /\ \A i \in Rows : attendance[i] \in Row
  /\ roster \in Roster \union {None}
  /\ leave \in [1..Days -> {"none", "PENDING", "APPROVED"}]
  /\ joined \in 1..Days

Attended(d) == {i \in Rows : Key(attendance[i].in) = d}

\* The two calendars, which are computed from different columns, tell the same of
\* the same sessions and leave, for every day of the window after its first, and
\* the manager's for the first too: as long as there is one session a day, and
\* those that are closed are not short of half a day by the shift of today.
CalendarsAgree ==
  (/\ \A d \in 0..Days : Cardinality(Attended(d)) <= 1
   /\ \A i \in Rows : LET a == attendance[i] IN
        /\ a.status = "CHECKED_IN" => a.out = None
        /\ a.status \notin {"CHECKED_IN", "ABSENT"} => resolveAttendanceOutcome(a.out - a.in) # "ABSENT"
        /\ a.status = "ABSENT" /\ a.out # None => resolveAttendanceOutcome(a.out - a.in) = "ABSENT")
  => \A d \in (Today - Window + 1)..Today : d >= 0 => WorkerCalendar(Window)[d] = ManagerCalendar(Window)[d]

\* A day on which a session was observed is shown as that, and neither as leave
\* nor as a gap, in both calendars: with leave granted after the person came,
\* shifts that change, dates that differ in UTC, and decisions made later.  Except
\* for the first day of a worker's window, whose sessions are not fetched, and for
\* the days of a manager that the limit cuts off.
ObservedWins ==
  \A i \in Rows : LET d == Key(attendance[i].in) IN
    /\ d > Today - Window => WorkerCalendar(Window)[d] = buildDayRecord(Attended(d))
    /\ d >= Key(instant) - Window /\ Len(attendance) <= Window + Slack =>
         ManagerCalendar(Window)[d] = FirstSession(Attended(d))

\* The month counts as absences what the calendar shows as such, and today as long
\* as nobody has come: with an unbroken record since the first day, one session a
\* day on working days, and leave taken on other working days.  (Two sessions on
\* one day hide an absence, and so do leave to come and work on a day off.)
AbsencesAgree ==
  (/\ roster # None /\ joined = 1 /\ Today - Window <= 1 /\ Key(instant) = Today
   /\ Len(attendance) <= Window + Slack
   /\ \A i \in Rows : LET d == Date(attendance[i].in) IN
        d <= Today /\ d \in roster.works /\ Attended(d) = {i}
   /\ \A d \in 1..Days : leave[d] = "APPROVED" =>
        d \in roster.works /\ d <= Today /\ Attended(d) = {})
  => LET shown == ManagerCalendar(Window)
     IN getMonthlySummary.absentCount =
          Cardinality({d \in 1..Today : \/ shown[d] = "ABSENT"
                                        \/ d = Today /\ shown[d] = "none" /\ IsWorkingDay(d)})

\* A missed check-out costs a day without pay exactly if it does not count as a
\* day, or half a day, of the month: through decisions made later, and shifts
\* that have changed since, unless the session is corrected by hand.
ChargedOrAttended ==
  \A i \in Rows : LET a == attendance[i] IN
    a.ask # "none" /\ a.status # "CHECKED_OUT" => (a.charged <=> ~IsPresent(a) /\ ~IsHalf(a))

\* Whoever has an open session is shown as checked in on every card, and is one
\* of those counted; of many sessions a day, with others closed and flagged.
\* (A correction may move the open session before another.)
CardsAgree ==
  "correctIn" \notin workload.ops =>
    /\ Shown = "CHECKED_IN" <=> TodayCheckIn
    /\ CheckedInToday = IF TodayCheckIn THEN 1 ELSE 0
=============================================================================
