-------------------------------- MODULE Rules --------------------------------
(***************************************************************************)
(* What administrators set for everybody: the shifts and who works in      *)
(* them, the attendance rules and the notification settings (parts of      *)
(* AdminService), and the banners of the home page (BannersService).       *)
(*                                                                         *)
(* Times of day are small numbers.  The half-day and full-day hours of a   *)
(* shift, which are checked and written as its start and end are, and the  *)
(* fields nothing is compared with are left out.                           *)
(***************************************************************************)
EXTENDS Requests, TLC

CONSTANTS
  Title,      \* the words shift names are made of
  Permanent,  \* the words of "Shift A" and "Shift B"
  Employee,   \* the managers and workers
  Time,       \* times of day shifts start and end at
  Clock,      \* times of day the attendance rules speak of
  Place,      \* the display orders of banners
  FirstRules, \* the attendance rules there are at the start
  Shifts, Banners   \* bounds: rows ever created of each table

VARIABLES
  shift,      \* the Shift table
  shiftOf,    \* shiftId of each employee's profile (0: NULL)
  rules,      \* the AttendanceRule row
  prefs,      \* the notification settings, one JSON value
  banner      \* the Banner table

regime == <<shift, shiftOf, rules, prefs, banner>>

ShiftName == [word : Title, spelling : {"lower", "capital"}]

Hours == [start : Time, end : Time]

AttendanceRules == [lateAfter : Clock, halfDayAfter : Clock, autoAbsentTime : Clock]

Prefs == [mail : BOOLEAN, push : BOOLEAN]

\* Some shift is possible, like the permanent ones, which start before they end.
ASSUME RulesAssumption ==
  /\ Time \subseteq Nat /\ Clock \subseteq Nat /\ Shifts \in Nat /\ Banners \in Nat
  /\ Permanent \subseteq Title /\ Title # {} /\ Place # {}
  /\ \E opens, closes \in Time : opens < closes
  /\ FirstRules \in AttendanceRules
  /\ FirstRules.lateAfter < FirstRules.halfDayAfter
  /\ FirstRules.halfDayAfter < FirstRules.autoAbsentTime
  /\ \A w \in Workloads : w.titles \subseteq ShiftName

NoShift ==
  [row |-> "absent", name |-> [word |-> CHOOSE w \in Title : TRUE, spelling |-> "capital"],
   hours |-> [start |-> CHOOSE t \in Time : TRUE, end |-> CHOOSE t \in Time : TRUE], active |-> TRUE]

RegimeInit ==
  /\ shift = [s \in 1..Shifts |-> NoShift]
  /\ shiftOf = [e \in Employee |-> 0]
  /\ rules = FirstRules
  /\ prefs = [mail |-> TRUE, push |-> TRUE]
  /\ banner = [b \in 1..Banners |->
                 [row |-> "absent", place |-> CHOOSE p \in Place : TRUE, active |-> TRUE]]

InTable == {s \in 1..Shifts : shift[s].row = "present"}

-----------------------------------------------------------------------------
(* Shifts *)

isPermanentShiftName(name) == name.word \in Permanent

validateShiftTimes(hours) == hours.start < hours.end

\* The name is a unique key, as it is spelled.
NameFree(name, except) == \A s \in InTable \ except : shift[s].name # name

\* findFirst by name, mode: 'insensitive'
Named(name, except) == {s \in InTable \ except : shift[s].name.word = name.word}

\* Whoever lists the shifts when there are none makes the two permanent ones.
EnsureDefaultShifts(r) ==
  /\ Arrives(r, "listShifts")
  /\ InTable = {}
  /\ Awaits(r, [op |-> "listShifts"])
  /\ UNCHANGED regime

DefaultShift(word) ==
  [row |-> "present", name |-> [word |-> word, spelling |-> "capital"], active |-> TRUE,
   hours |-> CHOOSE hours \in Hours : validateShiftTimes(hours)]

\* createMany is one statement, and fails when one of the names is taken.
EnsureDefaultShiftsWrite(r) ==
  /\ Resumes(r, "listShifts")
  /\ LET free == \A w \in Permanent : NameFree(DefaultShift(w).name, {}) IN
       \E place \in [Permanent -> {s \in 1..Shifts : shift[s].row = "absent"}] :
         /\ \A v, w \in Permanent : place[v] = place[w] => v = w
         /\ shift' = IF free THEN [s \in 1..Shifts |->
                                     IF \E w \in Permanent : place[w] = s
                                       THEN DefaultShift(CHOOSE w \in Permanent : place[w] = s)
                                       ELSE shift[s]]
                     ELSE shift
  /\ Reply(r)
  /\ UNCHANGED <<shiftOf, rules, prefs, banner>>

\* A shift that is created under a name there is already is an update.
CreateShift(r, name, hours, active) ==
  /\ Arrives(r, "createShift")
  /\ validateShiftTimes(hours)
  /\ \E found \in Optional(Named(name, {})) :
       /\ found = {} => Named(name, {}) = {}
       /\ Awaits(r, [op |-> "createShift", found |-> found,
                     new |-> [row |-> "present", name |-> name, hours |-> hours, active |-> active]])
  /\ UNCHANGED regime

CreateShiftWrite(r) ==
  /\ Resumes(r, "createShift")
  /\ LET new == req[r].new IN
       \/ \E s \in req[r].found :
            shift' = IF s \in InTable /\ NameFree(new.name, {s}) THEN [shift EXCEPT ![s] = new] ELSE shift
       \/ /\ req[r].found = {}
          /\ \E s \in NextRow(shift, Shifts) :
               shift' = IF NameFree(new.name, {}) THEN [shift EXCEPT ![s] = new] ELSE shift
  /\ Reply(r)
  /\ UNCHANGED <<shiftOf, rules, prefs, banner>>

\* Mutant: only what is sent is checked.
ChecksSentOnly(s, starts, ends) ==
  \A start \in starts, end \in ends : validateShiftTimes([start |-> start, end |-> end])

\* The times that would result, with those that are read now for the others.
ChecksMerged(s, starts, ends) ==
  validateShiftTimes([start |-> Given(starts, shift[s].hours.start),
                      end |-> Given(ends, shift[s].hours.end)])

UpdateShift(r, s, names, starts, ends, active) ==
  /\ Arrives(r, "updateShift")
  /\ s \in InTable
  /\ \A name \in names : name.word # shift[s].name.word => Named(name, {s}) = {}
  /\ ChecksMerged(s, starts, ends)
  /\ Awaits(r, [op |-> "updateShift", shift |-> s, names |-> names, starts |-> starts,
                ends |-> ends, active |-> active])
  /\ UNCHANGED regime

\* Only the fields that were sent are written.
UpdateShiftWrite(r) ==
  /\ Resumes(r, "updateShift")
  /\ LET s == req[r].shift
         name == Given(req[r].names, shift[s].name) IN
       shift' = IF s \in InTable /\ NameFree(name, {s})
                  THEN [shift EXCEPT ![s] =
                          [row |-> "present", name |-> name, active |-> Given(req[r].active, @.active),
                           hours |-> [start |-> Given(req[r].starts, @.hours.start),
                                      end |-> Given(req[r].ends, @.hours.end)]]]
                  ELSE shift
  /\ Reply(r)
  /\ UNCHANGED <<shiftOf, rules, prefs, banner>>

UpdateShiftStatus(r, s, active) ==
  /\ Arrives(r, "shiftStatus")
  /\ s \in InTable
  /\ Awaits(r, [op |-> "shiftStatus", shift |-> s, active |-> active])
  /\ UNCHANGED regime

UpdateShiftStatusWrite(r) ==
  /\ Resumes(r, "shiftStatus")
  /\ LET s == req[r].shift IN
       shift' = IF s \in InTable THEN [shift EXCEPT ![s].active = req[r].active] ELSE shift
  /\ Reply(r)
  /\ UNCHANGED <<shiftOf, rules, prefs, banner>>

DeleteShift(r, s) ==
  /\ Arrives(r, "deleteShift")
  /\ s \in InTable /\ ~isPermanentShiftName(shift[s].name)
  /\ \A e \in Employee : shiftOf[e] # s
  /\ Awaits(r, [op |-> "deleteShift", shift |-> s])
  /\ UNCHANGED regime

\* The foreign key of a profile is set to NULL.
DeleteShiftWrite(r) ==
  /\ Resumes(r, "deleteShift")
  /\ LET s == req[r].shift IN
       /\ shift' = [shift EXCEPT ![s].row = "gone"]
       /\ shiftOf' = [e \in Employee |-> IF shiftOf[e] = s THEN 0 ELSE shiftOf[e]]
  /\ Reply(r)
  /\ UNCHANGED <<rules, prefs, banner>>

validateShiftId(s) == s \in InTable /\ shift[s].active

\* Part of creating or updating a manager or a worker, in either panel.
AssignShift(r, e, s) ==
  /\ Arrives(r, "assignShift")
  /\ validateShiftId(s)
  /\ Awaits(r, [op |-> "assignShift", employee |-> e, shift |-> s])
  /\ UNCHANGED regime

AssignShiftWrite(r) ==
  /\ Resumes(r, "assignShift")
  /\ LET s == req[r].shift IN
       shiftOf' = IF s \in InTable THEN [shiftOf EXCEPT ![req[r].employee] = s] ELSE shiftOf
  /\ Reply(r)
  /\ UNCHANGED <<shift, rules, prefs, banner>>

-----------------------------------------------------------------------------
(* Attendance rules and notification settings *)

Ordered(x) == x.lateAfter < x.halfDayAfter /\ x.halfDayAfter < x.autoAbsentTime

\* The rules as they are read, with the fields of the request.
UpdateAttendanceRules(r, late, half, absent) ==
  /\ Arrives(r, "attendanceRules")
  /\ LET merged == [lateAfter |-> Given(late, rules.lateAfter),
                    halfDayAfter |-> Given(half, rules.halfDayAfter),
                    autoAbsentTime |-> Given(absent, rules.autoAbsentTime)] IN
       /\ Ordered(merged)
       /\ Awaits(r, [op |-> "attendanceRules", merged |-> merged,
                     late |-> late, half |-> half, absent |-> absent])
  /\ UNCHANGED regime

\* Every field is written, those that were not sent as they were read.
UpdateAttendanceRulesWrite(r) ==
  /\ Resumes(r, "attendanceRules")
  /\ rules' = req[r].merged
  /\ Reply(r)
  /\ UNCHANGED <<shift, shiftOf, prefs, banner>>

\* Mutant: what was sent replaces the whole value.
UpdateNotificationSettingsSentOnly(r, mail, push) ==
  /\ Arrives(r, "notificationSettings")
  /\ LET sent == [mail |-> mail, push |-> push] IN
       Awaits(r, [op |-> "notificationSettings",
                  merged |-> [f \in {g \in DOMAIN sent : sent[g] # {}} |-> Given(sent[f], TRUE)]])
  /\ UNCHANGED regime

UpdateNotificationSettings(r, mail, push) ==
  /\ Arrives(r, "notificationSettings")
  /\ Awaits(r, [op |-> "notificationSettings",
                merged |-> [mail |-> Given(mail, prefs.mail), push |-> Given(push, prefs.push)]])
  /\ UNCHANGED regime

UpdateNotificationSettingsWrite(r) ==
  /\ Resumes(r, "notificationSettings")
  /\ prefs' = req[r].merged
  /\ Reply(r)
  /\ UNCHANGED <<shift, shiftOf, rules, banner>>

-----------------------------------------------------------------------------
(* Banners *)

Live == {b \in 1..Banners : banner[b].row = "present"}

\* displayOrder is a unique key, of the banners that are deleted softly too.
PlaceFree(place, except) ==
  \A b \in (1..Banners) \ except : banner[b].row # "absent" => banner[b].place # place

CreateBanner(r, place, active) ==
  /\ Arrives(r, "createBanner")
  /\ \A b \in Live : banner[b].place # place
  /\ Awaits(r, [op |-> "createBanner", place |-> place, active |-> active])
  /\ UNCHANGED regime

CreateBannerWrite(r) ==
  /\ Resumes(r, "createBanner")
  /\ \E b \in NextRow(banner, Banners) :
       banner' = IF PlaceFree(req[r].place, {})
                   THEN [banner EXCEPT ![b] = [row |-> "present", place |-> req[r].place,
                                               active |-> req[r].active]]
                   ELSE banner
  /\ Reply(r)
  /\ UNCHANGED <<shift, shiftOf, rules, prefs>>

\* update and toggleActive
UpdateBanner(r, b, places, active) ==
  /\ Arrives(r, "updateBanner")
  /\ b \in Live
  /\ \A place \in places : \A c \in Live \ {b} : banner[c].place # place
  /\ Awaits(r, [op |-> "updateBanner", banner |-> b, places |-> places, active |-> active])
  /\ UNCHANGED regime

\* By id alone: a banner that was deleted meanwhile is updated too.
UpdateBannerWrite(r) ==
  /\ Resumes(r, "updateBanner")
  /\ LET b == req[r].banner
         place == Given(req[r].places, banner[b].place) IN
       banner' = IF PlaceFree(place, {b})
                   THEN [banner EXCEPT ![b].place = place,
                                       ![b].active = Given(req[r].active, @)]
                   ELSE banner
  /\ Reply(r)
  /\ UNCHANGED <<shift, shiftOf, rules, prefs>>

RemoveBanner(r, b) ==
  /\ Arrives(r, "removeBanner")
  /\ b \in Live
  /\ Awaits(r, [op |-> "removeBanner", banner |-> b])
  /\ UNCHANGED regime

\* deletedAt is set; the row stays.
RemoveBannerWrite(r) ==
  /\ Resumes(r, "removeBanner")
  /\ banner' = [banner EXCEPT ![req[r].banner].row = "gone"]
  /\ Reply(r)
  /\ UNCHANGED <<shift, shiftOf, rules, prefs>>

\* What the app and the website show, by display order.
findActive == {b \in Live : banner[b].active}

-----------------------------------------------------------------------------

RegimeStarts(r) ==
  \/ EnsureDefaultShifts(r)
  \/ \E name \in workload.titles, hours \in Hours, active \in BOOLEAN : CreateShift(r, name, hours, active)
  \/ \E s \in 1..Shifts :
       \/ \E names \in Optional(workload.titles), starts, ends \in Optional(Time), active \in Optional(BOOLEAN) :
            UpdateShift(r, s, names, starts, ends, active)
       \/ \E active \in BOOLEAN : UpdateShiftStatus(r, s, active)
       \/ DeleteShift(r, s)
       \/ \E e \in Employee : AssignShift(r, e, s)
  \/ \E late, half, absent \in Optional(Clock) : UpdateAttendanceRules(r, late, half, absent)
  \/ \E mail, push \in Optional(BOOLEAN) : UpdateNotificationSettings(r, mail, push)
  \/ \E place \in Place, active \in BOOLEAN : CreateBanner(r, place, active)
  \/ \E b \in 1..Banners :
       \/ \E places \in Optional(Place), active \in Optional(BOOLEAN) : UpdateBanner(r, b, places, active)
       \/ RemoveBanner(r, b)

RegimeWrites(r) ==
  \/ EnsureDefaultShiftsWrite(r) \/ CreateShiftWrite(r) \/ UpdateShiftWrite(r)
  \/ UpdateShiftStatusWrite(r) \/ DeleteShiftWrite(r) \/ AssignShiftWrite(r)
  \/ UpdateAttendanceRulesWrite(r) \/ UpdateNotificationSettingsWrite(r)
  \/ CreateBannerWrite(r) \/ UpdateBannerWrite(r) \/ RemoveBannerWrite(r)

RegimeNext == \E r \in Request : RegimeStarts(r) \/ RegimeWrites(r)

-----------------------------------------------------------------------------
(* Properties *)

RegimeTypeOK ==
  /\ shift \in [1..Shifts -> [row : {"absent", "present", "gone"}, name : ShiftName,
                              hours : Hours, active : BOOLEAN]]
  /\ shiftOf \in [Employee -> 0..Shifts]
  /\ rules \in AttendanceRules
  /\ prefs \in Prefs
  /\ banner \in [1..Banners -> [row : {"absent", "present", "gone"}, place : Place, active : BOOLEAN]]

\* However the updates of several administrators overlap, each of one field
\* perhaps, late comes before half a day and half a day before absent in the
\* rules that attendance is judged by.
RulesOrdered == Ordered(rules)

\* A shift starts before it ends, although its start and its end are updated
\* one at a time and by two operations.  Holds when requests do not overlap.
ShiftTimesOrdered ==
  ~workload.overlap => \A s \in InTable : validateShiftTimes(shift[s].hours)

\* No two shifts have names that differ in capitals only, whichever of create,
\* update and the defaults made them.  Holds when requests do not overlap.
ShiftNamesDistinct ==
  ~workload.overlap =>
    \A s, t \in InTable : shift[s].name.word = shift[t].name.word => s = t

\* Whoever has a shift keeps it until they are given another: deletions never
\* take one from under somebody.  Holds when requests do not overlap.
ShiftInUseStays ==
  [][~workload.overlap =>
       \A e \in Employee : shiftOf[e] # 0 => shiftOf'[e] \in InTable']_<<shift, shiftOf>>

\* However creations and updates overlap, the banners that are shown have an
\* order: no two are in one place.
BannersDistinct ==
  \A b, c \in findActive : banner[b].place = banner[c].place => b = c
=============================================================================
