---------------------------- MODULE PlatformProofs ----------------------------
(***************************************************************************)
(* What holds of the rules, belongings, catalogue and days of module       *)
(* Platform, for any numbers of them and any mix of requests: one          *)
(* invariant for each part, which its own requests keep and those of the   *)
(* others leave alone.                                                     *)
(***************************************************************************)
EXTENDS Platform, WellFoundedInduction, FiniteSetTheorems, TLAPS

-----------------------------------------------------------------------------
(* Requests *)

\* Requests are kept in a function, and one at a time unless they overlap.
RequestsOK ==
  /\ req = [r \in Request |-> req[r]]
  /\ workload \in Workloads
  /\ ~workload.overlap =>
       \A x, y \in Request : req[x] # Idle /\ req[y] # Idle => x = y

\* One request begins, goes on or ends, with an operation among ops.
Moves(r, ops) ==
  /\ r \in Request
  /\ MayStart(r) \/ req[r].op \in ops
  /\ req' = [x \in Request |-> req'[x]]
  /\ \A x \in Request : x # r => req'[x] = req[x]
  /\ req'[r] = req[r] \/ req'[r] = Idle \/ req'[r].op \in ops

\* Whatever operation is under way after a step was before it, or is among ops.
Stirs(ops) ==
  \A x \in Request : req'[x] = req[x] \/ req'[x] = Idle \/ req'[x].op \in ops

\* When requests do not overlap, all that is under way after a step is among ops.
Clears(ops) ==
  ~workload.overlap => \A x \in Request : req'[x] = Idle \/ req'[x].op \in ops

LEMMA MovesAlone ==
  ASSUME RequestsOK, NEW r, NEW ops, Moves(r, ops), "idle" \notin ops, workload' = workload
  PROVE  RequestsOK' /\ Stirs(ops) /\ Clears(ops)
<1>1. RequestsOK'
  BY DEF RequestsOK, Moves, MayStart, Quiet, Idle
<1>2. Stirs(ops)
  BY DEF Moves, Stirs
<1>3. Clears(ops)
  BY DEF RequestsOK, Moves, MayStart, Quiet, Idle, Clears
<1>. QED BY <1>1, <1>2, <1>3

\* A handler that fails leaves the others as they are.
LEMMA FailsAlone ==
  ASSUME RequestsOK, NEW r \in Request, NEW ops, Fails(r), workload' = workload
  PROVE  RequestsOK' /\ Stirs(ops) /\ Clears(ops)
<1>1. /\ req' = [x \in Request |-> req'[x]] /\ req'[r] = Idle /\ req[r] # Idle
      /\ \A x \in Request : x # r => req'[x] = req[x]
  BY DEF RequestsOK, Fails, Reply
<1>. QED BY <1>1 DEF RequestsOK, Stirs, Clears

LEMMA Awaited ==
  ASSUME RequestsOK, NEW r \in Request, NEW h, Awaits(r, h)
  PROVE  /\ req' = [x \in Request |-> req'[x]] /\ req'[r] = h
         /\ \A x \in Request : x # r => req'[x] = req[x]
BY DEF RequestsOK, Awaits

LEMMA Replied ==
  ASSUME RequestsOK, NEW r \in Request, Reply(r)
  PROVE  /\ req' = [x \in Request |-> req'[x]] /\ req'[r] = Idle
         /\ \A x \in Request : x # r => req'[x] = req[x]
BY DEF RequestsOK, Reply

\* The steps handlers take: one starts, goes on to another write, or ends.
LEMMA Started ==
  ASSUME RequestsOK, NEW r \in Request, NEW ops, MayStart(r),
         (\E h : Awaits(r, h) /\ h.op \in ops) \/ UNCHANGED req
  PROVE  Moves(r, ops)
BY Awaited DEF Moves, RequestsOK

LEMMA GivenType ==
  ASSUME NEW S, NEW f \in Optional(S), NEW c \in S
  PROVE  /\ Given(f, c) \in S
         /\ f = {} => Given(f, c) = c
         /\ f # {} => Given(f, c) \in f /\ f = {Given(f, c)}
<1>1. CASE f = {}
  BY <1>1 DEF Given
<1>2. CASE f # {}
  <2>1. PICK v \in S : f = {v}
    BY <1>2 DEF Optional
  <2>2. (CHOOSE w \in f : TRUE) \in f
    BY <2>1
  <2>. QED BY <1>2, <2>1, <2>2 DEF Given
<1>. QED BY <1>1, <1>2

LEMMA GivenFlag ==
  ASSUME NEW f \in Optional(BOOLEAN), NEW c \in BOOLEAN
  PROVE  /\ Given(f, c) \in BOOLEAN
         /\ f = {} => Given(f, c) = c
         /\ f # {} => Given(f, c) \in f /\ f = {Given(f, c)}
BY GivenType, Zenon

-----------------------------------------------------------------------------
(* Rules *)

RegimeOps ==
  {"listShifts", "createShift", "updateShift", "shiftStatus", "deleteShift", "assignShift",
   "attendanceRules", "notificationSettings", "createBanner", "updateBanner", "removeBanner"}

ShiftRow ==
  [row : {"absent", "present", "gone"}, name : ShiftName, hours : Hours, active : BOOLEAN]

\* What a handler has been given; a banner it has found stays, if only deleted softly.
RegimeHandler(h) ==
  /\ h.op = "createShift" =>
       /\ h.new \in ShiftRow /\ h.new.row = "present" /\ validateShiftTimes(h.new.hours)
       /\ h.found \in SUBSET (1..Shifts)
  /\ h.op = "updateShift" =>
       /\ h.shift \in 1..Shifts /\ h.names \in Optional(ShiftName)
       /\ h.starts \in Optional(Time) /\ h.ends \in Optional(Time)
       /\ h.active \in Optional(BOOLEAN)
  /\ h.op \in {"shiftStatus", "deleteShift", "assignShift"} => h.shift \in 1..Shifts
  /\ h.op = "shiftStatus" => h.active \in BOOLEAN
  /\ h.op = "assignShift" => h.employee \in Employee
  /\ h.op = "attendanceRules" => h.merged \in AttendanceRules /\ Ordered(h.merged)
  /\ h.op = "notificationSettings" => h.merged \in Prefs
  /\ h.op = "createBanner" => h.place \in Place /\ h.active \in BOOLEAN
  /\ h.op \in {"updateBanner", "removeBanner"} =>
       h.banner \in 1..Banners /\ banner[h.banner].row # "absent"
  /\ h.op = "updateBanner" => h.places \in Optional(Place) /\ h.active \in Optional(BOOLEAN)

\* What it has checked of the shifts, which holds until it writes if it is alone.
RegimeChecked(h) ==
  /\ h.op = "listShifts" => InTable = {}
  /\ h.op = "createShift" =>
       h.found \subseteq Named(h.new.name, {}) /\ (h.found = {} => Named(h.new.name, {}) = {})
  /\ h.op \in {"updateShift", "deleteShift", "assignShift"} => h.shift \in InTable
  /\ h.op = "updateShift" =>
       /\ \A name \in h.names : name.word # shift[h.shift].name.word => Named(name, {h.shift}) = {}
       /\ ChecksMerged(h.shift, h.starts, h.ends)
  /\ h.op = "deleteShift" => \A e \in Employee : shiftOf[e] # h.shift

\* Banners deleted softly keep their places.
PlacesDistinct ==
  \A b, c \in 1..Banners :
    banner[b].row # "absent" /\ banner[c].row # "absent" /\ banner[b].place = banner[c].place => b = c

ShiftsGiven == ~workload.overlap => \A e \in Employee : shiftOf[e] # 0 => shiftOf[e] \in InTable

ShiftsHold == ShiftTimesOrdered /\ ShiftNamesDistinct /\ ShiftsGiven

RegimeInv ==
  /\ RegimeTypeOK
  /\ RulesOrdered /\ PlacesDistinct
  /\ ShiftsHold
  /\ \A x \in Request : RegimeHandler(req[x])
  /\ ~workload.overlap => \A x \in Request : RegimeChecked(req[x])

\* A handler has been started that knows what it needs.
RegimeTakes(h) == h.op \in RegimeOps /\ RegimeHandler(h) /\ RegimeChecked(h)

LEMMA RegimeBegins ==
  ASSUME RegimeInv, RequestsOK, NEW r \in Request, RegimeStarts(r)
  PROVE  MayStart(r) /\ \E h : Awaits(r, h) /\ RegimeTakes(h) /\ UNCHANGED regime
<1>. DEFINE Goal == MayStart(r) /\ \E h : Awaits(r, h) /\ RegimeTakes(h) /\ UNCHANGED regime
<1>t. RegimeTypeOK /\ workload.titles \subseteq ShiftName
  BY RulesAssumption DEF RegimeInv, RequestsOK
<1>1. ASSUME EnsureDefaultShifts(r) PROVE Goal
  <2>1. RegimeTakes([op |-> "listShifts"])
    BY <1>1 DEF EnsureDefaultShifts, RegimeTakes, RegimeOps, RegimeHandler, RegimeChecked
  <2>. QED BY <1>1, <2>1 DEF EnsureDefaultShifts, Arrives
<1>2. ASSUME NEW name \in ShiftName, NEW hours \in Hours, NEW active \in BOOLEAN,
             CreateShift(r, name, hours, active)
      PROVE  Goal
  <2>. DEFINE new == [row |-> "present", name |-> name, hours |-> hours, active |-> active]
  <2>1. PICK found \in Optional(Named(name, {})) :
             /\ found = {} => Named(name, {}) = {}
             /\ Awaits(r, [op |-> "createShift", found |-> found, new |-> new])
    BY <1>2 DEF CreateShift
  <2>2. found \subseteq Named(name, {})
    BY DEF Optional
  <2>3. Named(name, {}) \subseteq 1..Shifts
    BY DEF Named, InTable
  <2>4. new \in ShiftRow /\ new.row = "present" /\ new.name = name /\ new.hours = hours
    BY DEF ShiftRow
  <2>5. validateShiftTimes(hours)
    BY <1>2 DEF CreateShift
  <2>6. RegimeTakes([op |-> "createShift", found |-> found, new |-> new])
    BY <2>1, <2>2, <2>3, <2>4, <2>5 DEF RegimeTakes, RegimeOps, RegimeHandler, RegimeChecked
  <2>. QED BY <1>2, <2>1, <2>6 DEF CreateShift, Arrives
<1>3. ASSUME NEW s \in 1..Shifts, NEW names \in Optional(workload.titles), NEW starts \in Optional(Time),
             NEW ends \in Optional(Time), NEW active \in Optional(BOOLEAN),
             UpdateShift(r, s, names, starts, ends, active)
      PROVE  Goal
  <2>. DEFINE h == [op |-> "updateShift", shift |-> s, names |-> names, starts |-> starts,
                    ends |-> ends, active |-> active]
  <2>1. names \in Optional(ShiftName)
    BY <1>t DEF Optional
  <2>2. RegimeHandler(h)
    BY <2>1 DEF RegimeHandler
  <2>3. RegimeChecked(h)
    BY <1>3 DEF UpdateShift, RegimeChecked
  <2>. QED BY <1>3, <2>2, <2>3 DEF UpdateShift, Arrives, RegimeTakes, RegimeOps
<1>4. ASSUME NEW s \in 1..Shifts, NEW active \in BOOLEAN, UpdateShiftStatus(r, s, active)
      PROVE  Goal
  <2>1. RegimeTakes([op |-> "shiftStatus", shift |-> s, active |-> active])
    BY DEF RegimeTakes, RegimeOps, RegimeHandler, RegimeChecked
  <2>. QED BY <1>4, <2>1 DEF UpdateShiftStatus, Arrives
<1>5. ASSUME NEW s \in 1..Shifts, DeleteShift(r, s) PROVE Goal
  <2>1. RegimeTakes([op |-> "deleteShift", shift |-> s])
    BY <1>5 DEF DeleteShift, RegimeTakes, RegimeOps, RegimeHandler, RegimeChecked
  <2>. QED BY <1>5, <2>1 DEF DeleteShift, Arrives
<1>6. ASSUME NEW s \in 1..Shifts, NEW e \in Employee, AssignShift(r, e, s) PROVE Goal
  <2>1. RegimeTakes([op |-> "assignShift", employee |-> e, shift |-> s])
    BY <1>6 DEF AssignShift, validateShiftId, RegimeTakes, RegimeOps, RegimeHandler, RegimeChecked
  <2>. QED BY <1>6, <2>1 DEF AssignShift, Arrives
<1>7. ASSUME NEW late \in Optional(Clock), NEW half \in Optional(Clock), NEW absent \in Optional(Clock),
             UpdateAttendanceRules(r, late, half, absent)
      PROVE  Goal
  <2>. DEFINE merged == [lateAfter |-> Given(late, rules.lateAfter),
                         halfDayAfter |-> Given(half, rules.halfDayAfter),
                         autoAbsentTime |-> Given(absent, rules.autoAbsentTime)]
              h == [op |-> "attendanceRules", merged |-> merged,
                    late |-> late, half |-> half, absent |-> absent]
  <2>1. rules.lateAfter \in Clock /\ rules.halfDayAfter \in Clock /\ rules.autoAbsentTime \in Clock
    BY <1>t DEF RegimeTypeOK, AttendanceRules
  <2>2. merged \in AttendanceRules
    BY <2>1, GivenType DEF AttendanceRules
  <2>3. Ordered(merged) /\ Awaits(r, h)
    BY <1>7 DEF UpdateAttendanceRules
  <2>4. h.op = "attendanceRules" /\ h.merged = merged
    OBVIOUS
  <2>. HIDE DEF merged, h
  <2>5. RegimeTakes(h)
    BY <2>2, <2>3, <2>4 DEF RegimeTakes, RegimeOps, RegimeHandler, RegimeChecked
  <2>. QED BY <1>7, <2>3, <2>5 DEF UpdateAttendanceRules, Arrives
<1>8. ASSUME NEW mail \in Optional(BOOLEAN), NEW push \in Optional(BOOLEAN),
             UpdateNotificationSettings(r, mail, push)
      PROVE  Goal
  <2>. DEFINE merged == [mail |-> Given(mail, prefs.mail), push |-> Given(push, prefs.push)]
              h == [op |-> "notificationSettings", merged |-> merged]
  <2>1. prefs.mail \in BOOLEAN /\ prefs.push \in BOOLEAN
    BY <1>t DEF RegimeTypeOK, Prefs
  <2>2. Given(mail, prefs.mail) \in BOOLEAN /\ Given(push, prefs.push) \in BOOLEAN
    BY <2>1, GivenFlag, Zenon
  <2>3. merged \in Prefs
    BY <2>2 DEF Prefs
  <2>4. Awaits(r, h) /\ UNCHANGED regime /\ MayStart(r)
    BY <1>8 DEF UpdateNotificationSettings, Arrives
  <2>5. h.op = "notificationSettings" /\ h.merged = merged
    OBVIOUS
  <2>. HIDE DEF merged, h
  <2>6. RegimeTakes(h)
    BY <2>3, <2>5 DEF RegimeTakes, RegimeOps, RegimeHandler, RegimeChecked
  <2>. QED BY <2>4, <2>6
<1>9. ASSUME NEW place \in Place, NEW active \in BOOLEAN, CreateBanner(r, place, active) PROVE Goal
  <2>1. RegimeTakes([op |-> "createBanner", place |-> place, active |-> active])
    BY DEF RegimeTakes, RegimeOps, RegimeHandler, RegimeChecked
  <2>. QED BY <1>9, <2>1 DEF CreateBanner, Arrives
<1>10. ASSUME NEW b \in 1..Banners, NEW places \in Optional(Place), NEW active \in Optional(BOOLEAN),
              UpdateBanner(r, b, places, active)
       PROVE  Goal
  <2>1. banner[b].row # "absent"
    BY <1>10 DEF UpdateBanner, Live
  <2>2. RegimeTakes([op |-> "updateBanner", banner |-> b, places |-> places, active |-> active])
    BY <2>1 DEF RegimeTakes, RegimeOps, RegimeHandler, RegimeChecked
  <2>. QED BY <1>10, <2>2 DEF UpdateBanner, Arrives
<1>11. ASSUME NEW b \in 1..Banners, RemoveBanner(r, b) PROVE Goal
  <2>1. banner[b].row # "absent"
    BY <1>11 DEF RemoveBanner, Live
  <2>2. RegimeTakes([op |-> "removeBanner", banner |-> b])
    BY <2>1 DEF RegimeTakes, RegimeOps, RegimeHandler, RegimeChecked
  <2>. QED BY <1>11, <2>2 DEF RemoveBanner, Arrives
<1>12. CASE EnsureDefaultShifts(r)
  BY <1>1, <1>12
<1>13. CASE \E name \in workload.titles, hours \in Hours, active \in BOOLEAN : CreateShift(r, name, hours, active)
  BY <1>2, <1>13, <1>t
<1>14. CASE \E s \in 1..Shifts :
         \/ \E names \in Optional(workload.titles), starts, ends \in Optional(Time), active \in Optional(BOOLEAN) :
              UpdateShift(r, s, names, starts, ends, active)
         \/ \E active \in BOOLEAN : UpdateShiftStatus(r, s, active)
         \/ DeleteShift(r, s)
         \/ \E e \in Employee : AssignShift(r, e, s)
  BY <1>3, <1>4, <1>5, <1>6, <1>14
<1>15. CASE \E late, half, absent \in Optional(Clock) : UpdateAttendanceRules(r, late, half, absent)
  BY <1>7, <1>15
<1>16. CASE \E mail, push \in Optional(BOOLEAN) : UpdateNotificationSettings(r, mail, push)
  BY <1>8, <1>16
<1>17. CASE \E place \in Place, active \in BOOLEAN : CreateBanner(r, place, active)
  BY <1>9, <1>17
<1>18. CASE \E b \in 1..Banners :
         \/ \E places \in Optional(Place), active \in Optional(BOOLEAN) : UpdateBanner(r, b, places, active)
         \/ RemoveBanner(r, b)
  BY <1>10, <1>11, <1>18
<1>. QED BY <1>12, <1>13, <1>14, <1>15, <1>16, <1>17, <1>18 DEF RegimeStarts

\* The step of ShiftInUseStays.
UseStays == ~workload.overlap => \A e \in Employee : shiftOf[e] # 0 => shiftOf'[e] \in InTable'

\* A write has left the tables as they should be, and has replied.
RegimeWrote(r) ==
  /\ Reply(r)
  /\ RegimeTypeOK' /\ RulesOrdered' /\ PlacesDistinct' /\ ShiftsHold' /\ UseStays
  /\ \A b \in 1..Banners : banner[b].row # "absent" => banner'[b].row # "absent"

\* The tables of shifts are left alone.
LEMMA ShiftsLeft ==
  ASSUME ShiftsHold, workload' = workload, shift' = shift, shiftOf' = shiftOf
  PROVE  ShiftsHold' /\ UseStays
BY DEF ShiftsHold, ShiftTimesOrdered, ShiftNamesDistinct, ShiftsGiven, InTable, UseStays

LEMMA BannersLeft ==
  ASSUME PlacesDistinct, banner' = banner
  PROVE  PlacesDistinct' /\ \A b \in 1..Banners : banner[b].row # "absent" => banner'[b].row # "absent"
BY DEF PlacesDistinct

LEMMA RulesLeft ==
  ASSUME RulesOrdered, rules' = rules
  PROVE  RulesOrdered'
BY DEF RulesOrdered

\* One shift is there as it has been checked, under a name that is free.
LEMMA ShiftPut ==
  ASSUME RegimeInv, workload' = workload, NEW s \in 1..Shifts, NEW row \in ShiftRow,
         row.row = "present", shift' = [shift EXCEPT ![s] = row], shiftOf' = shiftOf,
         ~workload.overlap => validateShiftTimes(row.hours),
         ~workload.overlap => \A t \in InTable \ {s} : shift[t].name.word # row.name.word
  PROVE  ShiftsHold' /\ shift' \in [1..Shifts -> ShiftRow] /\ UseStays
<1>1. shift \in [1..Shifts -> ShiftRow]
  BY DEF RegimeInv, RegimeTypeOK, ShiftRow
<1>2. shift' \in [1..Shifts -> ShiftRow]
  BY <1>1
<1>3. /\ shift'[s] = row
      /\ \A t \in 1..Shifts : t # s => shift'[t] = shift[t]
  BY <1>1
<1>4. InTable' = InTable \union {s}
  BY <1>3 DEF InTable
<1>5. ShiftTimesOrdered'
  BY <1>3, <1>4 DEF RegimeInv, ShiftsHold, ShiftTimesOrdered, InTable
<1>6. ShiftNamesDistinct'
  BY <1>3, <1>4 DEF RegimeInv, ShiftsHold, ShiftNamesDistinct, InTable
<1>7. ShiftsGiven'
  BY <1>4 DEF RegimeInv, ShiftsHold, ShiftsGiven
<1>8. UseStays
  BY <1>7 DEF UseStays, ShiftsGiven
<1>. QED BY <1>2, <1>5, <1>6, <1>7, <1>8 DEF ShiftsHold

LEMMA DefaultShiftOK ==
  ASSUME NEW w \in Permanent
  PROVE  /\ DefaultShift(w) \in ShiftRow /\ DefaultShift(w).row = "present"
         /\ DefaultShift(w).name.word = w /\ validateShiftTimes(DefaultShift(w).hours)
<1>. DEFINE hours == CHOOSE h \in Hours : validateShiftTimes(h)
<1>1. PICK opens \in Time, closes \in Time : opens < closes
  BY RulesAssumption
<1>2. [start |-> opens, end |-> closes] \in Hours /\ validateShiftTimes([start |-> opens, end |-> closes])
  BY <1>1 DEF Hours, validateShiftTimes
<1>3. hours \in Hours /\ validateShiftTimes(hours)
  BY <1>2
<1>4. w \in Title
  BY RulesAssumption
<1>. HIDE DEF hours
<1>5. [row |-> "present", name |-> [word |-> w, spelling |-> "capital"], active |-> TRUE,
       hours |-> hours] \in ShiftRow
  BY <1>3, <1>4 DEF ShiftRow, ShiftName
<1>6. DefaultShift(w) = [row |-> "present", name |-> [word |-> w, spelling |-> "capital"],
                         active |-> TRUE, hours |-> hours]
  BY DEF DefaultShift, hours
<1>. QED BY <1>3, <1>5, <1>6

LEMMA DefaultsWrite ==
  ASSUME RegimeInv, RequestsOK, workload' = workload, NEW r \in Request, EnsureDefaultShiftsWrite(r)
  PROVE  RegimeWrote(r)
<1>1. /\ Resumes(r, "listShifts") /\ Reply(r) /\ UNCHANGED <<shiftOf, rules, prefs, banner>>
  BY DEF EnsureDefaultShiftsWrite
<1>2. PICK place \in [Permanent -> {s \in 1..Shifts : shift[s].row = "absent"}] :
        /\ \A v, w \in Permanent : place[v] = place[w] => v = w
        /\ shift' = shift \/ shift' = [s \in 1..Shifts |->
                                        IF \E w \in Permanent : place[w] = s
                                          THEN DefaultShift(CHOOSE w \in Permanent : place[w] = s)
                                          ELSE shift[s]]
  BY DEF EnsureDefaultShiftsWrite
<1>3. shift \in [1..Shifts -> ShiftRow]
  BY DEF RegimeInv, RegimeTypeOK, ShiftRow
<1>4. CASE shift' = shift
  <2>1. ShiftsHold' /\ UseStays
    BY <1>1, <1>4, ShiftsLeft DEF RegimeInv
  <2>2. RegimeTypeOK'
    BY <1>1, <1>4 DEF RegimeInv, RegimeTypeOK
  <2>. QED BY <1>1, <2>1, <2>2, BannersLeft, RulesLeft DEF RegimeWrote, RegimeInv
<1>5. CASE shift' # shift
  <2>1. shift' = [s \in 1..Shifts |->
                    IF \E w \in Permanent : place[w] = s
                      THEN DefaultShift(CHOOSE w \in Permanent : place[w] = s) ELSE shift[s]]
    BY <1>2, <1>5
  <2>2. ASSUME NEW w \in Permanent PROVE place[w] \in 1..Shifts /\ shift'[place[w]] = DefaultShift(w)
    <3>1. place[w] \in 1..Shifts
      OBVIOUS
    <3>2. (CHOOSE v \in Permanent : place[v] = place[w]) = w
      BY <1>2
    <3>. QED BY <2>1, <3>1, <3>2
  <2>3. ASSUME NEW s \in 1..Shifts
        PROVE  shift'[s] = shift[s] \/ \E w \in Permanent : s = place[w] /\ shift'[s] = DefaultShift(w)
    BY <2>1, <2>2
  <2>4. shift' \in [1..Shifts -> ShiftRow]
    <3>1. ASSUME NEW s \in 1..Shifts PROVE shift'[s] \in ShiftRow
      BY <1>3, <2>3, DefaultShiftOK
    <3>2. shift' = [s \in 1..Shifts |-> shift'[s]]
      BY <2>1, Zenon
    <3>. QED BY <3>1, <3>2
  <2>5. ~workload.overlap => InTable = {}
    BY <1>1 DEF RegimeInv, RegimeChecked, Resumes
  <2>6. ASSUME ~workload.overlap, NEW s \in InTable'
        PROVE  \E w \in Permanent : s = place[w] /\ shift'[s] = DefaultShift(w)
    BY <2>3, <2>5, <2>6 DEF InTable
  <2>7. ShiftTimesOrdered'
    BY <2>6, DefaultShiftOK DEF ShiftTimesOrdered
  <2>8. ShiftNamesDistinct'
    <3>. SUFFICES ASSUME ~workload.overlap, NEW s \in InTable', NEW t \in InTable',
                         shift'[s].name.word = shift'[t].name.word
                  PROVE  s = t
      BY DEF ShiftNamesDistinct
    <3>1. PICK v \in Permanent : s = place[v] /\ shift'[s] = DefaultShift(v)
      BY <2>6
    <3>2. PICK w \in Permanent : t = place[w] /\ shift'[t] = DefaultShift(w)
      BY <2>6
    <3>3. DefaultShift(v).name.word = v /\ DefaultShift(w).name.word = w
      BY DefaultShiftOK
    <3>. QED BY <3>1, <3>2, <3>3
  <2>9. ShiftsGiven' /\ UseStays
    BY <1>1, <2>5 DEF RegimeInv, ShiftsHold, ShiftsGiven, UseStays
  <2>10. RegimeTypeOK'
    BY <1>1, <2>4 DEF RegimeInv, RegimeTypeOK, ShiftRow
  <2>. QED BY <1>1, <2>7, <2>8, <2>9, <2>10, BannersLeft, RulesLeft DEF RegimeWrote, RegimeInv, ShiftsHold
<1>. QED BY <1>4, <1>5

LEMMA ShiftsWrite ==
  ASSUME RegimeInv, RequestsOK, workload' = workload, NEW r \in Request,
         \/ CreateShiftWrite(r) \/ UpdateShiftWrite(r) \/ UpdateShiftStatusWrite(r)
         \/ DeleteShiftWrite(r) \/ AssignShiftWrite(r)
  PROVE  RegimeWrote(r)
<1>. DEFINE Held == /\ ShiftsHold' /\ UseStays
                    /\ shift' \in [1..Shifts -> ShiftRow] /\ shiftOf' \in [Employee -> 0..Shifts]
<1>t. shift \in [1..Shifts -> ShiftRow] /\ shiftOf \in [Employee -> 0..Shifts]
  BY DEF RegimeInv, RegimeTypeOK, ShiftRow
<1>h. RegimeHandler(req[r]) /\ (~workload.overlap => RegimeChecked(req[r]))
  BY DEF RegimeInv
<1>s. UNCHANGED <<shift, shiftOf>> => Held
  BY <1>t, ShiftsLeft DEF RegimeInv
<1>1. CASE CreateShiftWrite(r)
  <2>. DEFINE new == req[r].new
  <2>1. /\ new \in ShiftRow /\ new.row = "present" /\ validateShiftTimes(new.hours)
        /\ req[r].found \in SUBSET (1..Shifts)
    BY <1>1, <1>h DEF CreateShiftWrite, Resumes, RegimeHandler
  <2>2. ~workload.overlap => /\ req[r].found \subseteq Named(new.name, {})
                             /\ req[r].found = {} => Named(new.name, {}) = {}
    BY <1>1, <1>h DEF CreateShiftWrite, Resumes, RegimeChecked
  <2>3. ASSUME NEW s \in req[r].found, shift' = [shift EXCEPT ![s] = new], shiftOf' = shiftOf PROVE Held
    <3>1. ~workload.overlap => \A t \in InTable \ {s} : shift[t].name.word # new.name.word
      BY <2>2 DEF Named, RegimeInv, ShiftsHold, ShiftNamesDistinct
    <3>2. s \in 1..Shifts
      BY <2>1
    <3>. QED BY <1>t, <2>1, <2>3, <3>1, <3>2, ShiftPut
  <2>4. ASSUME req[r].found = {}, NEW s \in 1..Shifts, shift' = [shift EXCEPT ![s] = new], shiftOf' = shiftOf
        PROVE  Held
    <3>1. ~workload.overlap => \A t \in InTable \ {s} : shift[t].name.word # new.name.word
      BY <2>2, <2>4 DEF Named
    <3>. QED BY <1>t, <2>1, <2>4, <3>1, ShiftPut
  <2>5. \/ UNCHANGED <<shift, shiftOf>>
        \/ \E s \in req[r].found : shift' = [shift EXCEPT ![s] = new] /\ shiftOf' = shiftOf
        \/ req[r].found = {} /\ \E s \in 1..Shifts : shift' = [shift EXCEPT ![s] = new] /\ shiftOf' = shiftOf
    BY <1>1 DEF CreateShiftWrite, NextRow
  <2>6. Held
    BY <1>s, <2>3, <2>4, <2>5
  <2>. QED BY <1>1, <2>6, BannersLeft, RulesLeft DEF CreateShiftWrite, RegimeWrote, RegimeInv, RegimeTypeOK, ShiftRow
<1>2. CASE UpdateShiftWrite(r)
  <2>. DEFINE s == req[r].shift
              name == Given(req[r].names, shift[s].name)
              hours == [start |-> Given(req[r].starts, shift[s].hours.start),
                        end |-> Given(req[r].ends, shift[s].hours.end)]
              active == Given(req[r].active, shift[s].active)
              row == [row |-> "present", name |-> name, active |-> active, hours |-> hours]
  <2>1. /\ s \in 1..Shifts /\ req[r].names \in Optional(ShiftName)
        /\ req[r].starts \in Optional(Time) /\ req[r].ends \in Optional(Time)
        /\ req[r].active \in Optional(BOOLEAN)
    BY <1>2, <1>h DEF UpdateShiftWrite, Resumes, RegimeHandler
  <2>2. /\ shift[s] \in ShiftRow /\ shift[s].name \in ShiftName /\ shift[s].active \in BOOLEAN
        /\ shift[s].hours.start \in Time /\ shift[s].hours.end \in Time
    BY <1>t, <2>1 DEF ShiftRow, Hours
  <2>3. name \in ShiftName /\ hours.start \in Time /\ hours.end \in Time /\ active \in BOOLEAN
    BY <2>1, <2>2, GivenType, GivenFlag
  <2>4. hours \in Hours
    BY <2>3 DEF Hours
  <2>5. ~workload.overlap => validateShiftTimes(hours)
    BY <1>2, <1>h DEF UpdateShiftWrite, Resumes, RegimeChecked, ChecksMerged
  <2>6. ~workload.overlap /\ s \in InTable => \A t \in InTable \ {s} : shift[t].name.word # name.word
    <3>1. CASE req[r].names = {}
      <4>1. name = shift[s].name
        BY <3>1 DEF Given
      <4>. QED BY <4>1 DEF RegimeInv, ShiftsHold, ShiftNamesDistinct
    <3>2. CASE req[r].names # {}
      <4>1. name \in req[r].names
        BY <2>1, <2>2, <3>2, GivenType
      <4>2. ~workload.overlap => (name.word # shift[s].name.word => Named(name, {s}) = {})
        BY <1>2, <1>h, <4>1 DEF UpdateShiftWrite, Resumes, RegimeChecked
      <4>. HIDE DEF name
      <4>. QED BY <4>2 DEF RegimeInv, ShiftsHold, ShiftNamesDistinct, Named
    <3>. QED BY <3>1, <3>2
  <2>7. \/ shift' = shift
        \/ s \in InTable /\ shift' = [shift EXCEPT ![s] = row]
    BY <1>2 DEF UpdateShiftWrite
  <2>8. shiftOf' = shiftOf
    BY <1>2 DEF UpdateShiftWrite
  <2>. HIDE DEF name, hours, active
  <2>9. row \in ShiftRow /\ row.row = "present" /\ row.name = name /\ row.hours = hours
    BY <2>3, <2>4 DEF ShiftRow
  <2>. HIDE DEF row
  <2>10. s \in InTable /\ shift' = [shift EXCEPT ![s] = row] => Held
    BY <1>t, <2>1, <2>5, <2>6, <2>8, <2>9, ShiftPut
  <2>11. Held
    BY <1>s, <2>7, <2>8, <2>10
  <2>. QED BY <1>2, <2>11, BannersLeft, RulesLeft DEF UpdateShiftWrite, RegimeWrote, RegimeInv, RegimeTypeOK, ShiftRow
<1>3. CASE UpdateShiftStatusWrite(r)
  <2>. DEFINE s == req[r].shift
              row == [shift[s] EXCEPT !.active = req[r].active]
  <2>1. s \in 1..Shifts /\ req[r].active \in BOOLEAN
    BY <1>3, <1>h DEF UpdateShiftStatusWrite, Resumes, RegimeHandler
  <2>2. \/ shift' = shift
        \/ s \in InTable /\ shift' = [shift EXCEPT ![s] = row]
    BY <1>3 DEF UpdateShiftStatusWrite
  <2>3. shiftOf' = shiftOf
    BY <1>3 DEF UpdateShiftStatusWrite
  <2>4. /\ row \in ShiftRow /\ row.row = shift[s].row /\ row.name = shift[s].name
        /\ row.hours = shift[s].hours
    BY <1>t, <2>1 DEF ShiftRow
  <2>. HIDE DEF row
  <2>5. s \in InTable /\ shift' = [shift EXCEPT ![s] = row] => Held
    <3>1. s \in InTable => row.row = "present"
      BY <2>4 DEF InTable
    <3>2. s \in InTable => (~workload.overlap =>
                              /\ validateShiftTimes(row.hours)
                              /\ \A t \in InTable \ {s} : shift[t].name.word # row.name.word)
      BY <2>4 DEF RegimeInv, ShiftsHold, ShiftTimesOrdered, ShiftNamesDistinct
    <3>. QED BY <1>t, <2>1, <2>3, <2>4, <3>1, <3>2, ShiftPut
  <2>6. Held
    BY <1>s, <2>2, <2>3, <2>5
  <2>. QED BY <1>3, <2>6, BannersLeft, RulesLeft DEF UpdateShiftStatusWrite, RegimeWrote, RegimeInv, RegimeTypeOK, ShiftRow
<1>4. CASE DeleteShiftWrite(r)
  <2>. DEFINE s == req[r].shift
  <2>1. s \in 1..Shifts
    BY <1>4, <1>h DEF DeleteShiftWrite, Resumes, RegimeHandler
  <2>2. shift' = [shift EXCEPT ![s].row = "gone"]
    BY <1>4 DEF DeleteShiftWrite
  <2>3. shiftOf' = [e \in Employee |-> IF shiftOf[e] = s THEN 0 ELSE shiftOf[e]]
    BY <1>4 DEF DeleteShiftWrite
  <2>4. shift' \in [1..Shifts -> ShiftRow] /\ shiftOf' \in [Employee -> 0..Shifts]
    <3>1. [shift[s] EXCEPT !.row = "gone"] \in ShiftRow
      BY <1>t, <2>1 DEF ShiftRow
    <3>2. shift' = [shift EXCEPT ![s] = [shift[s] EXCEPT !.row = "gone"]]
      BY <2>2
    <3>3. shift' \in [1..Shifts -> ShiftRow]
      BY <1>t, <2>1, <3>1, <3>2
    <3>4. \A e \in Employee : (IF shiftOf[e] = s THEN 0 ELSE shiftOf[e]) \in 0..Shifts
      BY <1>t, RulesAssumption
    <3>. QED BY <2>3, <3>3, <3>4
  <2>5. InTable' = InTable \ {s} /\ \A t \in InTable' : shift'[t] = shift[t]
    BY <1>t, <2>1, <2>2 DEF InTable
  <2>6. ShiftsHold'
    BY <1>t, <2>3, <2>5 DEF RegimeInv, ShiftsHold, ShiftTimesOrdered, ShiftNamesDistinct, ShiftsGiven
  <2>7. UseStays
    BY <1>t, <1>4, <1>h, <2>3, <2>5 DEF RegimeInv, ShiftsHold, ShiftsGiven, RegimeChecked,
         DeleteShiftWrite, Resumes, UseStays
  <2>. QED BY <1>4, <2>4, <2>6, <2>7, BannersLeft, RulesLeft DEF DeleteShiftWrite, RegimeWrote, RegimeInv, RegimeTypeOK, ShiftRow
<1>5. CASE AssignShiftWrite(r)
  <2>. DEFINE s == req[r].shift
              e == req[r].employee
  <2>1. s \in 1..Shifts /\ e \in Employee
    BY <1>5, <1>h DEF AssignShiftWrite, Resumes, RegimeHandler
  <2>2. shift' = shift
    BY <1>5 DEF AssignShiftWrite
  <2>3. shiftOf' = shiftOf \/ (s \in InTable /\ shiftOf' = [shiftOf EXCEPT ![e] = s])
    BY <1>5 DEF AssignShiftWrite
  <2>4. ASSUME s \in InTable, shiftOf' = [shiftOf EXCEPT ![e] = s] PROVE Held
    <3>1. shiftOf' \in [Employee -> 0..Shifts]
      BY <1>t, <2>1, <2>4
    <3>2. ShiftsGiven'
      BY <1>t, <2>1, <2>2, <2>4 DEF RegimeInv, ShiftsHold, ShiftsGiven, InTable
    <3>3. ShiftTimesOrdered' /\ ShiftNamesDistinct'
      BY <2>2 DEF RegimeInv, ShiftsHold, ShiftTimesOrdered, ShiftNamesDistinct, InTable
    <3>4. UseStays
      BY <1>t, <2>1, <2>4, <3>2 DEF UseStays, ShiftsGiven
    <3>. QED BY <1>t, <2>2, <3>1, <3>2, <3>3, <3>4 DEF ShiftsHold
  <2>5. Held
    BY <1>s, <2>2, <2>4, <2>3
  <2>. QED BY <1>5, <2>5, BannersLeft, RulesLeft DEF AssignShiftWrite, RegimeWrote, RegimeInv, RegimeTypeOK, ShiftRow
<1>. QED BY <1>1, <1>2, <1>3, <1>4, <1>5

LEMMA SettingsWrite ==
  ASSUME RegimeInv, RequestsOK, workload' = workload, NEW r \in Request,
         UpdateAttendanceRulesWrite(r) \/ UpdateNotificationSettingsWrite(r)
  PROVE  RegimeWrote(r)
<1>h. RegimeHandler(req[r]) /\ ShiftsHold /\ RegimeTypeOK /\ RulesOrdered /\ PlacesDistinct
  BY DEF RegimeInv
<1>1. CASE UpdateAttendanceRulesWrite(r)
  <2>1. req[r].merged \in AttendanceRules /\ Ordered(req[r].merged)
    BY <1>1, <1>h DEF UpdateAttendanceRulesWrite, Resumes, RegimeHandler
  <2>2. rules' = req[r].merged /\ Reply(r) /\ UNCHANGED <<shift, shiftOf, prefs, banner>>
    BY <1>1 DEF UpdateAttendanceRulesWrite
  <2>3. RulesOrdered' /\ RegimeTypeOK'
    BY <1>h, <2>1, <2>2 DEF RulesOrdered, RegimeTypeOK
  <2>. QED BY <1>h, <2>2, <2>3, BannersLeft, ShiftsLeft DEF RegimeWrote
<1>2. CASE UpdateNotificationSettingsWrite(r)
  <2>1. req[r].merged \in Prefs
    BY <1>2, <1>h DEF UpdateNotificationSettingsWrite, Resumes, RegimeHandler
  <2>2. prefs' = req[r].merged /\ Reply(r) /\ UNCHANGED <<shift, shiftOf, rules, banner>>
    BY <1>2 DEF UpdateNotificationSettingsWrite
  <2>3. RegimeTypeOK'
    BY <1>h, <2>1, <2>2 DEF RegimeTypeOK
  <2>. QED BY <1>h, <2>2, <2>3, BannersLeft, ShiftsLeft, RulesLeft DEF RegimeWrote
<1>. QED BY <1>1, <1>2

LEMMA BannersWrite ==
  ASSUME RegimeInv, RequestsOK, workload' = workload, NEW r \in Request,
         CreateBannerWrite(r) \/ UpdateBannerWrite(r) \/ RemoveBannerWrite(r)
  PROVE  RegimeWrote(r)
<1>. DEFINE BannerRow == [row : {"absent", "present", "gone"}, place : Place, active : BOOLEAN]
            Left == Reply(r) /\ UNCHANGED <<shift, shiftOf, rules, prefs>>
<1>h. /\ RegimeHandler(req[r]) /\ ShiftsHold /\ RegimeTypeOK /\ RulesOrdered /\ PlacesDistinct
      /\ banner \in [1..Banners -> BannerRow]
  BY DEF RegimeInv, RegimeTypeOK
<1>1. ASSUME Left, banner' = banner PROVE RegimeWrote(r)
  <2>1. RegimeTypeOK'
    BY <1>h, <1>1 DEF RegimeTypeOK
  <2>. QED BY <1>h, <1>1, <2>1, BannersLeft, ShiftsLeft, RulesLeft DEF RegimeWrote
<1>2. ASSUME Left, NEW b \in 1..Banners, NEW row \in BannerRow, row.row # "absent",
             PlaceFree(row.place, {b}), banner' = [banner EXCEPT ![b] = row]
      PROVE  RegimeWrote(r)
  <2>1. banner' \in [1..Banners -> BannerRow]
    BY <1>h, <1>2
  <2>2. RegimeTypeOK'
    BY <1>h, <1>2, <2>1 DEF RegimeTypeOK
  <2>3. /\ banner'[b] = row
        /\ \A c \in 1..Banners : c # b => banner'[c] = banner[c]
    BY <1>h, <1>2
  <2>4. PlacesDistinct' /\ \A c \in 1..Banners : banner[c].row # "absent" => banner'[c].row # "absent"
    BY <1>h, <1>2, <2>3 DEF PlacesDistinct, PlaceFree
  <2>. QED BY <1>h, <1>2, <2>2, <2>4, ShiftsLeft, RulesLeft DEF RegimeWrote
<1>3. CASE CreateBannerWrite(r)
  <2>. DEFINE row == [row |-> "present", place |-> req[r].place, active |-> req[r].active]
  <2>1. req[r].place \in Place /\ req[r].active \in BOOLEAN
    BY <1>3, <1>h DEF CreateBannerWrite, Resumes, RegimeHandler
  <2>2. row \in BannerRow /\ row.row # "absent" /\ row.place = req[r].place
    BY <2>1
  <2>3. PICK b \in 1..Banners : \/ banner' = banner
                                \/ PlaceFree(req[r].place, {}) /\ banner' = [banner EXCEPT ![b] = row]
    BY <1>3 DEF CreateBannerWrite, NextRow
  <2>. HIDE DEF row
  <2>4. PlaceFree(req[r].place, {}) => PlaceFree(row.place, {b})
    BY <2>2 DEF PlaceFree
  <2>5. Left
    BY <1>3 DEF CreateBannerWrite
  <2>. QED BY <1>1, <1>2, <2>2, <2>3, <2>4, <2>5
<1>4. CASE UpdateBannerWrite(r)
  <2>. DEFINE b == req[r].banner
              place == Given(req[r].places, banner[b].place)
              active == Given(req[r].active, banner[b].active)
              row == [banner[b] EXCEPT !.place = place, !.active = active]
  <2>1. /\ b \in 1..Banners /\ banner[b].row # "absent"
        /\ req[r].places \in Optional(Place) /\ req[r].active \in Optional(BOOLEAN)
    BY <1>4, <1>h DEF UpdateBannerWrite, Resumes, RegimeHandler
  <2>2. banner[b] \in BannerRow /\ banner[b].place \in Place /\ banner[b].active \in BOOLEAN
    BY <1>h, <2>1
  <2>3. place \in Place /\ active \in BOOLEAN
    BY <2>1, <2>2, GivenType, GivenFlag
  <2>4. Left
    BY <1>4 DEF UpdateBannerWrite
  <2>5. \/ banner' = banner
        \/ PlaceFree(place, {b}) /\ banner' = [banner EXCEPT ![b].place = place,
                                                             ![b].active = Given(req[r].active, @)]
    BY <1>4 DEF UpdateBannerWrite
  <2>6. \/ banner' = banner
        \/ PlaceFree(place, {b}) /\ banner' = [banner EXCEPT ![b] = row]
    BY <1>h, <2>1, <2>2, <2>5
  <2>. HIDE DEF place, active
  <2>7. row \in BannerRow /\ row.row = banner[b].row /\ row.place = place
    BY <2>2, <2>3
  <2>. HIDE DEF row
  <2>. QED BY <1>1, <1>2, <2>1, <2>4, <2>6, <2>7
<1>5. CASE RemoveBannerWrite(r)
  <2>. DEFINE b == req[r].banner
              row == [banner[b] EXCEPT !.row = "gone"]
  <2>1. b \in 1..Banners /\ banner[b].row # "absent"
    BY <1>5, <1>h DEF RemoveBannerWrite, Resumes, RegimeHandler
  <2>2. row \in BannerRow /\ row.row # "absent" /\ row.place = banner[b].place
    BY <1>h, <2>1
  <2>3. Left /\ banner' = [banner EXCEPT ![b] = row]
    BY <1>5 DEF RemoveBannerWrite
  <2>4. PlaceFree(banner[b].place, {b})
    BY <1>h, <2>1 DEF PlacesDistinct, PlaceFree
  <2>. HIDE DEF row
  <2>. QED BY <1>2, <2>1, <2>2, <2>3, <2>4
<1>. QED BY <1>3, <1>4, <1>5

LEMMA RegimeWriters ==
  ASSUME NEW r, RegimeWrites(r)
  PROVE  req[r].op \in RegimeOps
<1>1. CASE EnsureDefaultShiftsWrite(r) \/ CreateShiftWrite(r) \/ UpdateShiftWrite(r)
           \/ UpdateShiftStatusWrite(r) \/ DeleteShiftWrite(r) \/ AssignShiftWrite(r)
  BY <1>1 DEF EnsureDefaultShiftsWrite, CreateShiftWrite, UpdateShiftWrite, UpdateShiftStatusWrite,
       DeleteShiftWrite, AssignShiftWrite, Resumes, RegimeOps
<1>2. CASE UpdateAttendanceRulesWrite(r) \/ UpdateNotificationSettingsWrite(r)
           \/ CreateBannerWrite(r) \/ UpdateBannerWrite(r) \/ RemoveBannerWrite(r)
  BY <1>2 DEF UpdateAttendanceRulesWrite, UpdateNotificationSettingsWrite, CreateBannerWrite,
       UpdateBannerWrite, RemoveBannerWrite, Resumes, RegimeOps
<1>. QED BY <1>1, <1>2 DEF RegimeWrites

\* After a write nobody else is under way, unless requests overlap.
LEMMA RegimeEnds ==
  ASSUME RegimeInv, RequestsOK, workload' = workload, NEW r \in Request,
         req[r].op \in RegimeOps, RegimeWrote(r)
  PROVE  RegimeInv' /\ Moves(r, RegimeOps)
<1>1. /\ req' = [x \in Request |-> req'[x]] /\ req'[r] = Idle
      /\ \A x \in Request : x # r => req'[x] = req[x]
  BY Replied DEF RegimeWrote
<1>2. Moves(r, RegimeOps)
  BY <1>1 DEF Moves
<1>3. ASSUME NEW x \in Request PROVE RegimeHandler(req[x])'
  <2>1. CASE req'[x] = Idle
    BY <2>1 DEF Idle, RegimeHandler
  <2>2. CASE req'[x] = req[x]
    <3>1. RegimeHandler(req[x])
      BY DEF RegimeInv
    <3>. QED BY <2>2, <3>1 DEF RegimeHandler, RegimeWrote
  <2>. QED BY <1>1, <2>1, <2>2
<1>4. ~workload.overlap => \A x \in Request : req'[x] = Idle
  BY <1>1 DEF RequestsOK, RegimeOps, Idle
<1>5. ~workload'.overlap => \A x \in Request : RegimeChecked(req[x])'
  BY <1>4 DEF RegimeChecked, Idle
<1>. QED BY <1>2, <1>3, <1>5 DEF RegimeInv, RegimeWrote

\* The tables of the regime are left alone, and of handlers at most one is new.
LEMMA RegimeLeft ==
  ASSUME RegimeInv, workload' = workload, UNCHANGED regime,
         \A x \in Request : RegimeHandler(req'[x]),
         ~workload.overlap => \A x \in Request : RegimeChecked(req'[x])
  PROVE  RegimeInv' /\ UseStays
<1>1. shift' = shift /\ shiftOf' = shiftOf /\ rules' = rules /\ prefs' = prefs /\ banner' = banner
  BY DEF regime
<1>2. RegimeTypeOK'
  BY <1>1 DEF RegimeInv, RegimeTypeOK
<1>3. ASSUME NEW x \in Request PROVE RegimeHandler(req[x])'
  BY <1>1 DEF RegimeHandler
<1>4. ASSUME NEW x \in Request, ~workload.overlap PROVE RegimeChecked(req[x])'
  <2>1. RegimeChecked(req'[x])
    BY <1>4
  <2>. QED BY <1>1, <2>1 DEF RegimeChecked, InTable, Named, ChecksMerged
<1>. QED BY <1>1, <1>2, <1>3, <1>4, RulesLeft, BannersLeft, ShiftsLeft DEF RegimeInv

LEMMA RegimeTaken ==
  ASSUME RegimeInv, RequestsOK, workload' = workload, NEW r \in Request, MayStart(r),
         NEW h, Awaits(r, h), RegimeTakes(h), UNCHANGED regime
  PROVE  RegimeInv' /\ Moves(r, RegimeOps) /\ UseStays
<1>1. /\ req' = [x \in Request |-> req'[x]] /\ req'[r] = h
      /\ \A x \in Request : x # r => req'[x] = req[x]
  BY Awaited
<1>2. Moves(r, RegimeOps)
  BY <1>1 DEF Moves, RegimeTakes
<1>3. ASSUME NEW x \in Request
      PROVE  RegimeHandler(req'[x]) /\ (~workload.overlap => RegimeChecked(req'[x]))
  BY <1>1 DEF RegimeInv, RegimeTakes
<1>. QED BY <1>2, <1>3, RegimeLeft

\* A step of another part of the platform.
LEMMA RegimeFrame ==
  ASSUME RegimeInv, workload' = workload, NEW ops, Stirs(ops),
         ops \intersect RegimeOps = {}, UNCHANGED regime
  PROVE  RegimeInv' /\ UseStays
<1>1. ASSUME NEW x \in Request
      PROVE  RegimeHandler(req'[x]) /\ (~workload.overlap => RegimeChecked(req'[x]))
  <2>1. CASE req'[x] = req[x]
    BY <2>1 DEF RegimeInv
  <2>2. CASE req'[x].op \notin RegimeOps
    BY <2>2 DEF RegimeHandler, RegimeChecked, RegimeOps
  <2>. QED BY <2>1, <2>2 DEF Stirs, Idle, RegimeOps
<1>. QED BY <1>1, RegimeLeft

LEMMA RegimeKeeps ==
  ASSUME RegimeInv, RequestsOK, workload' = workload, RegimeNext
  PROVE  RegimeInv' /\ UseStays /\ \E r : Moves(r, RegimeOps)
<1>1. PICK r \in Request : RegimeStarts(r) \/ RegimeWrites(r)
  BY DEF RegimeNext
<1>2. CASE RegimeStarts(r)
  BY <1>2, RegimeBegins, RegimeTaken
<1>3. CASE RegimeWrites(r)
  <2>1. req[r].op \in RegimeOps
    BY <1>3, RegimeWriters
  <2>2. RegimeWrote(r)
    BY <1>3, DefaultsWrite, ShiftsWrite, SettingsWrite, BannersWrite DEF RegimeWrites
  <2>3. RegimeInv' /\ Moves(r, RegimeOps)
    BY <2>1, <2>2, RegimeEnds
  <2>. QED BY <2>2, <2>3 DEF RegimeWrote
<1>. QED BY <1>1, <1>2, <1>3

LEMMA RegimeStartsOut ==
  ASSUME RequestInit, RegimeInit
  PROVE  RegimeInv
<1>1. PICK start \in Time, end \in Time : start < end
  BY RulesAssumption
<1>2. NoShift \in ShiftRow
  <2>1. (CHOOSE t \in Time : TRUE) \in Time /\ (CHOOSE w \in Title : TRUE) \in Title
    BY <1>1, RulesAssumption
  <2>2. [start |-> CHOOSE t \in Time : TRUE, end |-> CHOOSE t \in Time : TRUE] \in Hours
    BY <2>1 DEF Hours
  <2>3. [word |-> CHOOSE w \in Title : TRUE, spelling |-> "capital"] \in ShiftName
    BY <2>1 DEF ShiftName
  <2>. QED BY <2>2, <2>3 DEF NoShift, ShiftRow
<1>3. (CHOOSE p \in Place : TRUE) \in Place
  BY RulesAssumption
<1>4. NoShift.row = "absent"
  BY DEF NoShift
<1>5. RegimeTypeOK
  <2>1. shift \in [1..Shifts -> ShiftRow]
    BY <1>2 DEF RegimeInit
  <2>2. shiftOf \in [Employee -> 0..Shifts]
    BY RulesAssumption DEF RegimeInit
  <2>3. rules \in AttendanceRules /\ prefs \in Prefs
    BY RulesAssumption DEF RegimeInit, Prefs
  <2>. DEFINE b0 == [row |-> "absent", place |-> CHOOSE p \in Place : TRUE, active |-> TRUE]
  <2>4. b0 \in [row : {"absent", "present", "gone"}, place : Place, active : BOOLEAN]
    BY <1>3
  <2>5. banner = [b \in 1..Banners |-> b0]
    BY DEF RegimeInit
  <2>. HIDE DEF b0
  <2>. QED BY <2>1, <2>2, <2>3, <2>4, <2>5 DEF RegimeTypeOK, ShiftRow
<1>6. InTable = {}
  BY <1>4 DEF RegimeInit, InTable
<1>7. ShiftsHold
  BY <1>6 DEF RegimeInit, ShiftsHold, ShiftTimesOrdered, ShiftNamesDistinct, ShiftsGiven
<1>8. RulesOrdered
  BY RulesAssumption DEF RegimeInit, RulesOrdered, Ordered
<1>9. PlacesDistinct
  BY DEF RegimeInit, PlacesDistinct
<1>10. \A x \in Request : RegimeHandler(req[x]) /\ RegimeChecked(req[x])
  BY DEF RequestInit, Idle, RegimeHandler, RegimeChecked
<1>. QED BY <1>5, <1>7, <1>8, <1>9, <1>10 DEF RegimeInv

LEMMA RegimeShows ==
  ASSUME RegimeInv
  PROVE  RegimeTypeOK /\ ShiftNamesDistinct /\ BannersDistinct /\ RulesOrdered /\ ShiftTimesOrdered
<1>1. BannersDistinct
  BY DEF RegimeInv, PlacesDistinct, BannersDistinct, findActive, Live
<1>. QED BY <1>1 DEF RegimeInv, ShiftsHold

-----------------------------------------------------------------------------
(* Belongings *)

ThingsOps == {"createAddress", "updateAddress", "removeAddress", "notify", "addPhoto"}

\* What a handler has been given and has found out: notes stay, with the result
\* they have got, and the dead stay dead.
ThingsHandler(h, notes, gone, asks) ==
  /\ h.op = "createAddress" =>
       h \in [op : {"createAddress"}, at : {"count", "insert"}, asks : asks, first : BOOLEAN]
  /\ h.op = "updateAddress" =>
       h \in [op : {"updateAddress"}, at : {"clear", "write"}, address : 1..Addresses, asks : asks]
  /\ h.op = "removeAddress" =>
       h \in [op : {"removeAddress"}, at : {"delete", "next", "promote"}, address : 1..Addresses,
              was : BOOLEAN]
  /\ h.op = "notify" =>
       /\ h \in [op : {"notify"}, at : {"tokens", "send", "result", "deactivate"}, note : There(notes),
                 tokens : SUBSET Device, status : PushDeliveryStatus, invalid : SUBSET gone]
       /\ h.at = "result" => h.status # "PENDING"
       /\ h.at = "deactivate" => notes[h.note].status # "PENDING"
  /\ h.op = "addPhoto" =>
       h \in [op : {"addPhoto"}, at : {"delete", "create"}, kind : Kind, stale : SUBSET (1..Photos)]

DefaultsOf(addresses) == {a \in There(addresses) : addresses[a].default}

\* What it knows of the tables, if it is alone.
ThingsChecked(h, addresses, photos) ==
  /\ h.op = "createAddress" =>
       /\ h.asks = {TRUE} => DefaultsOf(addresses) = {}
       /\ h.at = "insert" => (h.first <=> There(addresses) = {})
  /\ h.op = "updateAddress" =>
       /\ h.address \in There(addresses)
       /\ h.at = "write" /\ h.asks = {TRUE} => DefaultsOf(addresses) = {}
       /\ h.at = "clear" => h.asks = {TRUE}
  /\ h.op = "removeAddress" =>
       /\ h.at = "delete" => h.address \in There(addresses) /\ h.was = addresses[h.address].default
       /\ h.at \in {"next", "promote"} => DefaultsOf(addresses) = {}
       /\ h.at = "promote" => h.address \in There(addresses)
  /\ h.op = "addPhoto" =>
       (h.at = "create" => h.stale = {p \in There(photos) : photos[p].kind = h.kind})

\* It has cleared the default and is about to set another.
Unsettled(h) ==
  \/ h.op = "createAddress" /\ h.asks = {TRUE}
  \/ h.op = "updateAddress" /\ h.at = "write" /\ h.asks = {TRUE}
  \/ h.op = "removeAddress" /\ h.at \in {"next", "promote"}

Settled(addresses) == There(addresses) # {} => DefaultsOf(addresses) # {}

AsksKept == ~workload.overlap /\ ~workload.failures /\ {FALSE} \notin workload.asks

AtMostOne(S) == \A a, b \in S : a = b

KindsDistinct(photos) ==
  \A p, q \in There(photos) : photos[p].kind = photos[q].kind => p = q

ThingsInv ==
  /\ ThingsTypeOK
  /\ LiveDevicesStay /\ NotesAreAnswered
  /\ ~workload.overlap => AtMostOne(DefaultsOf(address)) /\ KindsDistinct(photo)
  /\ AsksKept => Settled(address) \/ \E x \in Request : Unsettled(req[x])
  /\ \A x \in Request : ThingsHandler(req[x], note, dead, workload.asks)
  /\ ~workload.overlap => \A x \in Request : ThingsChecked(req[x], address, photo)

\* A note stays, and so does the result it has got.
NotesKept ==
  /\ There(note) \subseteq There(note')
  /\ \A n \in There(note) : note[n].status # "PENDING" => note'[n].status # "PENDING"

\* A note without a result is being worked on.
NotesWorked(r, h) ==
  /\ \A n \in There(note') : note'[n].status = "PENDING" =>
       \/ n \in There(note) /\ note[n].status = "PENDING"
       \/ h.op = "notify" /\ h.note = n
  /\ req[r].op = "notify" =>
       \/ h.op = "notify" /\ h.note = req[r].note
       \/ note'[req[r].note].status # "PENDING"

\* What a step of one handler has to leave behind.
ThingsLeft(r, h) ==
  /\ ThingsTypeOK' /\ LiveDevicesStay'
  /\ NotesKept /\ dead \subseteq dead'
  /\ NotesWorked(r, h)
  /\ ~workload.overlap => AtMostOne(DefaultsOf(address')) /\ KindsDistinct(photo')
  /\ AsksKept => Settled(address') \/ Unsettled(h)
  /\ h # Idle =>
       /\ h.op \in ThingsOps /\ ThingsHandler(h, note', dead', workload.asks)
       /\ ~workload.overlap => ThingsChecked(h, address', photo')

LEMMA HandlerStays ==
  ASSUME NEW h, ThingsHandler(h, note, dead, workload.asks), NotesKept, dead \subseteq dead'
  PROVE  ThingsHandler(h, note', dead', workload.asks)
BY DEF ThingsHandler, NotesKept

LEMMA IdleThings ==
  ASSUME NEW h, h.op \notin ThingsOps, NEW notes, NEW gone, NEW asks, NEW addresses, NEW photos
  PROVE  ThingsHandler(h, notes, gone, asks) /\ ThingsChecked(h, addresses, photos) /\ ~Unsettled(h)
BY DEF ThingsHandler, ThingsChecked, Unsettled, ThingsOps

LEMMA ThingsStep ==
  ASSUME ThingsInv, RequestsOK, workload' = workload, NEW r \in Request,
         MayStart(r) \/ req[r].op \in ThingsOps,
         NEW h, Awaits(r, h), ThingsLeft(r, h)
  PROVE  ThingsInv' /\ Moves(r, ThingsOps)
<1>1. /\ req' = [x \in Request |-> req'[x]] /\ req'[r] = h
      /\ \A x \in Request : x # r => req'[x] = req[x]
  BY Awaited
<1>2. Moves(r, ThingsOps)
  BY <1>1 DEF Moves, ThingsLeft
<1>i. Idle.op \notin ThingsOps
  BY DEF Idle, ThingsOps
<1>3. ~workload.overlap => \A x \in Request : x # r => req'[x] = Idle
  BY <1>1, <1>i DEF RequestsOK, MayStart, Quiet
<1>4. ASSUME NEW x \in Request PROVE ThingsHandler(req'[x], note', dead', workload.asks)
  <2>1. CASE x # r
    BY <1>1, <2>1, HandlerStays DEF ThingsInv, ThingsLeft
  <2>2. CASE x = r
    BY <1>1, <1>i, <2>2, IdleThings DEF ThingsLeft
  <2>. QED BY <2>1, <2>2
<1>5. ASSUME NEW x \in Request, ~workload.overlap PROVE ThingsChecked(req'[x], address', photo')
  <2>1. CASE req'[x] = Idle
    BY <1>i, <2>1, IdleThings
  <2>2. CASE x = r /\ h # Idle
    BY <1>1, <1>5, <2>2 DEF ThingsLeft
  <2>3. x # r => req'[x] = Idle
    BY <1>3, <1>5
  <2>4. x = r => req'[x] = h
    BY <1>1
  <2>. QED BY <2>1, <2>2, <2>3, <2>4
<1>6. NotesAreAnswered'
  <2>. SUFFICES ASSUME ~workload.failures, NEW n \in There(note'), note'[n].status = "PENDING"
                PROVE  \E x \in Request : req'[x].op = "notify" /\ req'[x].note = n
    BY DEF NotesAreAnswered
  <2>1. CASE h.op = "notify" /\ h.note = n
    BY <1>1, <2>1
  <2>2. CASE n \in There(note) /\ note[n].status = "PENDING"
    <3>1. PICK x \in Request : req[x].op = "notify" /\ req[x].note = n
      BY <2>2 DEF ThingsInv, NotesAreAnswered
    <3>2. CASE x = r
      BY <1>1, <3>1, <3>2 DEF ThingsLeft, NotesWorked
    <3>. QED BY <1>1, <3>1, <3>2
  <2>. QED BY <2>1, <2>2 DEF ThingsLeft, NotesWorked
<1>7. AsksKept' => Settled(address') \/ \E x \in Request : Unsettled(req'[x])
  BY <1>1 DEF ThingsLeft, AsksKept
<1>. QED BY <1>2, <1>4, <1>5, <1>6, <1>7 DEF ThingsInv, ThingsLeft

AddressRow == [row : {"absent", "present", "gone"}, default : BOOLEAN]

LEMMA AddressLeft ==
  ASSUME ThingsInv, NEW r \in Request, NEW h, UNCHANGED <<device, dead, note, photo>>,
         req[r].op # "notify", h.op # "notify",
         address' \in [1..Addresses -> AddressRow],
         ~workload.overlap => AtMostOne(DefaultsOf(address')),
         AsksKept => Settled(address') \/ Unsettled(h),
         h # Idle => /\ h.op \in ThingsOps /\ ThingsHandler(h, note, dead, workload.asks)
                     /\ ~workload.overlap => ThingsChecked(h, address', photo)
  PROVE  ThingsLeft(r, h)
<1>1. ThingsTypeOK' /\ LiveDevicesStay'
  BY DEF ThingsInv, ThingsTypeOK, LiveDevicesStay, AddressRow
<1>2. NotesKept /\ dead \subseteq dead' /\ NotesWorked(r, h)
  BY DEF NotesKept, NotesWorked
<1>3. note' = note /\ dead' = dead /\ photo' = photo
  OBVIOUS
<1>4. ~workload.overlap => KindsDistinct(photo')
  BY <1>3 DEF ThingsInv
<1>. QED BY <1>1, <1>2, <1>3, <1>4 DEF ThingsLeft

LEMMA ClearedOK ==
  ASSUME address \in [1..Addresses -> AddressRow]
  PROVE  /\ Cleared \in [1..Addresses -> AddressRow]
         /\ There(Cleared) = There(address) /\ DefaultsOf(Cleared) = {}
<1>1. \A a \in 1..Addresses : Cleared[a] = [address[a] EXCEPT !.default = FALSE]
  BY DEF Cleared
<1>2. DOMAIN Cleared = 1..Addresses /\ DOMAIN address = 1..Addresses
  BY DEF Cleared
<1>3. \A a \in 1..Addresses : /\ Cleared[a] \in AddressRow /\ Cleared[a].row = address[a].row
                              /\ Cleared[a].default = FALSE
  BY <1>1 DEF AddressRow
<1>4. Cleared \in [1..Addresses -> AddressRow]
  BY <1>3 DEF Cleared
<1>. QED BY <1>2, <1>3, <1>4 DEF There, DefaultsOf

\* One address is written.
LEMMA AddressPut ==
  ASSUME address \in [1..Addresses -> AddressRow], NEW a \in 1..Addresses, NEW row \in AddressRow,
         address' = [address EXCEPT ![a] = row]
  PROVE  /\ address' \in [1..Addresses -> AddressRow]
         /\ There(address') = IF row.row = "present" THEN There(address) \union {a}
                              ELSE There(address) \ {a}
         /\ DefaultsOf(address') = IF row.row = "present" /\ row.default
                                   THEN DefaultsOf(address) \union {a} ELSE DefaultsOf(address) \ {a}
<1>1. address'[a] = row /\ \A b \in 1..Addresses : b # a => address'[b] = address[b]
  OBVIOUS
<1>2. address' \in [1..Addresses -> AddressRow] /\ DOMAIN address' = 1..Addresses /\ DOMAIN address = 1..Addresses
  OBVIOUS
<1>3. There(address') = IF row.row = "present" THEN There(address) \union {a} ELSE There(address) \ {a}
  BY <1>1, <1>2 DEF There
<1>4. DefaultsOf(address') = IF row.row = "present" /\ row.default
                               THEN DefaultsOf(address) \union {a} ELSE DefaultsOf(address) \ {a}
  BY <1>1, <1>2 DEF There, DefaultsOf
<1>. QED BY <1>2, <1>3, <1>4

\* What a request asks for is TRUE, or is not FALSE when no request asks for that.
LEMMA AsksOK ==
  ASSUME RequestsOK, NEW asks \in workload.asks
  PROVE  /\ asks \in Optional(BOOLEAN) /\ (asks = {} \/ asks = {TRUE} \/ asks = {FALSE})
         /\ AsksKept => asks # {FALSE}
         /\ \A c \in BOOLEAN : /\ Given(asks, c) \in BOOLEAN
                               /\ asks = {} => Given(asks, c) = c
                               /\ asks = {TRUE} => Given(asks, c) = TRUE
                               /\ asks = {FALSE} => Given(asks, c) = FALSE
<1>1. asks \in Optional(BOOLEAN)
  BY BelongingsAssumption DEF RequestsOK
<1>2. asks = {} \/ asks = {TRUE} \/ asks = {FALSE}
  BY <1>1 DEF Optional
<1>3. ASSUME NEW c \in BOOLEAN
      PROVE  /\ Given(asks, c) \in BOOLEAN /\ (asks = {} => Given(asks, c) = c)
             /\ asks # {} => Given(asks, c) \in asks
  BY <1>1, GivenFlag, Zenon
<1>4. AsksKept => asks # {FALSE}
  BY DEF AsksKept
<1>5. ASSUME NEW c \in BOOLEAN
      PROVE  /\ asks = {TRUE} => Given(asks, c) = TRUE
             /\ asks = {FALSE} => Given(asks, c) = FALSE
  <2>1. asks = {TRUE} => Given(asks, c) \in {TRUE}
    BY <1>3
  <2>2. asks = {FALSE} => Given(asks, c) \in {FALSE}
    BY <1>3
  <2>. QED BY <2>1, <2>2
<1>. QED BY <1>1, <1>2, <1>3, <1>4, <1>5, Zenon

\* If anything is unsettled it is the only handler's doing.
LEMMA SettledAlone ==
  ASSUME ThingsInv, RequestsOK, NEW r \in Request, MayStart(r) \/ req[r].op \in ThingsOps, AsksKept
  PROVE  Settled(address) \/ Unsettled(req[r])
<1>i. Idle.op \notin ThingsOps
  BY DEF Idle, ThingsOps
<1>1. \A x \in Request : x # r => req[x] = Idle
  BY <1>i DEF RequestsOK, MayStart, Quiet, AsksKept
<1>2. ~Unsettled(Idle)
  BY <1>i, IdleThings
<1>. QED BY <1>1, <1>2 DEF ThingsInv

LEMMA AddressBegins ==
  ASSUME ThingsInv, RequestsOK, NEW r \in Request,
         \/ \E asks \in workload.asks :
              CreateAddress(r, asks) \/ \E a \in 1..Addresses : UpdateAddress(r, a, asks)
         \/ \E a \in 1..Addresses : RemoveAddress(r, a)
  PROVE  MayStart(r) /\ \E h : Awaits(r, h) /\ ThingsLeft(r, h)
<1>1. MayStart(r)
  BY DEF CreateAddress, UpdateAddress, RemoveAddress, Arrives
<1>2. req[r].op # "notify"
  BY <1>1 DEF MayStart, Idle
<1>t. address \in [1..Addresses -> AddressRow]
  BY DEF ThingsInv, ThingsTypeOK, AddressRow
<1>s. AsksKept => Settled(address)
  BY <1>1, SettledAlone, IdleThings DEF MayStart, Idle, ThingsOps
<1>u. ~workload.overlap => AtMostOne(DefaultsOf(address))
  BY DEF ThingsInv
<1>3. ASSUME NEW asks \in workload.asks, CreateAddress(r, asks)
      PROVE  \E h : Awaits(r, h) /\ ThingsLeft(r, h)
  <2>. DEFINE h == [op |-> "createAddress", at |-> "count", asks |-> asks, first |-> FALSE]
  <2>1. /\ Awaits(r, h) /\ UNCHANGED <<device, dead, note, photo>>
        /\ address' = IF asks = {TRUE} THEN Cleared ELSE address
    BY <1>3 DEF CreateAddress
  <2>2. ThingsHandler(h, note, dead, workload.asks)
    BY DEF ThingsHandler
  <2>3. CASE asks = {TRUE}
    <3>1. /\ address' \in [1..Addresses -> AddressRow]
          /\ DefaultsOf(address') = {}
      BY <1>t, <2>1, <2>3, ClearedOK
    <3>2. ThingsChecked(h, address', photo)
      BY <3>1 DEF ThingsChecked
    <3>3. Unsettled(h) /\ h.op # "notify" /\ h.op \in ThingsOps
      BY <2>3 DEF Unsettled, ThingsOps
    <3>4. AtMostOne(DefaultsOf(address'))
      BY <3>1 DEF AtMostOne
    <3>. HIDE DEF h
    <3>5. ThingsLeft(r, h)
      BY <1>2, <2>1, <2>2, <3>1, <3>2, <3>3, <3>4, AddressLeft
    <3>. QED BY <2>1, <3>5
  <2>4. CASE asks # {TRUE}
    <3>1. address' = address
      BY <2>1, <2>4
    <3>2. ThingsChecked(h, address', photo)
      BY <2>4 DEF ThingsChecked
    <3>3. h.op # "notify" /\ h.op \in ThingsOps
      BY DEF ThingsOps
    <3>. HIDE DEF h
    <3>4. ThingsLeft(r, h)
      BY <1>2, <1>t, <1>s, <1>u, <2>1, <2>2, <3>1, <3>2, <3>3, AddressLeft
    <3>. QED BY <2>1, <3>4
  <2>. QED BY <2>3, <2>4
<1>4. ASSUME NEW asks \in workload.asks, NEW a \in 1..Addresses, UpdateAddress(r, a, asks)
      PROVE  \E h : Awaits(r, h) /\ ThingsLeft(r, h)
  <2>. DEFINE h == [op |-> "updateAddress", at |-> IF asks = {TRUE} THEN "clear" ELSE "write",
                    address |-> a, asks |-> asks]
  <2>1. Awaits(r, h) /\ UNCHANGED things /\ a \in There(address)
    BY <1>4 DEF UpdateAddress
  <2>2. ThingsHandler(h, note, dead, workload.asks)
    BY DEF ThingsHandler
  <2>3. ThingsChecked(h, address, photo)
    BY <2>1 DEF ThingsChecked
  <2>4. h.op # "notify" /\ h.op \in ThingsOps
    BY DEF ThingsOps
  <2>. HIDE DEF h
  <2>5. ThingsLeft(r, h)
    BY <1>2, <1>t, <1>s, <1>u, <2>1, <2>2, <2>3, <2>4, AddressLeft DEF things
  <2>. QED BY <2>1, <2>5
<1>5. ASSUME NEW a \in 1..Addresses, RemoveAddress(r, a)
      PROVE  \E h : Awaits(r, h) /\ ThingsLeft(r, h)
  <2>. DEFINE h == [op |-> "removeAddress", at |-> "delete", address |-> a, was |-> address[a].default]
  <2>1. Awaits(r, h) /\ UNCHANGED things /\ a \in There(address)
    BY <1>5 DEF RemoveAddress
  <2>2. address[a].default \in BOOLEAN
    BY <1>t DEF AddressRow
  <2>3. ThingsHandler(h, note, dead, workload.asks)
    BY <2>2 DEF ThingsHandler
  <2>4. ThingsChecked(h, address, photo)
    BY <2>1 DEF ThingsChecked
  <2>5. h.op # "notify" /\ h.op \in ThingsOps
    BY DEF ThingsOps
  <2>. HIDE DEF h
  <2>6. ThingsLeft(r, h)
    BY <1>2, <1>t, <1>s, <1>u, <2>1, <2>3, <2>4, <2>5, AddressLeft DEF things
  <2>. QED BY <2>1, <2>6
<1>. QED BY <1>1, <1>3, <1>4, <1>5

LEMMA AddressCreated ==
  ASSUME ThingsInv, RequestsOK, NEW r \in Request, CountAddresses(r) \/ CreateAddressWrite(r)
  PROVE  req[r].op \in ThingsOps /\ \E h : Awaits(r, h) /\ ThingsLeft(r, h)
<1>1. req[r].op = "createAddress" /\ req[r].op \in ThingsOps
  BY DEF CountAddresses, CreateAddressWrite, At, Resumes, ThingsOps
<1>t. address \in [1..Addresses -> AddressRow]
  BY DEF ThingsInv, ThingsTypeOK, AddressRow
<1>h. ThingsHandler(req[r], note, dead, workload.asks)
  BY DEF ThingsInv
<1>c. ~workload.overlap => ThingsChecked(req[r], address, photo)
  BY DEF ThingsInv
<1>s. AsksKept => Settled(address) \/ Unsettled(req[r])
  BY <1>1, SettledAlone
<1>u. ~workload.overlap => AtMostOne(DefaultsOf(address))
  BY DEF ThingsInv
<1>2. CASE CountAddresses(r)
  <2>. DEFINE h == [req[r] EXCEPT !.at = "insert", !.first = (There(address) = {})]
  <2>1. Awaits(r, h) /\ UNCHANGED things /\ req[r].at = "count"
    BY <1>2 DEF CountAddresses, At
  <2>2. /\ req[r] \in [op : {"createAddress"}, at : {"count", "insert"}, asks : workload.asks, first : BOOLEAN]
    BY <1>1, <1>h DEF ThingsHandler
  <2>3. /\ h \in [op : {"createAddress"}, at : {"count", "insert"}, asks : workload.asks, first : BOOLEAN]
        /\ h.op = "createAddress" /\ h.at = "insert" /\ h.asks = req[r].asks
        /\ h.first = (There(address) = {})
    BY <2>2
  <2>. HIDE DEF h
  <2>4. ThingsHandler(h, note, dead, workload.asks)
    BY <2>3 DEF ThingsHandler
  <2>5. ~workload.overlap => ThingsChecked(h, address, photo)
    BY <1>1, <1>c, <2>3 DEF ThingsChecked
  <2>6. Unsettled(req[r]) => Unsettled(h)
    BY <1>1, <2>3 DEF Unsettled
  <2>7. h.op # "notify" /\ req[r].op # "notify" /\ h.op \in ThingsOps
    BY <1>1, <2>3 DEF ThingsOps
  <2>8. ThingsLeft(r, h)
    BY <1>t, <1>s, <1>u, <2>1, <2>4, <2>5, <2>6, <2>7, AddressLeft DEF things
  <2>. QED BY <1>1, <2>1, <2>8
<1>3. CASE CreateAddressWrite(r)
  <2>. DEFINE given == Given(req[r].asks, req[r].first)
              row == [row |-> "present", default |-> given]
  <2>1. PICK a \in 1..Addresses : address' = [address EXCEPT ![a] = row]
    BY <1>3 DEF CreateAddressWrite, NextRow
  <2>2. Awaits(r, Idle) /\ UNCHANGED <<device, dead, note, photo>> /\ req[r].at = "insert"
    BY <1>3 DEF CreateAddressWrite, Reply, Awaits, At
  <2>3. req[r].asks \in workload.asks /\ req[r].first \in BOOLEAN
    BY <1>1, <1>h DEF ThingsHandler
  <2>4. /\ given \in BOOLEAN /\ (req[r].asks = {} => given = req[r].first)
        /\ req[r].asks = {TRUE} => given
        /\ req[r].asks = {FALSE} => ~given
        /\ req[r].asks = {} \/ req[r].asks = {TRUE} \/ req[r].asks = {FALSE}
        /\ AsksKept => req[r].asks # {FALSE}
    BY <2>3, AsksOK
  <2>5. row \in AddressRow /\ row.row = "present" /\ row.default = given
    BY <2>4 DEF AddressRow
  <2>. HIDE DEF row, given
  <2>6. /\ address' \in [1..Addresses -> AddressRow]
        /\ There(address') = There(address) \union {a}
        /\ DefaultsOf(address') = IF given THEN DefaultsOf(address) \union {a} ELSE DefaultsOf(address) \ {a}
    BY <1>t, <2>1, <2>5, AddressPut
  <2>7. DefaultsOf(address) \subseteq There(address)
    BY DEF DefaultsOf
  <2>8. ~workload.overlap /\ given => DefaultsOf(address) = {}
    BY <1>1, <1>c, <2>2, <2>4, <2>7 DEF ThingsChecked
  <2>9. ~workload.overlap => AtMostOne(DefaultsOf(address'))
    BY <1>u, <2>6, <2>8 DEF AtMostOne
  <2>10. AsksKept => Settled(address')
    <3>. SUFFICES ASSUME AsksKept, ~given PROVE DefaultsOf(address') # {}
      BY <2>6 DEF Settled
    <3>1. req[r].asks = {} /\ ~req[r].first
      BY <2>4
    <3>2. ~Unsettled(req[r]) /\ There(address) # {}
      BY <1>1, <1>c, <2>2, <2>3, <3>1 DEF Unsettled, AsksKept, ThingsChecked
    <3>3. PICK b \in DefaultsOf(address) : TRUE
      BY <1>s, <3>2 DEF Settled
    <3>4. \E x \in 1..Addresses : address' = [address EXCEPT ![x] = row] /\ address[x].row = "absent"
      BY <1>3 DEF CreateAddressWrite, NextRow, row, given
    <3>5. PICK x \in 1..Addresses : address' = [address EXCEPT ![x] = row] /\ address[x].row = "absent"
      BY <3>4
    <3>6. DefaultsOf(address') = DefaultsOf(address) \ {x}
      BY <1>t, <2>5, <3>5, AddressPut
    <3>7. x \notin DefaultsOf(address)
      BY <3>5 DEF DefaultsOf, There
    <3>. QED BY <3>3, <3>6, <3>7
  <2>11. Idle.op # "notify" /\ req[r].op # "notify"
    BY <1>1 DEF Idle
  <2>12. ThingsLeft(r, Idle)
    BY <2>2, <2>6, <2>9, <2>10, <2>11, AddressLeft
  <2>. QED BY <1>1, <2>2, <2>12
<1>. QED BY <1>2, <1>3

\* The rows of a table that are there have a latest one.
LEMMA LatestOK ==
  ASSUME NEW n \in Nat, NEW S \in SUBSET (1..n), S # {}
  PROVE  Latest(S) \in S /\ \A b \in S : b <= Latest(S)
<1>. DEFINE T == {n - a : a \in S}
            R == {ss \in Nat \X Nat : ss[1] < ss[2]}
<1>1. T \subseteq Nat
  OBVIOUS
<1>e. T # {}
  <2>1. PICK a : a \in S
    OBVIOUS
  <2>2. n - a \in T
    BY <2>1
  <2>. QED BY <2>2
<1>2. IsWellFoundedOn(R, Nat)
  BY NatLessThanWellFounded DEF OpToRel
<1>. HIDE DEF R
<1>3. PICK t \in T : \A u \in T : ~(<<u, t>> \in R)
  BY <1>1, <1>2, <1>e, WFMin
<1>4. PICK a \in S : t = n - a
  OBVIOUS
<1>5. ASSUME NEW b \in S PROVE b <= a
  <2>1. n - b \in T /\ n - b \in Nat /\ n - a \in Nat
    OBVIOUS
  <2>2. ~(n - b < n - a)
    BY <1>3, <1>4, <2>1 DEF R
  <2>3. b \in Nat /\ a \in Nat
    OBVIOUS
  <2>. QED BY <2>2, <2>3
<1>. QED BY <1>4, <1>5 DEF Latest

LEMMA AddressChanged ==
  ASSUME ThingsInv, RequestsOK, NEW r \in Request, ClearDefault(r) \/ UpdateAddressWrite(r)
  PROVE  req[r].op \in ThingsOps /\ \E h : Awaits(r, h) /\ ThingsLeft(r, h)
<1>1. req[r].op = "updateAddress" /\ req[r].op \in ThingsOps /\ req[r].op # "notify"
  BY DEF ClearDefault, UpdateAddressWrite, At, Resumes, ThingsOps
<1>t. address \in [1..Addresses -> AddressRow]
  BY DEF ThingsInv, ThingsTypeOK, AddressRow
<1>h. req[r] \in [op : {"updateAddress"}, at : {"clear", "write"}, address : 1..Addresses, asks : workload.asks]
  BY <1>1 DEF ThingsInv, ThingsHandler
<1>c. ~workload.overlap =>
        /\ req[r].address \in There(address)
        /\ req[r].at = "write" /\ req[r].asks = {TRUE} => DefaultsOf(address) = {}
        /\ req[r].at = "clear" => req[r].asks = {TRUE}
  BY <1>1 DEF ThingsInv, ThingsChecked
<1>s. AsksKept => Settled(address) \/ Unsettled(req[r])
  BY <1>1, SettledAlone
<1>u. ~workload.overlap => AtMostOne(DefaultsOf(address))
  BY DEF ThingsInv
<1>2. CASE ClearDefault(r)
  <2>. DEFINE h == [req[r] EXCEPT !.at = "write"]
  <2>1. /\ Awaits(r, h) /\ UNCHANGED <<device, dead, note, photo>> /\ req[r].at = "clear"
        /\ address' = Cleared
    BY <1>2 DEF ClearDefault, At, Goes
  <2>2. /\ h \in [op : {"updateAddress"}, at : {"clear", "write"}, address : 1..Addresses, asks : workload.asks]
        /\ h.op = "updateAddress" /\ h.at = "write" /\ h.address = req[r].address /\ h.asks = req[r].asks
    BY <1>h
  <2>3. /\ address' \in [1..Addresses -> AddressRow]
        /\ There(address') = There(address) /\ DefaultsOf(address') = {}
    BY <1>t, <2>1, ClearedOK
  <2>. HIDE DEF h
  <2>4. ThingsHandler(h, note, dead, workload.asks)
    BY <2>2 DEF ThingsHandler
  <2>5. ~workload.overlap => ThingsChecked(h, address', photo)
    BY <1>c, <2>2, <2>3 DEF ThingsChecked
  <2>6. AsksKept => Unsettled(h)
    BY <1>c, <2>1, <2>2 DEF Unsettled, AsksKept
  <2>7. AtMostOne(DefaultsOf(address'))
    BY <2>3 DEF AtMostOne
  <2>8. h.op # "notify" /\ h.op \in ThingsOps
    BY <1>1, <2>2
  <2>9. ThingsLeft(r, h)
    BY <1>1, <2>1, <2>3, <2>4, <2>5, <2>6, <2>7, <2>8, AddressLeft
  <2>. QED BY <1>1, <2>1, <2>9
<1>3. CASE UpdateAddressWrite(r)
  <2>. DEFINE a == req[r].address
              given == Given(req[r].asks, address[a].default)
              row == [address[a] EXCEPT !.default = given]
  <2>1. /\ Awaits(r, Idle) /\ UNCHANGED <<device, dead, note, photo>> /\ req[r].at = "write"
        /\ address' = IF a \in There(address)
                        THEN [address EXCEPT ![a].default = Given(req[r].asks, @)] ELSE address
    BY <1>3 DEF UpdateAddressWrite, Reply, Awaits, At
  <2>2. a \in 1..Addresses /\ address[a] \in AddressRow /\ address[a].default \in BOOLEAN
    BY <1>t, <1>h DEF AddressRow
  <2>3. /\ given \in BOOLEAN /\ (req[r].asks = {} => given = address[a].default)
        /\ req[r].asks = {TRUE} => given
        /\ req[r].asks = {FALSE} => ~given
        /\ req[r].asks = {} \/ req[r].asks = {TRUE} \/ req[r].asks = {FALSE}
        /\ AsksKept => req[r].asks # {FALSE}
    BY <1>h, <2>2, AsksOK
  <2>4. a \in There(address) => address' = [address EXCEPT ![a] = row]
    BY <2>1
  <2>. HIDE DEF given
  <2>5. row \in AddressRow /\ row.row = address[a].row /\ row.default = given
    BY <2>2, <2>3 DEF AddressRow
  <2>. HIDE DEF row
  <2>6. a \in There(address) =>
          /\ address' \in [1..Addresses -> AddressRow]
          /\ There(address') = There(address)
          /\ DefaultsOf(address') = IF given THEN DefaultsOf(address) \union {a} ELSE DefaultsOf(address) \ {a}
    <3>. SUFFICES ASSUME a \in There(address)
                  PROVE  /\ address' \in [1..Addresses -> AddressRow]
                         /\ There(address') = There(address)
                         /\ DefaultsOf(address') = IF given THEN DefaultsOf(address) \union {a}
                                                   ELSE DefaultsOf(address) \ {a}
      OBVIOUS
    <3>1. row.row = "present"
      BY <2>5 DEF There
    <3>2. There(address') = There(address) \union {a}
      BY <1>t, <2>2, <2>4, <2>5, <3>1, AddressPut
    <3>3. There(address') = There(address)
      BY <3>2
    <3>. QED BY <1>t, <2>2, <2>4, <2>5, <3>1, <3>3, AddressPut
  <2>7. a \notin There(address) => address' = address
    BY <2>1
  <2>8. Idle.op # "notify"
    BY DEF Idle
  <2>9. address' \in [1..Addresses -> AddressRow]
    BY <1>t, <2>6, <2>7
  <2>10. ~workload.overlap => AtMostOne(DefaultsOf(address')) /\ (AsksKept => Settled(address'))
    <3>. SUFFICES ASSUME ~workload.overlap
                  PROVE  AtMostOne(DefaultsOf(address')) /\ (AsksKept => Settled(address'))
      OBVIOUS
    <3>1. a \in There(address)
      BY <1>c
    <3>2. CASE req[r].asks = {TRUE}
      <4>1. DefaultsOf(address') = {a}
        BY <1>c, <2>1, <2>3, <2>6, <3>1, <3>2
      <4>. QED BY <4>1 DEF AtMostOne, Settled
    <3>3. CASE req[r].asks = {}
      <4>1. a \in DefaultsOf(address) <=> address[a].default
        BY <3>1 DEF DefaultsOf
      <4>2. DefaultsOf(address') = DefaultsOf(address) /\ There(address') = There(address)
        BY <2>3, <2>6, <3>1, <3>3, <4>1
      <4>3. ~Unsettled(req[r])
        BY <1>1, <3>3 DEF Unsettled
      <4>. QED BY <1>s, <1>u, <4>2, <4>3 DEF Settled
    <3>4. CASE req[r].asks = {FALSE}
      <4>1. DefaultsOf(address') = DefaultsOf(address) \ {a}
        BY <2>3, <2>6, <3>1, <3>4
      <4>. QED BY <1>u, <2>3, <3>4, <4>1 DEF AtMostOne
    <3>. QED BY <2>3, <3>2, <3>3, <3>4
  <2>11. ThingsLeft(r, Idle)
    BY <1>1, <2>1, <2>8, <2>9, <2>10, AddressLeft DEF AsksKept
  <2>. QED BY <1>1, <2>1, <2>11
<1>. QED BY <1>2, <1>3

LEMMA AddressRemoved ==
  ASSUME ThingsInv, RequestsOK, NEW r \in Request, DeleteAddress(r) \/ FindNext(r) \/ PromoteNext(r)
  PROVE  req[r].op \in ThingsOps /\ \E h : Awaits(r, h) /\ ThingsLeft(r, h)
<1>1. req[r].op = "removeAddress" /\ req[r].op \in ThingsOps /\ req[r].op # "notify"
  BY DEF DeleteAddress, FindNext, PromoteNext, At, Resumes, ThingsOps
<1>. DEFINE Handler == [op : {"removeAddress"}, at : {"delete", "next", "promote"}, address : 1..Addresses,
                        was : BOOLEAN]
            a == req[r].address
<1>t. address \in [1..Addresses -> AddressRow]
  BY DEF ThingsInv, ThingsTypeOK, AddressRow
<1>h. req[r] \in Handler
  BY <1>1 DEF ThingsInv, ThingsHandler
<1>a. a \in 1..Addresses
  BY <1>h
<1>c. ~workload.overlap =>
        /\ req[r].at = "delete" => a \in There(address) /\ req[r].was = address[a].default
        /\ req[r].at \in {"next", "promote"} => DefaultsOf(address) = {}
        /\ req[r].at = "promote" => a \in There(address)
  BY <1>1 DEF ThingsInv, ThingsChecked
<1>s. AsksKept => Settled(address) \/ Unsettled(req[r])
  BY <1>1, SettledAlone
<1>u. ~workload.overlap => AtMostOne(DefaultsOf(address))
  BY DEF ThingsInv
<1>i. Idle.op # "notify"
  BY DEF Idle
<1>2. CASE DeleteAddress(r)
  <2>. DEFINE row == [row |-> "gone", default |-> FALSE]
              h == [req[r] EXCEPT !.at = "next"]
  <2>1. /\ UNCHANGED <<device, dead, note, photo>> /\ req[r].at = "delete"
        /\ address' = [address EXCEPT ![a] = row]
        /\ IF a \in There(address) /\ req[r].was THEN Awaits(r, h) ELSE Awaits(r, Idle)
    BY <1>2 DEF DeleteAddress, Reply, Awaits, Goes, At
  <2>2. /\ address' \in [1..Addresses -> AddressRow]
        /\ There(address') = There(address) \ {a} /\ DefaultsOf(address') = DefaultsOf(address) \ {a}
    <3>1. row \in AddressRow /\ row.row # "present"
      BY DEF AddressRow
    <3>. HIDE DEF row
    <3>. QED BY <1>t, <1>a, <2>1, <3>1, AddressPut
  <2>3. ~workload.overlap => AtMostOne(DefaultsOf(address'))
    BY <1>u, <2>2 DEF AtMostOne
  <2>4. CASE a \in There(address) /\ req[r].was
    <3>1. h \in Handler /\ h.op = "removeAddress" /\ h.at = "next" /\ h.was = req[r].was
      BY <1>h
    <3>. HIDE DEF h
    <3>2. ThingsHandler(h, note, dead, workload.asks) /\ Unsettled(h) /\ h.op # "notify" /\ h.op \in ThingsOps
      BY <1>1, <3>1 DEF ThingsHandler, Unsettled
    <3>3. ~workload.overlap => DefaultsOf(address') = {}
      <4>1. ~workload.overlap => a \in DefaultsOf(address)
        BY <1>c, <2>1, <2>4 DEF DefaultsOf
      <4>. QED BY <1>u, <2>2, <4>1 DEF AtMostOne
    <3>4. ~workload.overlap => ThingsChecked(h, address', photo)
      BY <3>1, <3>3 DEF ThingsChecked
    <3>5. ThingsLeft(r, h)
      BY <1>1, <2>1, <2>2, <2>3, <3>2, <3>4, AddressLeft
    <3>. QED BY <1>1, <2>1, <2>4, <3>5
  <2>5. CASE ~(a \in There(address) /\ req[r].was)
    <3>1. AsksKept => Settled(address')
      <4>. SUFFICES ASSUME AsksKept PROVE Settled(address')
        OBVIOUS
      <4>1. ~Unsettled(req[r])
        BY <1>1, <2>1 DEF Unsettled
      <4>2. a \notin DefaultsOf(address)
        BY <1>c, <2>1, <2>5 DEF DefaultsOf, AsksKept
      <4>. QED BY <1>s, <2>2, <4>1, <4>2 DEF Settled
    <3>2. ThingsLeft(r, Idle)
      BY <1>1, <1>i, <2>1, <2>2, <2>3, <3>1, AddressLeft
    <3>. QED BY <1>1, <2>1, <2>5, <3>2
  <2>. QED BY <2>4, <2>5
<1>3. CASE FindNext(r)
  <2>. DEFINE h == [req[r] EXCEPT !.at = "promote", !.address = Latest(There(address))]
  <2>1. /\ UNCHANGED things /\ req[r].at = "next"
        /\ IF There(address) = {} THEN Awaits(r, Idle) ELSE Awaits(r, h)
    BY <1>3 DEF FindNext, Reply, Awaits, At
  <2>2. CASE There(address) = {}
    <3>1. Settled(address)
      BY <2>2 DEF Settled
    <3>2. ThingsLeft(r, Idle)
      BY <1>1, <1>i, <1>t, <1>u, <2>1, <3>1, AddressLeft DEF things
    <3>. QED BY <1>1, <2>1, <2>2, <3>2
  <2>3. CASE There(address) # {}
    <3>1. There(address) \subseteq 1..Addresses
      BY <1>t DEF There
    <3>2. Latest(There(address)) \in There(address)
      BY <2>3, <3>1, LatestOK, BelongingsAssumption
    <3>3. h \in Handler /\ h.op = "removeAddress" /\ h.at = "promote" /\ h.address \in There(address)
      BY <1>h, <3>1, <3>2
    <3>. HIDE DEF h
    <3>4. ThingsHandler(h, note, dead, workload.asks) /\ Unsettled(h) /\ h.op # "notify" /\ h.op \in ThingsOps
      BY <1>1, <3>3 DEF ThingsHandler, Unsettled
    <3>5. ~workload.overlap => ThingsChecked(h, address, photo)
      BY <1>c, <2>1, <3>3 DEF ThingsChecked
    <3>6. ThingsLeft(r, h)
      BY <1>1, <1>t, <1>u, <2>1, <3>4, <3>5, AddressLeft DEF things
    <3>. QED BY <1>1, <2>1, <2>3, <3>6
  <2>. QED BY <2>2, <2>3
<1>4. CASE PromoteNext(r)
  <2>. DEFINE row == [address[a] EXCEPT !.default = TRUE]
  <2>1. /\ UNCHANGED <<device, dead, note, photo>> /\ req[r].at = "promote" /\ Awaits(r, Idle)
        /\ address' = IF a \in There(address) THEN [address EXCEPT ![a] = row] ELSE address
    BY <1>4 DEF PromoteNext, Reply, Awaits, At
  <2>2. row \in AddressRow /\ row.row = address[a].row /\ row.default
    BY <1>t, <1>a DEF AddressRow
  <2>. HIDE DEF row
  <2>3. a \in There(address) =>
          /\ address' \in [1..Addresses -> AddressRow]
          /\ There(address') = There(address) \union {a} /\ DefaultsOf(address') = DefaultsOf(address) \union {a}
    <3>1. a \in There(address) => row.row = "present"
      BY <2>2 DEF There
    <3>. QED BY <1>t, <1>a, <2>1, <2>2, <3>1, AddressPut
  <2>4. address' \in [1..Addresses -> AddressRow]
    BY <1>t, <2>1, <2>3
  <2>5. ~workload.overlap => AtMostOne(DefaultsOf(address')) /\ Settled(address')
    <3>1. ~workload.overlap => DefaultsOf(address') = {a}
      BY <1>c, <2>1, <2>3
    <3>. QED BY <3>1 DEF AtMostOne, Settled
  <2>6. ThingsLeft(r, Idle)
    BY <1>1, <1>i, <2>1, <2>4, <2>5, AddressLeft DEF AsksKept
  <2>. QED BY <1>1, <2>1, <2>6
<1>. QED BY <1>2, <1>3, <1>4

NoteRow ==
  [row : {"absent", "present"}, user : User \union {None}, status : PushDeliveryStatus, read : BOOLEAN]

DeviceRow == [user : User \union {None}, active : BOOLEAN]

\* A step that leaves addresses and photos alone, and knows no more of them.
LEMMA NoteLeft ==
  ASSUME ThingsInv, RequestsOK, NEW r \in Request, MayStart(r) \/ req[r].op = "notify",
         NEW h, UNCHANGED <<address, photo>>,
         note' \in [1..Notes -> NoteRow], device' \in [Device -> DeviceRow], dead' \in SUBSET Device,
         LiveDevicesStay', NotesKept, dead \subseteq dead', NotesWorked(r, h),
         h = Idle \/ (h.op = "notify" /\ ThingsHandler(h, note', dead', workload.asks))
  PROVE  ThingsLeft(r, h)
<1>1. ThingsTypeOK'
  BY DEF ThingsInv, ThingsTypeOK, NoteRow, DeviceRow
<1>2. address' = address /\ photo' = photo
  OBVIOUS
<1>3. ~workload.overlap => AtMostOne(DefaultsOf(address')) /\ KindsDistinct(photo')
  BY <1>2 DEF ThingsInv
<1>4. AsksKept => Settled(address')
  <2>1. req[r].op = "idle" \/ req[r].op = "notify"
    BY DEF MayStart, Idle
  <2>2. ~Unsettled(req[r]) /\ (MayStart(r) \/ req[r].op \in ThingsOps)
    BY <2>1 DEF Unsettled, ThingsOps
  <2>. QED BY <1>2, <2>2, SettledAlone
<1>5. h # Idle => /\ h.op \in ThingsOps /\ ThingsHandler(h, note', dead', workload.asks)
                  /\ ~workload.overlap => ThingsChecked(h, address', photo')
  BY DEF ThingsOps, ThingsChecked
<1>. QED BY <1>1, <1>3, <1>4, <1>5 DEF ThingsLeft

\* A device is registered, or its app removed; a note is read.
LEMMA NotesAtOnce ==
  ASSUME ThingsInv, RequestsOK, NEW r \in Request,
         \/ \E u \in User : MarkAllRead(r, u) \/ \E d \in Device : RegisterDevice(r, u, d)
         \/ \E d \in Device : Uninstall(r, d)
         \/ \E n \in 1..Notes : MarkAsRead(r, n)
  PROVE  MayStart(r) /\ Awaits(r, Idle) /\ ThingsLeft(r, Idle)
<1>1. MayStart(r) /\ req' = req
  BY DEF MarkAllRead, RegisterDevice, Uninstall, MarkAsRead, AtOnce, Arrives
<1>2. Awaits(r, Idle)
  BY <1>1 DEF MayStart, Awaits, RequestsOK
<1>3. req[r].op # "notify"
  BY <1>1 DEF MayStart, Idle
<1>t. /\ note \in [1..Notes -> NoteRow] /\ device \in [Device -> DeviceRow] /\ dead \in SUBSET Device
      /\ LiveDevicesStay
  BY DEF ThingsInv, ThingsTypeOK, NoteRow, DeviceRow
<1>k. note' = note => NotesKept /\ NotesWorked(r, Idle)
  BY <1>3 DEF NotesKept, NotesWorked
<1>4. ASSUME NEW u \in User, MarkAllRead(r, u) PROVE ThingsLeft(r, Idle)
  <2>1. /\ UNCHANGED <<address, device, dead, photo>>
        /\ note' = [n \in 1..Notes |-> IF n \in There(note) /\ note[n].user = u
                                         THEN [note[n] EXCEPT !.read = TRUE] ELSE note[n]]
    BY <1>4 DEF MarkAllRead
  <2>2. ASSUME NEW n \in 1..Notes
        PROVE  note'[n] \in NoteRow /\ note'[n].row = note[n].row /\ note'[n].status = note[n].status
    BY <1>t, <2>1 DEF NoteRow
  <2>3. note' \in [1..Notes -> NoteRow]
    BY <2>1, <2>2
  <2>4. There(note') = There(note)
    BY <1>t, <2>2, <2>3 DEF There
  <2>5. NotesKept /\ NotesWorked(r, Idle)
    BY <1>3, <1>t, <2>2, <2>4 DEF NotesKept, NotesWorked, There
  <2>6. LiveDevicesStay'
    BY <1>t, <2>1 DEF LiveDevicesStay
  <2>. QED BY <1>1, <1>t, <2>1, <2>3, <2>5, <2>6, NoteLeft
<1>5. ASSUME NEW u \in User, NEW d \in Device, RegisterDevice(r, u, d) PROVE ThingsLeft(r, Idle)
  <2>1. /\ UNCHANGED <<address, dead, note, photo>>
        /\ device' = [device EXCEPT ![d] = [user |-> u, active |-> TRUE]]
    BY <1>5 DEF RegisterDevice
  <2>2. device' \in [Device -> DeviceRow]
    BY <1>t, <2>1 DEF DeviceRow
  <2>3. LiveDevicesStay'
    BY <1>t, <2>1 DEF LiveDevicesStay
  <2>. QED BY <1>1, <1>k, <1>t, <2>1, <2>2, <2>3, NoteLeft
<1>6. ASSUME NEW d \in Device, Uninstall(r, d) PROVE ThingsLeft(r, Idle)
  <2>1. UNCHANGED <<address, device, note, photo>> /\ dead' = dead \union {d}
    BY <1>6 DEF Uninstall
  <2>2. LiveDevicesStay'
    BY <1>t, <2>1 DEF LiveDevicesStay
  <2>. QED BY <1>1, <1>k, <1>t, <2>1, <2>2, NoteLeft
<1>7. ASSUME NEW n \in 1..Notes, MarkAsRead(r, n) PROVE ThingsLeft(r, Idle)
  <2>1. UNCHANGED <<address, device, dead, photo>> /\ note' = [note EXCEPT ![n].read = TRUE]
    BY <1>7 DEF MarkAsRead
  <2>2. ASSUME NEW m \in 1..Notes
        PROVE  note'[m] \in NoteRow /\ note'[m].row = note[m].row /\ note'[m].status = note[m].status
    BY <1>t, <2>1 DEF NoteRow
  <2>3. note' \in [1..Notes -> NoteRow]
    BY <1>t, <2>1, <2>2
  <2>4. There(note') = There(note)
    BY <1>t, <2>2, <2>3 DEF There
  <2>5. NotesKept /\ NotesWorked(r, Idle)
    BY <1>3, <1>t, <2>2, <2>4 DEF NotesKept, NotesWorked, There
  <2>6. LiveDevicesStay'
    BY <1>t, <2>1 DEF LiveDevicesStay
  <2>. QED BY <1>1, <1>t, <2>1, <2>3, <2>5, <2>6, NoteLeft
<1>8. ThingsLeft(r, Idle)
  BY <1>4, <1>5, <1>6, <1>7
<1>. QED BY <1>1, <1>2, <1>8

NotifyHandler(notes, gone) ==
  [op : {"notify"}, at : {"tokens", "send", "result", "deactivate"}, note : There(notes),
   tokens : SUBSET Device, status : PushDeliveryStatus, invalid : SUBSET gone]

LEMMA Notified ==
  ASSUME ThingsInv, RequestsOK, NEW r \in Request, NEW u \in User, Notify(r, u)
  PROVE  MayStart(r) /\ \E h : Awaits(r, h) /\ ThingsLeft(r, h)
<1>t. /\ note \in [1..Notes -> NoteRow] /\ device \in [Device -> DeviceRow] /\ dead \in SUBSET Device
      /\ LiveDevicesStay
  BY DEF ThingsInv, ThingsTypeOK, NoteRow, DeviceRow
<1>1. MayStart(r) /\ UNCHANGED <<address, device, dead, photo>>
  BY DEF Notify, Arrives
<1>2. PICK n \in 1..Notes :
        /\ note[n].row = "absent"
        /\ note' = [note EXCEPT ![n] = [@ EXCEPT !.row = "present", !.user = u]]
        /\ Awaits(r, [op |-> "notify", at |-> "tokens", note |-> n, tokens |-> {},
                      status |-> "PENDING", invalid |-> {}])
  BY DEF Notify, NextRow
<1>. DEFINE h == [op |-> "notify", at |-> "tokens", note |-> n, tokens |-> {},
                  status |-> "PENDING", invalid |-> {}]
            row == [note[n] EXCEPT !.row = "present", !.user = u]
<1>3. note' = [note EXCEPT ![n] = row]
  BY <1>t, <1>2 DEF NoteRow
<1>4. row \in NoteRow /\ row.row = "present"
  BY <1>t DEF NoteRow
<1>. HIDE DEF row
<1>5. /\ note' \in [1..Notes -> NoteRow] /\ note'[n] = row
      /\ \A m \in 1..Notes : m # n => note'[m] = note[m]
  BY <1>t, <1>3, <1>4
<1>6. There(note') = There(note) \union {n} /\ n \notin There(note)
  BY <1>t, <1>2, <1>4, <1>5 DEF There
<1>7. /\ h \in NotifyHandler(note', dead') /\ h.op = "notify" /\ h.note = n /\ h.at = "tokens"
  BY <1>6 DEF NotifyHandler, PushDeliveryStatus
<1>8. Awaits(r, h)
  BY <1>2
<1>. HIDE DEF h
<1>9. ThingsHandler(h, note', dead', workload.asks)
  BY <1>7 DEF ThingsHandler, NotifyHandler
<1>10. There(note) \subseteq 1..Notes
  BY <1>t DEF There
<1>11. NotesKept
  BY <1>5, <1>6, <1>10 DEF NotesKept
<1>12. NotesWorked(r, h)
  BY <1>1, <1>5, <1>6, <1>7, <1>10 DEF NotesWorked, MayStart, Idle
<1>13. LiveDevicesStay'
  BY <1>t, <1>1 DEF LiveDevicesStay
<1>14. ThingsLeft(r, h)
  BY <1>1, <1>t, <1>5, <1>7, <1>9, <1>11, <1>12, <1>13, NoteLeft
<1>. QED BY <1>1, <1>8, <1>14

LEMMA NotifyGoesOn ==
  ASSUME ThingsInv, RequestsOK, NEW r \in Request, FindTokens(r) \/ SendToTokens(r)
  PROVE  req[r].op \in ThingsOps /\ \E h : Awaits(r, h) /\ ThingsLeft(r, h)
<1>1. req[r].op = "notify" /\ req[r].op \in ThingsOps /\ UNCHANGED things
  BY DEF FindTokens, SendToTokens, At, Resumes, ThingsOps
<1>t. /\ note \in [1..Notes -> NoteRow] /\ device \in [Device -> DeviceRow] /\ dead \in SUBSET Device
      /\ LiveDevicesStay
  BY DEF ThingsInv, ThingsTypeOK, NoteRow, DeviceRow
<1>h. req[r] \in NotifyHandler(note, dead)
  BY <1>1 DEF ThingsInv, ThingsHandler, NotifyHandler
<1>2. ASSUME NEW h \in NotifyHandler(note, dead), h.note = req[r].note, h.at # "deactivate",
             h.at = "result" => h.status # "PENDING"
      PROVE  ThingsLeft(r, h)
  <2>1. h.op = "notify" /\ ThingsHandler(h, note', dead', workload.asks)
    BY <1>1, <1>2 DEF NotifyHandler, ThingsHandler, things
  <2>2. NotesKept /\ NotesWorked(r, h) /\ LiveDevicesStay'
    BY <1>1, <1>2, <1>t, <2>1 DEF NotesKept, NotesWorked, LiveDevicesStay, things
  <2>. QED BY <1>1, <1>t, <2>1, <2>2, NoteLeft DEF things
<1>3. CASE FindTokens(r)
  <2>1. PICK h : /\ Awaits(r, h)
                 /\ \/ h = [req[r] EXCEPT !.status = "SKIPPED", !.at = "result"]
                    \/ \E tokens \in SUBSET Device : h = [req[r] EXCEPT !.tokens = tokens, !.at = "send"]
    BY <1>3 DEF FindTokens
  <2>2. CASE h = [req[r] EXCEPT !.status = "SKIPPED", !.at = "result"]
    <3>1. h \in NotifyHandler(note, dead) /\ h.note = req[r].note /\ h.at = "result" /\ h.status = "SKIPPED"
      BY <1>h, <2>2 DEF NotifyHandler, PushDeliveryStatus
    <3>. QED BY <1>1, <1>2, <2>1, <3>1
  <2>3. ASSUME NEW tokens \in SUBSET Device, h = [req[r] EXCEPT !.tokens = tokens, !.at = "send"]
        PROVE  ThingsLeft(r, h)
    <3>1. h \in NotifyHandler(note, dead) /\ h.note = req[r].note /\ h.at = "send"
      BY <1>h, <2>3 DEF NotifyHandler
    <3>. QED BY <1>1, <1>2, <3>1
  <2>. QED BY <1>1, <2>1, <2>2, <2>3
<1>4. CASE SendToTokens(r)
  <2>1. PICK h : /\ Awaits(r, h)
                 /\ \/ \E status \in {"SENT", "FAILED"}, invalid \in SUBSET dead :
                         h = [req[r] EXCEPT !.at = "result", !.status = status, !.invalid = invalid]
                    \/ h = [req[r] EXCEPT !.at = "result", !.status = "FAILED"]
    <3>1. CASE \E reached \in SUBSET (req[r].tokens \ dead) :
                 Awaits(r, [req[r] EXCEPT !.at = "result",
                                          !.status = IF reached # {} THEN "SENT" ELSE "FAILED",
                                          !.invalid = DeadTokens(req[r].tokens, reached)])
      <4>1. PICK reached \in SUBSET (req[r].tokens \ dead) :
                 Awaits(r, [req[r] EXCEPT !.at = "result",
                                          !.status = IF reached # {} THEN "SENT" ELSE "FAILED",
                                          !.invalid = DeadTokens(req[r].tokens, reached)])
        BY <3>1
      <4>2. DeadTokens(req[r].tokens, reached) \in SUBSET dead
        BY DEF DeadTokens
      <4>3. (IF reached # {} THEN "SENT" ELSE "FAILED") \in {"SENT", "FAILED"}
        OBVIOUS
      <4>. QED BY <4>1, <4>2, <4>3
    <3>2. CASE Awaits(r, [req[r] EXCEPT !.at = "result", !.status = "FAILED"])
      BY <3>2
    <3>. QED BY <1>4, <3>1, <3>2 DEF SendToTokens
  <2>2. ASSUME NEW status \in {"SENT", "FAILED"}, NEW invalid \in SUBSET dead,
               h = [req[r] EXCEPT !.at = "result", !.status = status, !.invalid = invalid]
        PROVE  ThingsLeft(r, h)
    <3>1. h \in NotifyHandler(note, dead) /\ h.note = req[r].note /\ h.at = "result" /\ h.status = status
      BY <1>h, <2>2 DEF NotifyHandler, PushDeliveryStatus
    <3>. QED BY <1>1, <1>2, <3>1
  <2>3. ASSUME h = [req[r] EXCEPT !.at = "result", !.status = "FAILED"]
        PROVE  ThingsLeft(r, h)
    <3>1. h \in NotifyHandler(note, dead) /\ h.note = req[r].note /\ h.at = "result" /\ h.status = "FAILED"
      BY <1>h, <2>3 DEF NotifyHandler, PushDeliveryStatus
    <3>. QED BY <1>1, <1>2, <3>1
  <2>. QED BY <1>1, <2>1, <2>2, <2>3
<1>. QED BY <1>3, <1>4

LEMMA NotifyEnds ==
  ASSUME ThingsInv, RequestsOK, NEW r \in Request, RecordResult(r) \/ DeactivateTokens(r)
  PROVE  req[r].op \in ThingsOps /\ \E h : Awaits(r, h) /\ ThingsLeft(r, h)
<1>1. req[r].op = "notify" /\ req[r].op \in ThingsOps
  BY DEF RecordResult, DeactivateTokens, At, Resumes, ThingsOps
<1>t. /\ note \in [1..Notes -> NoteRow] /\ device \in [Device -> DeviceRow] /\ dead \in SUBSET Device
      /\ LiveDevicesStay
  BY DEF ThingsInv, ThingsTypeOK, NoteRow, DeviceRow
<1>. DEFINE n == req[r].note
<1>h. /\ req[r] \in NotifyHandler(note, dead)
      /\ req[r].at = "result" => req[r].status # "PENDING"
      /\ req[r].at = "deactivate" => note[n].status # "PENDING"
  BY <1>1 DEF ThingsInv, ThingsHandler, NotifyHandler
<1>n. n \in There(note) /\ n \in 1..Notes /\ There(note) \subseteq 1..Notes
  BY <1>h, <1>t DEF NotifyHandler, There
<1>2. CASE RecordResult(r)
  <2>. DEFINE row == [note[n] EXCEPT !.status = req[r].status]
              h == [req[r] EXCEPT !.at = "deactivate"]
  <2>1. /\ UNCHANGED <<address, device, dead, photo>> /\ req[r].at = "result"
        /\ note' = [note EXCEPT ![n] = row]
        /\ Awaits(r, Idle) \/ Awaits(r, h)
    BY <1>2 DEF RecordResult, At, Reply, Awaits, Goes
  <2>2. req[r].status \in PushDeliveryStatus \ {"PENDING"}
    BY <1>h, <2>1 DEF NotifyHandler
  <2>3. row \in NoteRow /\ row.row = note[n].row /\ row.status # "PENDING"
    BY <1>t, <1>n, <2>2 DEF NoteRow
  <2>4. h \in NotifyHandler(note, dead) /\ h.op = "notify" /\ h.note = n /\ h.at = "deactivate"
    BY <1>h DEF NotifyHandler
  <2>. HIDE DEF row, h
  <2>5. /\ note' \in [1..Notes -> NoteRow] /\ note'[n] = row
        /\ \A m \in 1..Notes : m # n => note'[m] = note[m]
    BY <1>t, <1>n, <2>1, <2>3
  <2>6. There(note') = There(note)
    BY <1>t, <1>n, <2>3, <2>5 DEF There
  <2>7. NotesKept
    BY <1>n, <2>3, <2>5, <2>6 DEF NotesKept
  <2>8. NotesWorked(r, Idle) /\ NotesWorked(r, h)
    BY <1>n, <2>3, <2>5, <2>6 DEF NotesWorked
  <2>9. ThingsHandler(h, note', dead', workload.asks)
    BY <2>1, <2>3, <2>4, <2>5, <2>6 DEF ThingsHandler, NotifyHandler
  <2>10. LiveDevicesStay'
    BY <1>t, <2>1 DEF LiveDevicesStay
  <2>11. ThingsLeft(r, Idle)
    BY <1>1, <1>t, <2>1, <2>5, <2>7, <2>8, <2>10, NoteLeft
  <2>12. ThingsLeft(r, h)
    BY <1>1, <1>t, <2>1, <2>4, <2>5, <2>7, <2>8, <2>9, <2>10, NoteLeft
  <2>. QED BY <1>1, <2>1, <2>11, <2>12
<1>3. CASE DeactivateTokens(r)
  <2>1. /\ UNCHANGED <<address, dead, note, photo>> /\ req[r].at = "deactivate"
        /\ device' = [d \in Device |-> IF d \in req[r].invalid THEN [device[d] EXCEPT !.active = FALSE]
                                       ELSE device[d]]
        /\ Awaits(r, Idle)
    BY <1>3 DEF DeactivateTokens, At, Reply, Awaits
  <2>2. req[r].invalid \subseteq dead
    BY <1>h DEF NotifyHandler
  <2>3. device' \in [Device -> DeviceRow]
    BY <1>t, <2>1 DEF DeviceRow
  <2>4. LiveDevicesStay'
    BY <1>t, <2>1, <2>2 DEF LiveDevicesStay, DeviceRow
  <2>5. NotesKept /\ NotesWorked(r, Idle)
    BY <1>h, <2>1 DEF NotesKept, NotesWorked
  <2>6. ThingsLeft(r, Idle)
    BY <1>1, <1>t, <2>1, <2>3, <2>4, <2>5, NoteLeft
  <2>. QED BY <1>1, <2>1, <2>6
<1>. QED BY <1>2, <1>3

PhotoRow == [row : {"absent", "present", "gone"}, kind : Kind \union {None}]

\* A step of photos alone.
LEMMA PhotoLeft ==
  ASSUME ThingsInv, RequestsOK, NEW r \in Request, MayStart(r) \/ req[r].op = "addPhoto",
         NEW h, UNCHANGED <<address, device, dead, note>>,
         photo' \in [1..Photos -> PhotoRow], ~workload.overlap => KindsDistinct(photo'),
         h = Idle \/ (/\ h.op = "addPhoto" /\ ThingsHandler(h, note, dead, workload.asks)
                      /\ ~workload.overlap => ThingsChecked(h, address, photo'))
  PROVE  ThingsLeft(r, h)
<1>1. ThingsTypeOK' /\ LiveDevicesStay'
  BY DEF ThingsInv, ThingsTypeOK, LiveDevicesStay, PhotoRow
<1>2. address' = address /\ note' = note /\ dead' = dead
  OBVIOUS
<1>3. req[r].op = "idle" \/ req[r].op = "addPhoto"
  BY DEF MayStart, Idle
<1>4. ~Unsettled(req[r]) /\ (MayStart(r) \/ req[r].op \in ThingsOps)
  BY <1>3 DEF Unsettled, ThingsOps
<1>5. AsksKept => Settled(address')
  BY <1>2, <1>4, SettledAlone
<1>6. NotesKept /\ NotesWorked(r, h)
  BY <1>2, <1>3 DEF NotesKept, NotesWorked
<1>7. ~workload.overlap => AtMostOne(DefaultsOf(address'))
  BY <1>2 DEF ThingsInv
<1>8. h # Idle => /\ h.op \in ThingsOps /\ ThingsHandler(h, note', dead', workload.asks)
                  /\ ~workload.overlap => ThingsChecked(h, address', photo')
  BY <1>2 DEF ThingsOps
<1>. QED BY <1>1, <1>2, <1>5, <1>6, <1>7, <1>8 DEF ThingsLeft

LEMMA PhotoBegins ==
  ASSUME ThingsInv, RequestsOK, NEW r \in Request, NEW kind \in Kind, AddPhoto(r, kind)
  PROVE  MayStart(r) /\ \E h : Awaits(r, h) /\ ThingsLeft(r, h)
<1>. DEFINE h == [op |-> "addPhoto", at |-> "delete", kind |-> kind, stale |-> {}]
<1>1. MayStart(r) /\ Awaits(r, h) /\ UNCHANGED things
  BY DEF AddPhoto, Arrives
<1>2. h.op = "addPhoto" /\ ThingsHandler(h, note, dead, workload.asks)
  BY DEF ThingsHandler
<1>3. ThingsChecked(h, address, photo)
  BY DEF ThingsChecked
<1>4. photo \in [1..Photos -> PhotoRow] /\ (~workload.overlap => KindsDistinct(photo))
  BY DEF ThingsInv, ThingsTypeOK, PhotoRow
<1>. HIDE DEF h
<1>6. ThingsLeft(r, h)
  BY <1>1, <1>2, <1>3, <1>4, PhotoLeft DEF things
<1>. QED BY <1>1, <1>6

LEMMA PhotoWritten ==
  ASSUME ThingsInv, RequestsOK, NEW r \in Request, DeletePhotos(r) \/ CreatePhoto(r)
  PROVE  req[r].op \in ThingsOps /\ \E h : Awaits(r, h) /\ ThingsLeft(r, h)
<1>1. req[r].op = "addPhoto" /\ req[r].op \in ThingsOps
  BY DEF DeletePhotos, CreatePhoto, At, Resumes, ThingsOps
<1>t. photo \in [1..Photos -> PhotoRow] /\ (~workload.overlap => KindsDistinct(photo))
  BY DEF ThingsInv, ThingsTypeOK, PhotoRow
<1>h. /\ req[r] \in [op : {"addPhoto"}, at : {"delete", "create"}, kind : Kind, stale : SUBSET (1..Photos)]
      /\ ~workload.overlap /\ req[r].at = "create" =>
           req[r].stale = {p \in There(photo) : photo[p].kind = req[r].kind}
  BY <1>1 DEF ThingsInv, ThingsHandler, ThingsChecked
<1>2. CASE DeletePhotos(r)
  <2>. DEFINE stale == {p \in There(photo) : photo[p].kind = req[r].kind}
              h == [req[r] EXCEPT !.at = "create", !.stale = stale]
  <2>1. Awaits(r, h) /\ UNCHANGED things
    BY <1>2 DEF DeletePhotos
  <2>2. stale \in SUBSET (1..Photos)
    BY <1>t DEF There
  <2>. HIDE DEF stale
  <2>3. /\ h \in [op : {"addPhoto"}, at : {"delete", "create"}, kind : Kind, stale : SUBSET (1..Photos)]
        /\ h.op = "addPhoto" /\ h.kind = req[r].kind /\ h.stale = stale
    BY <1>h, <2>2
  <2>. HIDE DEF h
  <2>4. ThingsHandler(h, note, dead, workload.asks)
    BY <2>3 DEF ThingsHandler
  <2>5. ThingsChecked(h, address, photo)
    BY <2>3 DEF ThingsChecked, stale
  <2>6. ThingsLeft(r, h)
    BY <1>1, <1>t, <2>1, <2>3, <2>4, <2>5, PhotoLeft DEF things
  <2>. QED BY <1>1, <2>1, <2>6
<1>3. CASE CreatePhoto(r)
  <2>1. PICK new \in 1..Photos :
          photo' = [p \in 1..Photos |->
                      IF p = new THEN [row |-> "present", kind |-> req[r].kind]
                      ELSE IF p \in req[r].stale THEN [photo[p] EXCEPT !.row = "gone"] ELSE photo[p]]
    BY <1>3 DEF CreatePhoto, NextRow
  <2>2. UNCHANGED <<address, device, dead, note>> /\ Awaits(r, Idle) /\ req[r].at = "create"
    BY <1>3 DEF CreatePhoto, Reply, Awaits, At
  <2>3. photo' \in [1..Photos -> PhotoRow]
    BY <1>h, <1>t, <2>1 DEF PhotoRow
  <2>4. ASSUME ~workload.overlap PROVE KindsDistinct(photo')
    <3>1. \A p \in There(photo') \ {new} :
            /\ p \in There(photo) /\ photo'[p].kind = photo[p].kind /\ photo[p].kind # req[r].kind
      BY <1>h, <1>t, <2>1, <2>2, <2>4 DEF There, PhotoRow
    <3>2. new \in There(photo') => photo'[new].kind = req[r].kind
      BY <2>1
    <3>. QED BY <1>t, <2>4, <3>1, <3>2 DEF KindsDistinct
  <2>5. ThingsLeft(r, Idle)
    BY <1>1, <2>2, <2>3, <2>4, PhotoLeft
  <2>. QED BY <1>1, <2>2, <2>5
<1>. QED BY <1>2, <1>3

\* A step of belongings keeps their invariant.
LEMMA ThingsKeeps ==
  ASSUME ThingsInv, RequestsOK, workload' = workload, ThingsNext
  PROVE  ThingsInv' /\ \E r \in Request : Moves(r, ThingsOps)
<1>1. PICK r \in Request : ThingsStarts(r) \/ ThingsWrites(r)
  BY DEF ThingsNext
<1>2. CASE ThingsStarts(r)
  <2>1. MayStart(r) /\ \E h : Awaits(r, h) /\ ThingsLeft(r, h)
    BY <1>2, AddressBegins, NotesAtOnce, Notified, PhotoBegins DEF ThingsStarts
  <2>. QED BY <2>1, ThingsStep
<1>3. CASE ThingsWrites(r)
  <2>1. req[r].op \in ThingsOps /\ \E h : Awaits(r, h) /\ ThingsLeft(r, h)
    BY <1>3, AddressCreated, AddressChanged, AddressRemoved, NotifyGoesOn, NotifyEnds, PhotoWritten
       DEF ThingsWrites
  <2>. QED BY <2>1, ThingsStep
<1>. QED BY <1>1, <1>2, <1>3

\* A request of another kind leaves belongings, and those who work on them, alone.
LEMMA ThingsFrame ==
  ASSUME ThingsInv, UNCHANGED <<things, workload>>, NEW r, NEW ops, Moves(r, ops),
         ops \intersect ThingsOps = {}
  PROVE  ThingsInv'
<1>i. Idle.op \notin ThingsOps
  BY DEF Idle, ThingsOps
<1>1. ASSUME NEW x \in Request PROVE req'[x] = req[x] \/ req'[x].op \notin ThingsOps
  BY <1>i DEF Moves
<1>2. ASSUME NEW x \in Request, req[x].op \in ThingsOps PROVE req'[x] = req[x]
  BY <1>2, <1>i DEF Moves, MayStart
<1>3. /\ address' = address /\ device' = device /\ dead' = dead /\ note' = note /\ photo' = photo
      /\ workload' = workload
  BY DEF things
<1>4. ASSUME NEW x \in Request
      PROVE  /\ ThingsHandler(req'[x], note', dead', workload'.asks)
             /\ ~workload'.overlap => ThingsChecked(req'[x], address', photo')
  BY <1>1, <1>3, IdleThings DEF ThingsInv
<1>5. AsksKept' => Settled(address') \/ \E x \in Request : Unsettled(req'[x])
  <2>1. \A x \in Request : Unsettled(req[x]) => req'[x] = req[x]
    BY <1>2 DEF Unsettled, ThingsOps
  <2>2. AsksKept' => AsksKept
    BY <1>3 DEF AsksKept
  <2>. QED BY <1>3, <2>1, <2>2 DEF ThingsInv
<1>6. NotesAreAnswered'
  <2>. SUFFICES ASSUME ~workload.failures, NEW n \in There(note), note[n].status = "PENDING"
                PROVE  \E x \in Request : req'[x].op = "notify" /\ req'[x].note = n
    BY <1>3 DEF NotesAreAnswered
  <2>1. PICK x \in Request : req[x].op = "notify" /\ req[x].note = n
    BY DEF ThingsInv, NotesAreAnswered
  <2>. QED BY <1>2, <2>1 DEF ThingsOps
<1>7. ThingsTypeOK' /\ LiveDevicesStay'
  BY <1>3 DEF ThingsInv, ThingsTypeOK, LiveDevicesStay
<1>8. ~workload'.overlap => AtMostOne(DefaultsOf(address')) /\ KindsDistinct(photo')
  BY <1>3 DEF ThingsInv
<1>. QED BY <1>4, <1>5, <1>6, <1>7, <1>8 DEF ThingsInv

\* A query that fails leaves half of it done; notes and defaults then promise nothing.
LEMMA ThingsFail ==
  ASSUME ThingsInv, RequestsOK, UNCHANGED <<things, workload>>, NEW r \in Request, Fails(r)
  PROVE  ThingsInv'
<1>1. /\ workload.failures /\ req'[r] = Idle
      /\ \A x \in Request : x # r => req'[x] = req[x]
  BY Replied DEF Fails
<1>2. Idle.op \notin ThingsOps
  BY DEF Idle, ThingsOps
<1>3. /\ address' = address /\ device' = device /\ dead' = dead /\ note' = note /\ photo' = photo
      /\ workload' = workload
  BY DEF things
<1>4. ASSUME NEW x \in Request
      PROVE  /\ ThingsHandler(req'[x], note', dead', workload'.asks)
             /\ ~workload'.overlap => ThingsChecked(req'[x], address', photo')
  <2>1. CASE x = r
    BY <1>1, <1>2, <2>1, IdleThings
  <2>2. CASE x # r
    BY <1>1, <1>3, <2>2 DEF ThingsInv
  <2>. QED BY <2>1, <2>2
<1>5. ~AsksKept' /\ NotesAreAnswered'
  BY <1>1, <1>3 DEF AsksKept, NotesAreAnswered
<1>6. ThingsTypeOK' /\ LiveDevicesStay'
  BY <1>3 DEF ThingsInv, ThingsTypeOK, LiveDevicesStay
<1>7. ~workload'.overlap => AtMostOne(DefaultsOf(address')) /\ KindsDistinct(photo')
  BY <1>3 DEF ThingsInv
<1>. QED BY <1>4, <1>5, <1>6, <1>7 DEF ThingsInv

LEMMA ThingsStartsOut ==
  ASSUME RequestInit, ThingsInit
  PROVE  ThingsInv
<1>1. \A x \in Request : req[x].op \notin ThingsOps
  BY DEF RequestInit, Idle, ThingsOps
<1>2. ThingsTypeOK
  BY DEF ThingsInit, ThingsTypeOK, PushDeliveryStatus
<1>3. There(address) = {} /\ There(note) = {} /\ There(photo) = {}
  BY DEF ThingsInit, There
<1>4. LiveDevicesStay
  BY DEF ThingsInit, LiveDevicesStay
<1>5. NotesAreAnswered /\ KindsDistinct(photo) /\ Settled(address)
  BY <1>3 DEF NotesAreAnswered, KindsDistinct, Settled
<1>6. AtMostOne(DefaultsOf(address))
  BY <1>3 DEF AtMostOne, DefaultsOf
<1>. QED BY <1>1, <1>2, <1>4, <1>5, <1>6, IdleThings DEF ThingsInv

LEMMA ThingsShows ==
  ASSUME ThingsInv
  PROVE  ThingsTypeOK /\ OneDefault /\ OnePhotoPerKind /\ LiveDevicesStay /\ NotesAreAnswered
<1>1. OneDefault
  <2>1. Defaults = DefaultsOf(address)
    BY DEF Defaults, DefaultsOf
  <2>2. ASSUME Quiet, AsksKept PROVE Settled(address)
    <3>1. ~Unsettled(Idle)
      BY DEF Idle, Unsettled
    <3>2. \A x \in Request : ~Unsettled(req[x])
      BY <2>2, <3>1 DEF Quiet
    <3>. QED BY <2>2, <3>2 DEF ThingsInv
  <2>. QED BY <2>1, <2>2 DEF ThingsInv, OneDefault, AtMostOne, AsksKept, Settled
<1>2. OnePhotoPerKind
  BY DEF ThingsInv, OnePhotoPerKind, KindsDistinct
<1>. QED BY <1>1, <1>2 DEF ThingsInv

-----------------------------------------------------------------------------
(* Catalogue *)

ServiceRow == [row : Existence, active : BOOLEAN, name : Name]
TypeRow == [row : Existence, of : 1..Services, active : BOOLEAN]
PackageRow == [row : Existence, of : 1..Types, active : BOOLEAN, price : Price]
OptionRow == [row : Existence, of : 1..Packages, active : BOOLEAN, price : Price]

OrderRow ==
  [row : {"absent", "present"}, service : 0..Services, ptype : 0..Types, package : 0..Packages,
   option : 0..Options, total : Nat, advance : Nat]

\* The rows that were ever inserted are in the same state, and below the same parent.
RowsKept(new, old) == \A i \in DOMAIN old : old[i].row # "absent" => new[i].row = old[i].row

PartsKept(new, old) ==
  \A i \in DOMAIN old : old[i].row # "absent" => new[i].row = old[i].row /\ new[i].of = old[i].of

\* They are never forgotten, and never change their parent.
PartsStay(new, old) ==
  \A i \in DOMAIN old : old[i].row # "absent" => new[i].row # "absent" /\ new[i].of = old[i].of

ShopKept == PartsStay(ptype', ptype) /\ PartsStay(package', package) /\ PartsStay(option', option)

\* The step of LastOptionStays, and that of QuoteWasReal.
ChoiceStays ==
  \A p \in Present(package) : Of(option, {p}) # {} /\ package'[p].row = "present" => Of(option', {p}) # {}

QuoteReal ==
  \A k \in 1..Orders : order[k].row = "absent" /\ order'[k].row = "present"
    => LET price == option[order'[k].option].price
           shown == previewPrice(order'[k].option)
           most == IF price % Paisa = 0 THEN 0 ELSE Rupee
       IN  /\ Within(order'[k].total, shown.total, most)
           /\ Within(order'[k].advance, shown.advance, most)
           /\ order'[k].advance <= order'[k].total

\* Every service that is there has the name it has in svc.
NamesFrom(new, svc) == \A s \in Present(new) : s \in Present(svc) /\ new[s].name = svc[s].name

LEMMA Inserted ==
  ASSUME NEW n, NEW R, NEW table \in [1..n -> R], NEW i \in NextRow(table, n), NEW row \in R
  PROVE  /\ Insert(table, i, row) \in [1..n -> R]
         /\ RowsKept(Insert(table, i, row), table) /\ PartsKept(Insert(table, i, row), table)
BY DEF NextRow, Insert, RowsKept, PartsKept

LEMMA Unmoved ==
  ASSUME NEW table
  PROVE  RowsKept(table, table) /\ PartsKept(table, table) /\ PartsStay(table, table)
BY DEF RowsKept, PartsKept, PartsStay

LEMMA UpdatedType ==
  ASSUME NEW n, NEW R, NEW table \in [1..n -> R], NEW i \in 1..n, NEW row \in R,
         row.row = table[i].row
  PROVE  /\ Updated(table, i, row) \in [1..n -> R]
         /\ RowsKept(Updated(table, i, row), table)
         /\ row.of = table[i].of => PartsKept(Updated(table, i, row), table)
BY DEF Updated, RowsKept, PartsKept

LEMMA RowsGo ==
  /\ \A row \in ServiceRow : [row EXCEPT !.row = "gone", !.active = FALSE] \in ServiceRow
  /\ \A row \in TypeRow : [row EXCEPT !.row = "gone", !.active = FALSE] \in TypeRow
  /\ \A row \in PackageRow : [row EXCEPT !.row = "gone", !.active = FALSE] \in PackageRow
  /\ \A row \in OptionRow : [row EXCEPT !.row = "gone", !.active = FALSE] \in OptionRow
<1>1. \A row \in ServiceRow : [row EXCEPT !.row = "gone", !.active = FALSE] \in ServiceRow
  BY DEF ServiceRow, Existence
<1>2. \A row \in TypeRow : [row EXCEPT !.row = "gone", !.active = FALSE] \in TypeRow
  BY DEF TypeRow, Existence
<1>3. \A row \in PackageRow : [row EXCEPT !.row = "gone", !.active = FALSE] \in PackageRow
  BY DEF PackageRow, Existence
<1>4. \A row \in OptionRow : [row EXCEPT !.row = "gone", !.active = FALSE] \in OptionRow
  BY DEF OptionRow, Existence
<1>. QED BY <1>1, <1>2, <1>3, <1>4

\* A table with parents, after its rows D are deleted: the others are as they were.
LEMMA PartsGo ==
  ASSUME NEW n, NEW R, NEW old \in [1..n -> R], NEW new \in [1..n -> R], NEW D, PartsKept(new, old),
         R = TypeRow \/ R = PackageRow \/ R = OptionRow
  PROVE  /\ Gone(new, D) \in [1..n -> R] /\ PartsStay(Gone(new, D), old)
         /\ \A E : Of(Gone(new, D), E) = Of(new, E) \ D
         /\ \A E : Of(old, E) \subseteq Of(new, E)
<1>1. \A row \in R : [row EXCEPT !.row = "gone", !.active = FALSE] \in R
  BY RowsGo
<1>2. \A row \in R : /\ [row EXCEPT !.row = "gone", !.active = FALSE].row = "gone"
                     /\ [row EXCEPT !.row = "gone", !.active = FALSE].of = row.of
  BY DEF TypeRow, PackageRow, OptionRow
<1>3. /\ Gone(new, D) \in [1..n -> R]
      /\ \A i \in 1..n : i \notin D => Gone(new, D)[i] = new[i]
      /\ \A i \in 1..n : i \in D =>
           Gone(new, D)[i] = [new[i] EXCEPT !.row = "gone", !.active = FALSE]
  <2>1. DOMAIN new = 1..n
    OBVIOUS
  <2>2. Gone(new, D) = [i \in 1..n |-> IF i \in D THEN [new[i] EXCEPT !.row = "gone", !.active = FALSE]
                                        ELSE new[i]]
    BY <2>1 DEF Gone
  <2>3. ASSUME NEW i \in 1..n
        PROVE  (IF i \in D THEN [new[i] EXCEPT !.row = "gone", !.active = FALSE] ELSE new[i]) \in R
    BY <1>1
  <2>. QED BY <2>2, <2>3
<1>4. ASSUME NEW i \in 1..n, i \in D PROVE Gone(new, D)[i].row = "gone" /\ Gone(new, D)[i].of = new[i].of
  <2>1. new[i] \in R /\ Gone(new, D)[i] = [new[i] EXCEPT !.row = "gone", !.active = FALSE]
    BY <1>3, <1>4
  <2>2. /\ [new[i] EXCEPT !.row = "gone", !.active = FALSE].row = "gone"
        /\ [new[i] EXCEPT !.row = "gone", !.active = FALSE].of = new[i].of
    BY <1>2, <2>1, Zenon
  <2>. QED BY <2>1, <2>2
<1>. DEFINE table == Gone(new, D)
<1>. HIDE DEF table
<1>5. /\ table \in [1..n -> R]
      /\ \A i \in 1..n : i \notin D => table[i] = new[i]
      /\ \A i \in 1..n : i \in D => table[i].row = "gone" /\ table[i].of = new[i].of
  BY <1>3, <1>4 DEF table
<1>6. PartsStay(table, old)
  BY <1>5 DEF PartsStay, PartsKept
<1>7. \A E : Of(table, E) = Of(new, E) \ D
  BY <1>5 DEF Of, Present
<1>8. \A E : Of(old, E) \subseteq Of(new, E)
  BY DEF Of, Present, PartsKept
<1>. QED BY <1>5, <1>6, <1>7, <1>8 DEF table

\* Services, after some are deleted.
LEMMA ServicesGo ==
  ASSUME NEW svc \in [1..Services -> ServiceRow], NEW S
  PROVE  /\ Gone(svc, S) \in [1..Services -> ServiceRow]
         /\ Present(Gone(svc, S)) = Present(svc) \ S
         /\ NamesFrom(Gone(svc, S), svc)
<1>1. DOMAIN svc = 1..Services
  OBVIOUS
<1>2. Gone(svc, S) = [s \in 1..Services |-> IF s \in S THEN [svc[s] EXCEPT !.row = "gone", !.active = FALSE]
                                            ELSE svc[s]]
  BY <1>1 DEF Gone
<1>3. ASSUME NEW s \in 1..Services
      PROVE  /\ Gone(svc, S)[s] \in ServiceRow /\ Gone(svc, S)[s].name = svc[s].name
             /\ Gone(svc, S)[s].row = IF s \in S THEN "gone" ELSE svc[s].row
  BY <1>2 DEF ServiceRow, Existence
<1>4. Gone(svc, S) \in [1..Services -> ServiceRow]
  BY <1>2, <1>3
<1>5. Present(Gone(svc, S)) = Present(svc) \ S
  BY <1>1, <1>3, <1>4 DEF Present
<1>6. NamesFrom(Gone(svc, S), svc)
  BY <1>3, <1>4, <1>5 DEF NamesFrom, Present
<1>. QED BY <1>4, <1>5, <1>6

ShopOps ==
  {"createService", "updateService", "serviceStatus", "removeService", "createType", "updateType",
   "removeType", "createPackage", "updatePackage", "removePackage", "createOption", "updateOption",
   "removeOption", "areaServices", "updateZone", "order"}

IsTree(tree) ==
  /\ tree.types \in SUBSET (1..Types) /\ tree.packages \in SUBSET (1..Packages)
  /\ tree.options \in SUBSET (1..Options)
  /\ tree.active \in Optional({FALSE}) /\ tree.price \in Price

\* What an order has found, row by row, belongs together, and stays so.
OrderHandler(h, typ, pkg, opt) ==
  /\ h \in [op : {"order"}, at : {"type", "package", "option", "area", "offer", "settings", "insert"},
            service : 1..Services, ptype : 1..Types, package : 1..Packages, option : 1..Options,
            zone : Zone, price : Nat, total : Nat, advance : Nat]
  /\ h.at # "type" => typ[h.ptype].row # "absent" /\ typ[h.ptype].of = h.service
  /\ h.at \notin {"type", "package"} => pkg[h.package].row # "absent" /\ pkg[h.package].of = h.ptype
  /\ h.at \notin {"type", "package", "option"} =>
       opt[h.option].row # "absent" /\ opt[h.option].of = h.package
  /\ h.advance <= h.total

\* What a handler has been given.
ShopHandler(h, typ, pkg, opt) ==
  /\ h.op = "createService" =>
       h.name \in Name /\ h.price \in Price /\ h.listed \in BOOLEAN /\ h.active \in BOOLEAN
  /\ h.op = "updateService" =>
       /\ h.service \in 1..Services /\ h.names \in Optional(Name) /\ h.active \in Optional(BOOLEAN)
       /\ \A tree \in h.trees : IsTree(tree)
  /\ h.op \in {"serviceStatus", "createType"} => h.service \in 1..Services /\ h.active \in BOOLEAN
  /\ h.op = "updateType" => h.ptype \in 1..Types /\ h.active \in BOOLEAN
  /\ h.op = "createPackage" => h.ptype \in 1..Types /\ h.price \in Price
  /\ h.op = "updatePackage" =>
       h.package \in 1..Packages /\ h.active \in Optional(BOOLEAN) /\ h.price \in Optional(Price)
  /\ h.op = "createOption" => h.package \in 1..Packages /\ h.price \in Price
  /\ h.op = "updateOption" =>
       h.option \in 1..Options /\ h.active \in Optional(BOOLEAN) /\ h.price \in Optional(Price)
  /\ h.op = "areaServices" =>
       h.zone \in Zone /\ h.services \in SUBSET (1..Services) /\ h.on \in BOOLEAN
  /\ h.op = "updateZone" =>
       /\ h.zone \in Zone /\ h.active \in Optional(BOOLEAN)
       /\ h.lists \in Optional(SUBSET (1..Services))
  /\ h.op = "order" => OrderHandler(h, typ, pkg, opt)

\* What it has checked, which holds until it writes if it is alone: no service
\* has the name it gives, another option is left, and the quote is that of now.
ShopChecked(h, svc, opt, percent) ==
  /\ h.op = "createService" => \A s \in Present(svc) : svc[s].name.word # h.name.word
  /\ h.op = "updateService" =>
       \A name \in h.names : \A s \in Present(svc) \ {h.service} : svc[s].name.word # name.word
  /\ h.op = "removeOption" => Of(opt, {opt[h.option].of}) # {h.option}
  /\ h.op = "order" =>
       /\ h.at \in {"area", "offer", "settings", "insert"} => h.price = opt[h.option].price
       /\ h.at = "insert" =>
            /\ h.total = TotalOf(h.price, percent.tax)
            /\ h.advance = AdvanceOf(h.total, percent.advance)

NamesDistinct(svc) ==
  \A s1, s2 \in Present(svc) : s1 # s2 => svc[s1].name.word # svc[s2].name.word

ShopInv ==
  /\ ShopTypeOK /\ OrderFollowsCatalogue
  /\ ~workload.overlap => NamesDistinct(service)
  /\ \A x \in Request : ShopHandler(req[x], ptype, package, option)
  /\ ~workload.overlap => \A x \in Request : ShopChecked(req[x], service, option, settings)

\* What a step never does.
ShopStays == ~workload.overlap => ChoiceStays /\ QuoteReal

\* What a step of one handler has to leave behind.
ShopLeft(h) ==
  /\ ShopTypeOK' /\ OrderFollowsCatalogue' /\ ShopKept /\ ShopStays
  /\ ~workload.overlap => NamesDistinct(service')
  /\ h # Idle =>
       /\ h.op \in ShopOps /\ ShopHandler(h, ptype', package', option')
       /\ ~workload.overlap => ShopChecked(h, service', option', settings')

LEMMA ShopHandlerStays ==
  ASSUME NEW h, ShopTypeOK, ShopHandler(h, ptype, package, option), ShopKept
  PROVE  ShopHandler(h, ptype', package', option')
<1>1. /\ DOMAIN ptype = 1..Types /\ DOMAIN package = 1..Packages /\ DOMAIN option = 1..Options
  BY DEF ShopTypeOK
<1>2. OrderHandler(h, ptype, package, option) => OrderHandler(h, ptype', package', option')
  BY <1>1 DEF OrderHandler, ShopKept, PartsStay
<1>. QED BY <1>2 DEF ShopHandler

LEMMA IdleShop ==
  ASSUME NEW h, h.op \notin ShopOps, NEW typ, NEW pkg, NEW opt, NEW svc, NEW percent
  PROVE  ShopHandler(h, typ, pkg, opt) /\ ShopChecked(h, svc, opt, percent)
BY DEF ShopHandler, ShopChecked, ShopOps

LEMMA ShopStep ==
  ASSUME ShopInv, RequestsOK, workload' = workload, NEW r \in Request,
         MayStart(r) \/ req[r].op \in ShopOps,
         NEW h, Awaits(r, h), ShopLeft(h)
  PROVE  ShopInv' /\ ShopStays /\ Moves(r, ShopOps)
<1>1. /\ req' = [x \in Request |-> req'[x]] /\ req'[r] = h
      /\ \A x \in Request : x # r => req'[x] = req[x]
  BY Awaited
<1>2. Moves(r, ShopOps)
  BY <1>1 DEF Moves, ShopLeft
<1>i. Idle.op \notin ShopOps
  BY DEF Idle, ShopOps
<1>3. ~workload.overlap => \A x \in Request : x # r => req'[x] = Idle
  BY <1>1, <1>i DEF RequestsOK, MayStart, Quiet
<1>4. ASSUME NEW x \in Request PROVE ShopHandler(req'[x], ptype', package', option')
  <2>1. CASE x # r
    BY <1>1, <2>1, ShopHandlerStays DEF ShopInv, ShopLeft
  <2>2. CASE x = r
    BY <1>1, <1>i, <2>2, IdleShop DEF ShopLeft
  <2>. QED BY <2>1, <2>2
<1>5. ASSUME NEW x \in Request, ~workload.overlap
      PROVE  ShopChecked(req'[x], service', option', settings')
  <2>1. CASE req'[x] = Idle
    BY <1>i, <2>1, IdleShop
  <2>2. CASE x = r /\ h # Idle
    BY <1>1, <1>5, <2>2 DEF ShopLeft
  <2>3. x # r => req'[x] = Idle
    BY <1>3, <1>5
  <2>4. x = r => req'[x] = h
    BY <1>1
  <2>. QED BY <2>1, <2>2, <2>3, <2>4
<1>. QED BY <1>2, <1>4, <1>5 DEF ShopInv, ShopLeft

\* A handler that starts, or goes on to its next query, and writes nothing.
LEMMA ShopReads ==
  ASSUME ShopInv, UNCHANGED shop, NEW h, h.op \in ShopOps,
         ShopHandler(h, ptype, package, option),
         ~workload.overlap => ShopChecked(h, service, option, settings)
  PROVE  ShopLeft(h)
<1>1. /\ service' = service /\ ptype' = ptype /\ package' = package /\ option' = option
      /\ settings' = settings /\ order' = order /\ offer' = offer /\ open' = open
  BY DEF shop
<1>2. ShopTypeOK' /\ OrderFollowsCatalogue'
  BY <1>1 DEF ShopInv, ShopTypeOK, OrderFollowsCatalogue
<1>3. ShopKept
  BY <1>1, Unmoved DEF ShopKept
<1>4. ShopStays
  BY <1>1 DEF ShopStays, ChoiceStays, QuoteReal
<1>5. ~workload.overlap => NamesDistinct(service')
  BY <1>1 DEF ShopInv
<1>. QED BY <1>1, <1>2, <1>3, <1>4, <1>5 DEF ShopLeft

LEMMA OptionalWithin ==
  ASSUME NEW R, NEW S \in SUBSET R
  PROVE  Optional(S) \subseteq Optional(R)
BY DEF Optional

LEMMA TreesType ==
  ASSUME ShopInv, RequestsOK, NEW s \in 1..Services, NEW trees \in Optional(Trees(s)), NEW tree \in trees
  PROVE  IsTree(tree)
<1>1. tree \in Trees(s)
  BY DEF Optional
<1>. DEFINE Branch(T, P) ==
       [types : {T}, packages : {P}, options : SUBSET Of(option, P), active : Optional({FALSE}),
        price : workload.prices, fresh : workload.fresh]
<1>2. tree \in UNION {UNION {Branch(T, P) : P \in SUBSET Of(package, T)} : T \in SUBSET Of(ptype, {s})}
  BY <1>1, Zenon DEF Trees
<1>. HIDE DEF Branch
<1>3. PICK T \in SUBSET Of(ptype, {s}) : \E P \in SUBSET Of(package, T) : tree \in Branch(T, P)
  BY <1>2
<1>4. PICK P \in SUBSET Of(package, T) : tree \in Branch(T, P)
  BY <1>3
<1>5. /\ tree.types = T /\ tree.packages = P /\ tree.options \in SUBSET Of(option, P)
      /\ tree.active \in Optional({FALSE}) /\ tree.price \in workload.prices
  BY <1>4 DEF Branch
<1>6. /\ Of(ptype, {s}) \subseteq 1..Types /\ Of(package, T) \subseteq 1..Packages
      /\ Of(option, P) \subseteq 1..Options
  BY DEF ShopInv, ShopTypeOK, Of, Present
<1>7. workload.prices \subseteq Price
  BY CatalogueAssumption DEF RequestsOK
<1>. QED BY <1>5, <1>6, <1>7 DEF IsTree

LEMMA ServiceBegins ==
  ASSUME ShopInv, RequestsOK, NEW r \in Request,
         \/ \E name \in workload.names, price \in workload.prices, listed, active \in BOOLEAN :
              CreateService(r, name, price, listed, active)
         \/ \E s \in 1..Services :
              \/ \E names \in Optional(workload.names), active \in Optional(workload.switches),
                    trees \in Optional(Trees(s)) : UpdateService(r, s, names, active, trees)
              \/ \E active \in BOOLEAN : UpdateServiceStatus(r, s, active) \/ CreateType(r, s, active)
              \/ RemoveService(r, s)
  PROVE  MayStart(r) /\ \E h : Awaits(r, h) /\ ShopLeft(h)
<1>w. /\ workload.names \subseteq Name /\ workload.prices \subseteq Price
      /\ workload.switches \subseteq BOOLEAN
  BY CatalogueAssumption DEF RequestsOK
<1>s. service \in [1..Services -> ServiceRow]
  BY DEF ShopInv, ShopTypeOK, ServiceRow
<1>1. MayStart(r)
  BY DEF CreateService, UpdateService, UpdateServiceStatus, CreateType, RemoveService, Arrives
<1>2. ASSUME NEW name \in workload.names, NEW price \in workload.prices,
             NEW listed \in BOOLEAN, NEW active \in BOOLEAN, CreateService(r, name, price, listed, active)
      PROVE  \E h : Awaits(r, h) /\ ShopLeft(h)
  <2>. DEFINE h == [op |-> "createService", name |-> name, price |-> price,
                    listed |-> listed, active |-> active]
  <2>1. Awaits(r, h) /\ UNCHANGED shop /\ ~NameTaken(name, {})
    BY <1>2 DEF CreateService
  <2>2. h.op \in ShopOps /\ ShopHandler(h, ptype, package, option)
    BY <1>w DEF ShopHandler, ShopOps
  <2>3. ShopChecked(h, service, option, settings)
    BY <2>1 DEF ShopChecked, NameTaken, SameName
  <2>. HIDE DEF h
  <2>4. ShopLeft(h)
    BY <2>1, <2>2, <2>3, ShopReads
  <2>. QED BY <2>1, <2>4
<1>3. ASSUME NEW s \in 1..Services, NEW names \in Optional(workload.names),
             NEW active \in Optional(workload.switches), NEW trees \in Optional(Trees(s)),
             UpdateService(r, s, names, active, trees)
      PROVE  \E h : Awaits(r, h) /\ ShopLeft(h)
  <2>. DEFINE h == [op |-> "updateService", service |-> s, names |-> names, active |-> active,
                    trees |-> trees]
  <2>1. Awaits(r, h) /\ UNCHANGED shop /\ \A name \in names : ~NameTaken(name, {s})
    BY <1>3 DEF UpdateService
  <2>2. /\ names \in Optional(Name) /\ active \in Optional(BOOLEAN)
        /\ \A tree \in trees : IsTree(tree)
    BY <1>w, OptionalWithin, TreesType
  <2>3. h.op \in ShopOps /\ ShopHandler(h, ptype, package, option)
    BY <2>2 DEF ShopHandler, ShopOps
  <2>4. ShopChecked(h, service, option, settings)
    BY <2>1 DEF ShopChecked, NameTaken, SameName
  <2>. HIDE DEF h
  <2>5. ShopLeft(h)
    BY <2>1, <2>3, <2>4, ShopReads
  <2>. QED BY <2>1, <2>5
<1>4. ASSUME NEW s \in 1..Services, NEW active \in BOOLEAN,
             UpdateServiceStatus(r, s, active) \/ CreateType(r, s, active)
      PROVE  \E h : Awaits(r, h) /\ ShopLeft(h)
  <2>1. UNCHANGED shop /\ \E op \in {"serviceStatus", "createType"} :
          Awaits(r, [op |-> op, service |-> s, active |-> active])
    BY <1>4 DEF UpdateServiceStatus, CreateType
  <2>2. PICK op \in {"serviceStatus", "createType"} :
          Awaits(r, [op |-> op, service |-> s, active |-> active])
    BY <2>1
  <2>. DEFINE h == [op |-> op, service |-> s, active |-> active]
  <2>3. h.op \in ShopOps /\ ShopHandler(h, ptype, package, option)
    BY DEF ShopHandler, ShopOps
  <2>4. ShopChecked(h, service, option, settings)
    BY DEF ShopChecked
  <2>5. Awaits(r, h)
    BY <2>2
  <2>. HIDE DEF h
  <2>6. ShopLeft(h)
    BY <2>1, <2>3, <2>4, ShopReads
  <2>. QED BY <2>5, <2>6
<1>5. ASSUME NEW s \in 1..Services, RemoveService(r, s)
      PROVE  \E h : Awaits(r, h) /\ ShopLeft(h)
  <2>. DEFINE h == [op |-> "removeService", service |-> s]
  <2>1. Awaits(r, h) /\ UNCHANGED shop
    BY <1>5 DEF RemoveService
  <2>2. /\ h.op \in ShopOps /\ ShopHandler(h, ptype, package, option)
        /\ ShopChecked(h, service, option, settings)
    BY DEF ShopHandler, ShopChecked, ShopOps
  <2>. HIDE DEF h
  <2>3. ShopLeft(h)
    BY <2>1, <2>2, ShopReads
  <2>. QED BY <2>1, <2>3
<1>. QED BY <1>1, <1>2, <1>3, <1>4, <1>5

LEMMA PartBegins ==
  ASSUME ShopInv, RequestsOK, NEW r \in Request,
         \/ \E t \in 1..Types :
              \/ \E active \in BOOLEAN : UpdateType(r, t, active)
              \/ RemoveType(r, t)
              \/ \E price \in workload.prices : CreatePackage(r, t, price)
         \/ \E p \in 1..Packages :
              \/ \E active \in Optional(BOOLEAN), price \in Optional(workload.prices) :
                   UpdatePackage(r, p, active, price)
              \/ RemovePackage(r, p)
              \/ \E price \in workload.prices : CreateOption(r, p, price)
         \/ \E o \in 1..Options :
              \/ \E active \in Optional(BOOLEAN), price \in Optional(workload.prices) :
                   UpdateOption(r, o, active, price)
              \/ RemoveOption(r, o)
  PROVE  MayStart(r) /\ \E h : Awaits(r, h) /\ ShopLeft(h)
<1>w. workload.prices \subseteq Price /\ Optional(workload.prices) \subseteq Optional(Price)
  BY CatalogueAssumption, OptionalWithin DEF RequestsOK
<1>1. MayStart(r) /\ UNCHANGED shop
  BY DEF UpdateType, RemoveType, CreatePackage, UpdatePackage, RemovePackage, CreateOption, UpdateOption,
         RemoveOption, Arrives
<1>2. ASSUME NEW t \in 1..Types, NEW active \in BOOLEAN, UpdateType(r, t, active)
      PROVE  \E h : Awaits(r, h) /\ ShopLeft(h)
  <2>. DEFINE h == [op |-> "updateType", ptype |-> t, active |-> active]
  <2>1. Awaits(r, h)
    BY <1>2 DEF UpdateType
  <2>2. /\ h.op \in ShopOps /\ ShopHandler(h, ptype, package, option)
        /\ ShopChecked(h, service, option, settings)
    BY DEF ShopHandler, ShopChecked, ShopOps
  <2>. HIDE DEF h
  <2>. QED BY <1>1, <2>1, <2>2, ShopReads
<1>3. ASSUME NEW t \in 1..Types, RemoveType(r, t)
      PROVE  \E h : Awaits(r, h) /\ ShopLeft(h)
  <2>. DEFINE h == [op |-> "removeType", ptype |-> t]
  <2>1. Awaits(r, h)
    BY <1>3 DEF RemoveType
  <2>2. /\ h.op \in ShopOps /\ ShopHandler(h, ptype, package, option)
        /\ ShopChecked(h, service, option, settings)
    BY DEF ShopHandler, ShopChecked, ShopOps
  <2>. HIDE DEF h
  <2>. QED BY <1>1, <2>1, <2>2, ShopReads
<1>4. ASSUME NEW t \in 1..Types, NEW price \in workload.prices, CreatePackage(r, t, price)
      PROVE  \E h : Awaits(r, h) /\ ShopLeft(h)
  <2>. DEFINE h == [op |-> "createPackage", ptype |-> t, price |-> price]
  <2>1. Awaits(r, h)
    BY <1>4 DEF CreatePackage
  <2>2. /\ h.op \in ShopOps /\ ShopHandler(h, ptype, package, option)
        /\ ShopChecked(h, service, option, settings)
    BY <1>w DEF ShopHandler, ShopChecked, ShopOps
  <2>. HIDE DEF h
  <2>. QED BY <1>1, <2>1, <2>2, ShopReads
<1>5. ASSUME NEW p \in 1..Packages, NEW active \in Optional(BOOLEAN), NEW price \in Optional(workload.prices),
             UpdatePackage(r, p, active, price)
      PROVE  \E h : Awaits(r, h) /\ ShopLeft(h)
  <2>. DEFINE h == [op |-> "updatePackage", package |-> p, active |-> active, price |-> price]
  <2>1. Awaits(r, h)
    BY <1>5 DEF UpdatePackage
  <2>2. /\ h.op \in ShopOps /\ ShopHandler(h, ptype, package, option)
        /\ ShopChecked(h, service, option, settings)
    BY <1>w DEF ShopHandler, ShopChecked, ShopOps
  <2>. HIDE DEF h
  <2>. QED BY <1>1, <2>1, <2>2, ShopReads
<1>6. ASSUME NEW p \in 1..Packages, RemovePackage(r, p)
      PROVE  \E h : Awaits(r, h) /\ ShopLeft(h)
  <2>. DEFINE h == [op |-> "removePackage", package |-> p]
  <2>1. Awaits(r, h)
    BY <1>6 DEF RemovePackage
  <2>2. /\ h.op \in ShopOps /\ ShopHandler(h, ptype, package, option)
        /\ ShopChecked(h, service, option, settings)
    BY DEF ShopHandler, ShopChecked, ShopOps
  <2>. HIDE DEF h
  <2>. QED BY <1>1, <2>1, <2>2, ShopReads
<1>7. ASSUME NEW p \in 1..Packages, NEW price \in workload.prices, CreateOption(r, p, price)
      PROVE  \E h : Awaits(r, h) /\ ShopLeft(h)
  <2>. DEFINE h == [op |-> "createOption", package |-> p, price |-> price]
  <2>1. Awaits(r, h)
    BY <1>7 DEF CreateOption
  <2>2. /\ h.op \in ShopOps /\ ShopHandler(h, ptype, package, option)
        /\ ShopChecked(h, service, option, settings)
    BY <1>w DEF ShopHandler, ShopChecked, ShopOps
  <2>. HIDE DEF h
  <2>. QED BY <1>1, <2>1, <2>2, ShopReads
<1>8. ASSUME NEW o \in 1..Options, NEW active \in Optional(BOOLEAN), NEW price \in Optional(workload.prices),
             UpdateOption(r, o, active, price)
      PROVE  \E h : Awaits(r, h) /\ ShopLeft(h)
  <2>. DEFINE h == [op |-> "updateOption", option |-> o, active |-> active, price |-> price]
  <2>1. Awaits(r, h)
    BY <1>8 DEF UpdateOption
  <2>2. /\ h.op \in ShopOps /\ ShopHandler(h, ptype, package, option)
        /\ ShopChecked(h, service, option, settings)
    BY <1>w DEF ShopHandler, ShopChecked, ShopOps
  <2>. HIDE DEF h
  <2>. QED BY <1>1, <2>1, <2>2, ShopReads
<1>9. ASSUME NEW o \in 1..Options, RemoveOption(r, o)
      PROVE  \E h : Awaits(r, h) /\ ShopLeft(h)
  <2>. DEFINE h == [op |-> "removeOption", option |-> o]
  <2>1. Awaits(r, h) /\ Of(option, {option[o].of}) # {o}
    BY <1>9 DEF RemoveOption
  <2>2. /\ h.op \in ShopOps /\ ShopHandler(h, ptype, package, option)
        /\ ShopChecked(h, service, option, settings)
    BY <2>1 DEF ShopHandler, ShopChecked, ShopOps
  <2>. HIDE DEF h
  <2>. QED BY <1>1, <2>1, <2>2, ShopReads
<1>. QED BY <1>1, <1>2, <1>3, <1>4, <1>5, <1>6, <1>7, <1>8, <1>9

LEMMA AreaBegins ==
  ASSUME ShopInv, RequestsOK, NEW r \in Request, NEW z \in Zone,
         \/ \E S \in SUBSET (1..Services), on \in BOOLEAN : SetAreaServices(r, z, S, on)
         \/ \E active \in Optional(BOOLEAN), lists \in Optional(SUBSET (1..Services)) :
              UpdateZone(r, z, active, lists)
         \/ \E s \in 1..Services, t \in 1..Types, p \in 1..Packages, o \in 1..Options :
              PlaceOrder(r, s, t, p, o, z)
  PROVE  MayStart(r) /\ \E h : Awaits(r, h) /\ ShopLeft(h)
<1>1. MayStart(r) /\ UNCHANGED shop
  BY DEF SetAreaServices, UpdateZone, PlaceOrder, Arrives
<1>2. ASSUME NEW S \in SUBSET (1..Services), NEW on \in BOOLEAN, SetAreaServices(r, z, S, on)
      PROVE  \E h : Awaits(r, h) /\ ShopLeft(h)
  <2>. DEFINE h == [op |-> "areaServices", zone |-> z, services |-> S, on |-> on]
  <2>1. Awaits(r, h)
    BY <1>2 DEF SetAreaServices
  <2>2. /\ h.op \in ShopOps /\ ShopHandler(h, ptype, package, option)
        /\ ShopChecked(h, service, option, settings)
    BY DEF ShopHandler, ShopChecked, ShopOps
  <2>. HIDE DEF h
  <2>. QED BY <1>1, <2>1, <2>2, ShopReads
<1>3. ASSUME NEW active \in Optional(BOOLEAN), NEW lists \in Optional(SUBSET (1..Services)),
             UpdateZone(r, z, active, lists)
      PROVE  \E h : Awaits(r, h) /\ ShopLeft(h)
  <2>. DEFINE h == [op |-> "updateZone", zone |-> z, active |-> active, lists |-> lists]
  <2>1. Awaits(r, h)
    BY <1>3 DEF UpdateZone
  <2>2. /\ h.op \in ShopOps /\ ShopHandler(h, ptype, package, option)
        /\ ShopChecked(h, service, option, settings)
    BY DEF ShopHandler, ShopChecked, ShopOps
  <2>. HIDE DEF h
  <2>. QED BY <1>1, <2>1, <2>2, ShopReads
<1>4. ASSUME NEW s \in 1..Services, NEW t \in 1..Types, NEW p \in 1..Packages, NEW o \in 1..Options,
             PlaceOrder(r, s, t, p, o, z)
      PROVE  \E h : Awaits(r, h) /\ ShopLeft(h)
  <2>. DEFINE h == [op |-> "order", at |-> "type", service |-> s, ptype |-> t, package |-> p,
                    option |-> o, zone |-> z, price |-> 0, total |-> 0, advance |-> 0]
  <2>1. Awaits(r, h)
    BY <1>4 DEF PlaceOrder
  <2>2. OrderHandler(h, ptype, package, option) /\ h.op = "order" /\ h.at = "type"
    BY DEF OrderHandler
  <2>. HIDE DEF h
  <2>3. /\ h.op \in ShopOps /\ ShopHandler(h, ptype, package, option)
        /\ ShopChecked(h, service, option, settings)
    BY <2>2 DEF ShopHandler, ShopChecked, ShopOps
  <2>. QED BY <1>1, <2>1, <2>3, ShopReads
<1>. QED BY <1>1, <1>2, <1>3, <1>4

\* A transaction deletes no row an order is made of, nor the last option of a
\* package that stays, if those it deletes by name are not the last ones.
LEMMA ShopCommits ==
  ASSUME ShopInv,
         NEW svc \in [1..Services -> ServiceRow], RowsKept(svc, service),
         NEW typ \in [1..Types -> TypeRow], PartsKept(typ, ptype),
         NEW pkg \in [1..Packages -> PackageRow], PartsKept(pkg, package),
         NEW opt \in [1..Options -> OptionRow], PartsKept(opt, option),
         NEW S, NEW T, NEW P, NEW O,
         Commit(svc, typ, pkg, opt, S, T, P, O), UNCHANGED <<open, settings>>,
         ~workload.overlap => NamesDistinct(svc),
         ~workload.overlap =>
           \A p \in Present(package) : Of(option, {p}) # {} => Of(opt, {p}) \ O # {}
  PROVE  ShopLeft(Idle)
<1>i. ShopTypeOK /\ OrderFollowsCatalogue /\ (~workload.overlap => NamesDistinct(service))
  BY DEF ShopInv
<1>. DEFINE T2 == T \union Of(typ, S)
            P2 == P \union Of(pkg, T2)
            O2 == O \union Of(opt, P2)
            held == {k \in Present(order) :
                       order[k].service \in S \/ order[k].ptype \in T2 \/ order[k].package \in P2}
<1>t. /\ service \in [1..Services -> ServiceRow] /\ ptype \in [1..Types -> TypeRow]
      /\ package \in [1..Packages -> PackageRow] /\ option \in [1..Options -> OptionRow]
      /\ order \in [1..Orders -> OrderRow]
  BY <1>i DEF ShopTypeOK, ServiceRow, TypeRow, PackageRow, OptionRow, OrderRow
<1>1. CASE held # {}
  <2>1. UNCHANGED <<service, ptype, package, option, offer, order>>
    BY <1>1 DEF Commit
  <2>2. ShopTypeOK' /\ OrderFollowsCatalogue' /\ ShopKept
    BY <1>i, <2>1, Unmoved DEF ShopTypeOK, OrderFollowsCatalogue, ShopKept
  <2>3. QuoteReal /\ ChoiceStays
    BY <2>1 DEF QuoteReal, ChoiceStays
  <2>4. ~workload.overlap => NamesDistinct(service')
    BY <1>i, <2>1
  <2>. QED BY <2>2, <2>3, <2>4 DEF ShopLeft, ShopStays
<1>2. CASE held = {}
  <2>1. /\ service' = Gone(svc, S) /\ ptype' = Gone(typ, T2)
        /\ package' = Gone(pkg, P2) /\ option' = Gone(opt, O2)
        /\ offer' = [z \in Zone |->
                       [s \in 1..Services |-> IF s \in S THEN "unset" ELSE offer[z][s]]]
        /\ order' = [k \in 1..Orders |->
                       IF order[k].option \in O2 THEN [order[k] EXCEPT !.option = 0] ELSE order[k]]
    BY <1>2 DEF Commit
  <2>k. \A k \in Present(order) :
          order[k].service \notin S /\ order[k].ptype \notin T2 /\ order[k].package \notin P2
    BY <1>2
  <2>o. O2 = O \union Of(opt, P2)
    OBVIOUS
  <2>. HIDE DEF T2, P2, O2
  <2>2. /\ service' \in [1..Services -> ServiceRow]
        /\ Present(service') = Present(svc) \ S
        /\ NamesFrom(service', svc)
    <3>1. /\ Gone(svc, S) \in [1..Services -> ServiceRow]
          /\ Present(Gone(svc, S)) = Present(svc) \ S
          /\ NamesFrom(Gone(svc, S), svc)
      BY ServicesGo
    <3>2. service' = Gone(svc, S)
      BY <2>1
    <3>. QED BY <3>1, <3>2, Zenon
  <2>3. /\ ptype' \in [1..Types -> TypeRow] /\ PartsStay(ptype', ptype)
        /\ \A E : Of(ptype', E) = Of(typ, E) \ T2
        /\ \A E : Of(ptype, E) \subseteq Of(typ, E)
    <3>1. /\ Gone(typ, T2) \in [1..Types -> TypeRow] /\ PartsStay(Gone(typ, T2), ptype)
          /\ \A E : Of(Gone(typ, T2), E) = Of(typ, E) \ T2
          /\ \A E : Of(ptype, E) \subseteq Of(typ, E)
      BY <1>t, PartsGo
    <3>2. ptype' = Gone(typ, T2)
      BY <2>1
    <3>. QED BY <3>1, <3>2, Zenon
  <2>4. /\ package' \in [1..Packages -> PackageRow] /\ PartsStay(package', package)
        /\ \A E : Of(package', E) = Of(pkg, E) \ P2
        /\ \A E : Of(package, E) \subseteq Of(pkg, E)
    <3>1. /\ Gone(pkg, P2) \in [1..Packages -> PackageRow] /\ PartsStay(Gone(pkg, P2), package)
          /\ \A E : Of(Gone(pkg, P2), E) = Of(pkg, E) \ P2
          /\ \A E : Of(package, E) \subseteq Of(pkg, E)
      BY <1>t, PartsGo
    <3>2. package' = Gone(pkg, P2)
      BY <2>1
    <3>. QED BY <3>1, <3>2, Zenon
  <2>5. /\ option' \in [1..Options -> OptionRow] /\ PartsStay(option', option)
        /\ \A E : Of(option', E) = Of(opt, E) \ O2
        /\ \A E : Of(option, E) \subseteq Of(opt, E)
    <3>1. /\ Gone(opt, O2) \in [1..Options -> OptionRow] /\ PartsStay(Gone(opt, O2), option)
          /\ \A E : Of(Gone(opt, O2), E) = Of(opt, E) \ O2
          /\ \A E : Of(option, E) \subseteq Of(opt, E)
      BY <1>t, PartsGo
    <3>2. option' = Gone(opt, O2)
      BY <2>1
    <3>. QED BY <3>1, <3>2, Zenon
  <2>6. /\ order' \in [1..Orders -> OrderRow] /\ Present(order') = Present(order)
        /\ \A k \in 1..Orders :
             /\ order'[k].row = order[k].row /\ order'[k].service = order[k].service
             /\ order'[k].ptype = order[k].ptype /\ order'[k].package = order[k].package
             /\ order'[k].option = IF order[k].option \in O2 THEN 0 ELSE order[k].option
    <3>1. ASSUME NEW k \in 1..Orders
          PROVE  /\ order'[k] \in OrderRow
                 /\ order'[k].row = order[k].row /\ order'[k].service = order[k].service
                 /\ order'[k].ptype = order[k].ptype /\ order'[k].package = order[k].package
                 /\ order'[k].option = IF order[k].option \in O2 THEN 0 ELSE order[k].option
      <4>1. order[k] \in OrderRow
        BY <1>t
      <4>2. CASE order[k].option \in O2
        <5>1. order'[k] = [order[k] EXCEPT !.option = 0]
          BY <2>1, <4>2
        <5>2. 0 \in 0..Options
          BY CatalogueAssumption
        <5>. QED BY <4>1, <4>2, <5>1, <5>2 DEF OrderRow
      <4>3. CASE order[k].option \notin O2
        BY <2>1, <4>1, <4>3
      <4>. QED BY <4>2, <4>3
    <3>2. order' \in [1..Orders -> OrderRow]
      BY <2>1, <3>1
    <3>3. Present(order') = Present(order)
      BY <1>t, <3>1, <3>2 DEF Present
    <3>. QED BY <3>1, <3>2, <3>3
  <2>7. offer' \in [Zone -> [1..Services -> {"unset", "on", "off"}]]
    BY <1>i, <2>1 DEF ShopTypeOK
  <2>8. ShopTypeOK'
    BY <1>i, <2>1, <2>2, <2>3, <2>4, <2>5, <2>6, <2>7
       DEF ShopTypeOK, ServiceRow, TypeRow, PackageRow, OptionRow, OrderRow
  <2>9. OrderFollowsCatalogue'
    <3>. SUFFICES ASSUME NEW k \in Present(order)
                  PROVE  /\ order'[k].service \in Present(service')
                         /\ order'[k].ptype \in Of(ptype', {order'[k].service})
                         /\ order'[k].package \in Of(package', {order'[k].ptype})
                         /\ order'[k].option # 0 => order'[k].option \in Of(option', {order'[k].package})
      BY <2>6 DEF OrderFollowsCatalogue
    <3>1. k \in 1..Orders
      BY <1>t DEF Present
    <3>2. /\ order[k].service \in Present(service)
          /\ order[k].ptype \in Of(ptype, {order[k].service})
          /\ order[k].package \in Of(package, {order[k].ptype})
          /\ order[k].option # 0 => order[k].option \in Of(option, {order[k].package})
      BY <1>i DEF OrderFollowsCatalogue
    <3>3. order[k].service \in Present(svc)
      BY <1>t, <3>2 DEF Present, RowsKept
    <3>4. order'[k].service \in Present(service')
      BY <2>k, <2>2, <2>6, <3>1, <3>3
    <3>5. order'[k].ptype \in Of(ptype', {order'[k].service})
      <4>1. order[k].ptype \in Of(ptype', {order[k].service})
        BY <2>k, <2>3, <3>2
      <4>. QED BY <2>6, <3>1, <4>1
    <3>6. order'[k].package \in Of(package', {order'[k].ptype})
      <4>1. order[k].package \in Of(package', {order[k].ptype})
        BY <2>k, <2>4, <3>2
      <4>. QED BY <2>6, <3>1, <4>1
    <3>7. order'[k].option # 0 => order'[k].option \in Of(option', {order'[k].package})
      <4>1. order[k].option # 0 /\ order[k].option \notin O2 =>
              order[k].option \in Of(option', {order[k].package})
        BY <2>5, <3>2
      <4>. QED BY <2>6, <3>1, <4>1
    <3>. QED BY <3>4, <3>5, <3>6, <3>7
  <2>10. ShopKept
    BY <2>3, <2>4, <2>5 DEF ShopKept
  <2>11. QuoteReal
    BY <1>t, <2>6 DEF QuoteReal
  <2>12. ASSUME ~workload.overlap PROVE ChoiceStays
    <3>. SUFFICES ASSUME NEW p \in Present(package), Of(option, {p}) # {}, package'[p].row = "present"
                  PROVE  Of(option', {p}) # {}
      BY DEF ChoiceStays
    <3>1. p \in 1..Packages
      BY <1>t DEF Present
    <3>2. p \in Of(package', {package'[p].of})
      BY <2>4, <3>1 DEF Of, Present
    <3>3. p \notin P2
      BY <2>4, <3>2
    <3>4. Of(opt, P2) \intersect Of(opt, {p}) = {}
      BY <3>3 DEF Of
    <3>5. Of(opt, {p}) \ O # {}
      BY <2>12
    <3>. QED BY <2>5, <2>o, <3>4, <3>5
  <2>13. ~workload.overlap => NamesDistinct(service')
    BY <2>2 DEF NamesDistinct, NamesFrom
  <2>14. ShopStays
    BY <2>11, <2>12 DEF ShopStays
  <2>. QED BY <2>8, <2>9, <2>10, <2>13, <2>14 DEF ShopLeft
<1>. QED BY <1>1, <1>2

\* The same, where no option is deleted by name.
LEMMA ShopSaves ==
  ASSUME ShopInv,
         NEW svc \in [1..Services -> ServiceRow], RowsKept(svc, service),
         NEW typ \in [1..Types -> TypeRow], PartsKept(typ, ptype),
         NEW pkg \in [1..Packages -> PackageRow], PartsKept(pkg, package),
         NEW opt \in [1..Options -> OptionRow], PartsKept(opt, option),
         NEW S, NEW T, NEW P,
         Commit(svc, typ, pkg, opt, S, T, P, {}), UNCHANGED <<open, settings>>,
         ~workload.overlap => NamesDistinct(svc)
  PROVE  ShopLeft(Idle)
<1>1. DOMAIN option = 1..Options /\ DOMAIN opt = 1..Options
  BY DEF ShopInv, ShopTypeOK
<1>2. \A p : Of(option, {p}) \subseteq Of(opt, {p})
  BY <1>1 DEF Of, Present, PartsKept
<1>3. \A p \in Present(package) : Of(option, {p}) # {} => Of(opt, {p}) \ {} # {}
  BY <1>2
<1>. QED BY <1>3, ShopCommits

LEMMA TablesNow ==
  ASSUME ShopInv
  PROVE  /\ service \in [1..Services -> ServiceRow] /\ RowsKept(service, service)
         /\ ptype \in [1..Types -> TypeRow] /\ PartsKept(ptype, ptype)
         /\ package \in [1..Packages -> PackageRow] /\ PartsKept(package, package)
         /\ option \in [1..Options -> OptionRow] /\ PartsKept(option, option)
         /\ ~workload.overlap => NamesDistinct(service)
BY Unmoved DEF ShopInv, ShopTypeOK, ServiceRow, TypeRow, PackageRow, OptionRow

LEMMA ServiceRemoved ==
  ASSUME ShopInv, RequestsOK, NEW r \in Request,
         RemoveServiceWrite(r) \/ RemoveTypeWrite(r) \/ RemovePackageWrite(r)
  PROVE  req[r].op \in ShopOps /\ Awaits(r, Idle) /\ ShopLeft(Idle)
<1>1. /\ req[r].op \in ShopOps /\ Awaits(r, Idle) /\ UNCHANGED <<open, settings>>
      /\ \E S, T, P : Commit(service, ptype, package, option, S, T, P, {})
  BY DEF RemoveServiceWrite, RemoveTypeWrite, RemovePackageWrite, Reply, Awaits, Resumes, ShopOps
<1>2. ShopLeft(Idle)
  BY <1>1, TablesNow, ShopSaves
<1>. QED BY <1>1, <1>2

LEMMA OptionRemoved ==
  ASSUME ShopInv, RequestsOK, NEW r \in Request, RemoveOptionWrite(r)
  PROVE  req[r].op \in ShopOps /\ Awaits(r, Idle) /\ ShopLeft(Idle)
<1>. DEFINE O == {req[r].option} \intersect Present(option)
<1>1. /\ req[r].op = "removeOption" /\ req[r].op \in ShopOps /\ Awaits(r, Idle)
      /\ UNCHANGED <<open, settings>> /\ Commit(service, ptype, package, option, {}, {}, {}, O)
  BY DEF RemoveOptionWrite, Reply, Awaits, Resumes, ShopOps
<1>2. ASSUME ~workload.overlap, NEW p \in Present(package), Of(option, {p}) # {}
      PROVE  Of(option, {p}) \ O # {}
  <2>1. Of(option, {option[req[r].option].of}) # {req[r].option}
    BY <1>1, <1>2 DEF ShopInv, ShopChecked
  <2>2. CASE req[r].option \in Of(option, {p})
    BY <1>2, <2>1, <2>2 DEF Of
  <2>3. CASE req[r].option \notin Of(option, {p})
    BY <1>2, <2>3
  <2>. QED BY <2>2, <2>3
<1>. HIDE DEF O
<1>3. ShopLeft(Idle)
  BY <1>1, <1>2, TablesNow, ShopCommits
<1>. QED BY <1>1, <1>3

LEMMA PartCreated ==
  ASSUME ShopInv, RequestsOK, NEW r \in Request,
         CreateTypeWrite(r) \/ CreatePackageWrite(r) \/ CreateOptionWrite(r)
  PROVE  req[r].op \in ShopOps /\ Awaits(r, Idle) /\ ShopLeft(Idle)
<1>1. req[r].op \in ShopOps /\ Awaits(r, Idle) /\ UNCHANGED <<open, settings>>
  BY DEF CreateTypeWrite, CreatePackageWrite, CreateOptionWrite, Reply, Awaits, Resumes, ShopOps
<1>h. ShopHandler(req[r], ptype, package, option)
  BY DEF ShopInv
<1>t. /\ service \in [1..Services -> ServiceRow] /\ RowsKept(service, service)
      /\ ptype \in [1..Types -> TypeRow] /\ PartsKept(ptype, ptype)
      /\ package \in [1..Packages -> PackageRow] /\ PartsKept(package, package)
      /\ option \in [1..Options -> OptionRow] /\ PartsKept(option, option)
      /\ ~workload.overlap => NamesDistinct(service)
  BY TablesNow
<1>2. CASE CreateTypeWrite(r)
  <2>. DEFINE new == [row |-> "present", of |-> req[r].service, active |-> req[r].active]
  <2>1. PICK t \in NextRow(ptype, Types) :
          Saves(service, IF req[r].service \in Present(service) THEN Insert(ptype, t, new) ELSE ptype,
                package, option)
    BY <1>2 DEF CreateTypeWrite
  <2>2. new \in TypeRow
    BY <1>2, <1>h DEF CreateTypeWrite, Resumes, ShopHandler, TypeRow, Existence
  <2>. DEFINE typ == IF req[r].service \in Present(service) THEN Insert(ptype, t, new) ELSE ptype
  <2>3. Saves(service, typ, package, option)
    BY <2>1
  <2>. HIDE DEF new
  <2>4. typ \in [1..Types -> TypeRow] /\ PartsKept(typ, ptype)
    BY <1>t, <2>2, Inserted
  <2>. HIDE DEF typ
  <2>. QED BY <1>1, <1>t, <2>3, <2>4, ShopSaves DEF Saves
<1>3. CASE CreatePackageWrite(r)
  <2>. DEFINE new == [row |-> "present", of |-> req[r].ptype, active |-> TRUE, price |-> req[r].price]
  <2>1. PICK p \in NextRow(package, Packages) :
          Saves(service, ptype, IF req[r].ptype \in Present(ptype) THEN Insert(package, p, new) ELSE package,
                option)
    BY <1>3 DEF CreatePackageWrite
  <2>2. new \in PackageRow
    BY <1>3, <1>h DEF CreatePackageWrite, Resumes, ShopHandler, PackageRow, Existence
  <2>. DEFINE pkg == IF req[r].ptype \in Present(ptype) THEN Insert(package, p, new) ELSE package
  <2>3. Saves(service, ptype, pkg, option)
    BY <2>1
  <2>. HIDE DEF new
  <2>4. pkg \in [1..Packages -> PackageRow] /\ PartsKept(pkg, package)
    BY <1>t, <2>2, Inserted
  <2>. HIDE DEF pkg
  <2>. QED BY <1>1, <1>t, <2>3, <2>4, ShopSaves DEF Saves
<1>4. CASE CreateOptionWrite(r)
  <2>. DEFINE new == [row |-> "present", of |-> req[r].package, active |-> TRUE, price |-> req[r].price]
  <2>1. PICK o \in NextRow(option, Options) :
          Saves(service, ptype, package,
                IF req[r].package \in Present(package) THEN Insert(option, o, new) ELSE option)
    BY <1>4 DEF CreateOptionWrite
  <2>2. new \in OptionRow
    BY <1>4, <1>h DEF CreateOptionWrite, Resumes, ShopHandler, OptionRow, Existence
  <2>. DEFINE opt == IF req[r].package \in Present(package) THEN Insert(option, o, new) ELSE option
  <2>3. Saves(service, ptype, package, opt)
    BY <2>1
  <2>. HIDE DEF new
  <2>4. opt \in [1..Options -> OptionRow] /\ PartsKept(opt, option)
    BY <1>t, <2>2, Inserted
  <2>. HIDE DEF opt
  <2>. QED BY <1>1, <1>t, <2>3, <2>4, ShopSaves DEF Saves
<1>. QED BY <1>2, <1>3, <1>4

LEMMA PartUpdated ==
  ASSUME ShopInv, RequestsOK, NEW r \in Request,
         \/ UpdateServiceStatusWrite(r) \/ UpdateTypeWrite(r) \/ UpdatePackageWrite(r)
         \/ UpdateOptionWrite(r)
  PROVE  req[r].op \in ShopOps /\ Awaits(r, Idle) /\ ShopLeft(Idle)
<1>1. req[r].op \in ShopOps /\ Awaits(r, Idle) /\ UNCHANGED <<open, settings>>
  BY DEF UpdateServiceStatusWrite, UpdateTypeWrite, UpdatePackageWrite, UpdateOptionWrite, Reply, Awaits,
         Resumes, ShopOps
<1>h. ShopHandler(req[r], ptype, package, option)
  BY DEF ShopInv
<1>t. /\ service \in [1..Services -> ServiceRow] /\ RowsKept(service, service)
      /\ ptype \in [1..Types -> TypeRow] /\ PartsKept(ptype, ptype)
      /\ package \in [1..Packages -> PackageRow] /\ PartsKept(package, package)
      /\ option \in [1..Options -> OptionRow] /\ PartsKept(option, option)
      /\ ~workload.overlap => NamesDistinct(service)
  BY TablesNow
<1>2. CASE UpdateServiceStatusWrite(r)
  <2>. DEFINE s == req[r].service
              row == [service[s] EXCEPT !.active = req[r].active]
              svc == Updated(service, s, row)
  <2>1. Saves(svc, ptype, package, option) /\ s \in 1..Services /\ req[r].active \in BOOLEAN
    BY <1>2, <1>h DEF UpdateServiceStatusWrite, Resumes, ShopHandler
  <2>2. row \in ServiceRow /\ row.row = service[s].row /\ row.name = service[s].name
    BY <1>t, <2>1 DEF ServiceRow
  <2>. HIDE DEF row
  <2>3. svc \in [1..Services -> ServiceRow] /\ RowsKept(svc, service)
    BY <1>t, <2>1, <2>2, UpdatedType
  <2>4. Present(svc) = Present(service) /\ \A x \in 1..Services : svc[x].name = service[x].name
    BY <1>t, <2>1, <2>2 DEF Updated, Present
  <2>5. ~workload.overlap => NamesDistinct(svc)
    BY <1>t, <2>4 DEF NamesDistinct, Present
  <2>. HIDE DEF svc
  <2>. QED BY <1>1, <1>t, <2>1, <2>3, <2>5, ShopSaves DEF Saves
<1>3. CASE UpdateTypeWrite(r)
  <2>. DEFINE t == req[r].ptype
              row == [ptype[t] EXCEPT !.active = req[r].active]
              typ == Updated(ptype, t, row)
  <2>1. Saves(service, typ, package, option) /\ t \in 1..Types /\ req[r].active \in BOOLEAN
    BY <1>3, <1>h DEF UpdateTypeWrite, Resumes, ShopHandler
  <2>2. row \in TypeRow /\ row.row = ptype[t].row /\ row.of = ptype[t].of
    BY <1>t, <2>1 DEF TypeRow
  <2>. HIDE DEF row
  <2>3. typ \in [1..Types -> TypeRow] /\ PartsKept(typ, ptype)
    <3>1. ptype \in [1..Types -> TypeRow]
      BY <1>t
    <3>. QED BY <2>1, <2>2, <3>1, UpdatedType
  <2>. HIDE DEF typ
  <2>. QED BY <1>1, <1>t, <2>1, <2>3, ShopSaves DEF Saves
<1>4. CASE UpdatePackageWrite(r)
  <2>. DEFINE p == req[r].package
              row == [package[p] EXCEPT !.active = Given(req[r].active, package[p].active),
                                        !.price = Given(req[r].price, package[p].price)]
              pkg == Updated(package, p, row)
  <2>1. Saves(service, ptype, pkg, option) /\ p \in 1..Packages
    BY <1>4, <1>h DEF UpdatePackageWrite, Resumes, ShopHandler
  <2>2. req[r].active \in Optional(BOOLEAN) /\ req[r].price \in Optional(Price)
    BY <1>4, <1>h DEF UpdatePackageWrite, Resumes, ShopHandler
  <2>3. package[p] \in PackageRow /\ package[p].active \in BOOLEAN /\ package[p].price \in Price
    BY <1>t, <2>1 DEF PackageRow
  <2>4. Given(req[r].active, package[p].active) \in BOOLEAN /\ Given(req[r].price, package[p].price) \in Price
    BY <2>2, <2>3, GivenType, GivenFlag
  <2>5. row \in PackageRow /\ row.row = package[p].row /\ row.of = package[p].of
    BY <2>3, <2>4 DEF PackageRow
  <2>. HIDE DEF row
  <2>6. pkg \in [1..Packages -> PackageRow] /\ PartsKept(pkg, package)
    BY <1>t, <2>1, <2>5, UpdatedType
  <2>. HIDE DEF pkg
  <2>. QED BY <1>1, <1>t, <2>1, <2>6, ShopSaves DEF Saves
<1>5. CASE UpdateOptionWrite(r)
  <2>. DEFINE o == req[r].option
              row == [option[o] EXCEPT !.active = Given(req[r].active, option[o].active),
                                       !.price = Given(req[r].price, option[o].price)]
              opt == Updated(option, o, row)
  <2>1. Saves(service, ptype, package, opt) /\ o \in 1..Options
    BY <1>5, <1>h DEF UpdateOptionWrite, Resumes, ShopHandler
  <2>2. req[r].active \in Optional(BOOLEAN) /\ req[r].price \in Optional(Price)
    BY <1>5, <1>h DEF UpdateOptionWrite, Resumes, ShopHandler
  <2>3. option[o] \in OptionRow /\ option[o].active \in BOOLEAN /\ option[o].price \in Price
    BY <1>t, <2>1 DEF OptionRow
  <2>4. Given(req[r].active, option[o].active) \in BOOLEAN /\ Given(req[r].price, option[o].price) \in Price
    BY <2>2, <2>3, GivenType, GivenFlag
  <2>5. row \in OptionRow /\ row.row = option[o].row /\ row.of = option[o].of
    BY <2>3, <2>4 DEF OptionRow
  <2>. HIDE DEF row
  <2>6. opt \in [1..Options -> OptionRow] /\ PartsKept(opt, option)
    BY <1>t, <2>1, <2>5, UpdatedType
  <2>. HIDE DEF opt
  <2>. QED BY <1>1, <1>t, <2>1, <2>6, ShopSaves DEF Saves
<1>. QED BY <1>2, <1>3, <1>4, <1>5

LEMMA ShopSame ==
  ASSUME ShopInv, UNCHANGED shop
  PROVE  ShopLeft(Idle)
<1>1. /\ service' = service /\ ptype' = ptype /\ package' = package /\ option' = option
      /\ settings' = settings /\ order' = order /\ offer' = offer /\ open' = open
  BY DEF shop
<1>2. ShopTypeOK' /\ OrderFollowsCatalogue'
  BY <1>1 DEF ShopInv, ShopTypeOK, OrderFollowsCatalogue
<1>3. ShopKept
  BY <1>1, Unmoved DEF ShopKept
<1>4. ShopStays
  BY <1>1 DEF ShopStays, ChoiceStays, QuoteReal
<1>5. ~workload.overlap => NamesDistinct(service')
  BY <1>1 DEF ShopInv
<1>. QED BY <1>2, <1>3, <1>4, <1>5 DEF ShopLeft

LEMMA ServiceCreated ==
  ASSUME ShopInv, RequestsOK, NEW r \in Request, CreateServiceWrite(r)
  PROVE  req[r].op \in ShopOps /\ Awaits(r, Idle) /\ ShopLeft(Idle)
<1>1. /\ req[r].op = "createService" /\ req[r].op \in ShopOps /\ Awaits(r, Idle)
      /\ UNCHANGED <<open, settings>>
  BY DEF CreateServiceWrite, Reply, Awaits, Resumes, ShopOps
<1>h. req[r].name \in Name /\ req[r].price \in Price /\ req[r].listed \in BOOLEAN /\ req[r].active \in BOOLEAN
  BY <1>1 DEF ShopInv, ShopHandler
<1>c. ~workload.overlap => \A x \in Present(service) : service[x].name.word # req[r].name.word
  BY <1>1 DEF ShopInv, ShopChecked
<1>t. /\ service \in [1..Services -> ServiceRow] /\ ptype \in [1..Types -> TypeRow]
      /\ package \in [1..Packages -> PackageRow] /\ option \in [1..Options -> OptionRow]
      /\ ~workload.overlap => NamesDistinct(service)
  BY TablesNow
<1>. DEFINE new == toPricingOptionsCreate(req[r].price, req[r].listed, req[r].active)
            sRow == [row |-> "present", active |-> TRUE, name |-> req[r].name]
            tRow(s) == [row |-> "present", of |-> s, active |-> req[r].active]
            pRow(t) == [row |-> "present", of |-> t, active |-> req[r].active, price |-> req[r].price]
            oRow(p) == [row |-> "present", of |-> p, active |-> new.active, price |-> new.price]
<1>2. PICK s \in NextRow(service, Services), t \in NextRow(ptype, Types),
           p \in NextRow(package, Packages), o \in NextRow(option, Options) :
        Saves(Insert(service, s, sRow), Insert(ptype, t, tRow(s)), Insert(package, p, pRow(t)),
              Insert(option, o, oRow(p)))
  BY DEF CreateServiceWrite
<1>3. s \in 1..Services /\ t \in 1..Types /\ p \in 1..Packages /\ service[s].row = "absent"
  BY DEF NextRow
<1>4. new.active \in BOOLEAN /\ new.price \in Price
  BY <1>h DEF toPricingOptionsCreate
<1>5. sRow \in ServiceRow /\ tRow(s) \in TypeRow /\ pRow(t) \in PackageRow /\ oRow(p) \in OptionRow
  BY <1>h, <1>3, <1>4 DEF ServiceRow, TypeRow, PackageRow, OptionRow, Existence
<1>n. sRow.row = "present" /\ sRow.name = req[r].name
  OBVIOUS
<1>. DEFINE svc == Insert(service, s, sRow)
            typ == Insert(ptype, t, tRow(s))
            pkg == Insert(package, p, pRow(t))
            opt == Insert(option, o, oRow(p))
<1>6. Saves(svc, typ, pkg, opt)
  BY <1>2
<1>. HIDE DEF new, sRow, tRow, pRow, oRow
<1>7. svc \in [1..Services -> ServiceRow] /\ RowsKept(svc, service)
  BY <1>t, <1>5, Inserted
<1>8. typ \in [1..Types -> TypeRow] /\ PartsKept(typ, ptype)
  BY <1>t, <1>5, Inserted
<1>9. pkg \in [1..Packages -> PackageRow] /\ PartsKept(pkg, package)
  BY <1>t, <1>5, Inserted
<1>10. opt \in [1..Options -> OptionRow] /\ PartsKept(opt, option)
  BY <1>t, <1>5, Inserted
<1>11. /\ svc[s] = sRow /\ \A x \in 1..Services : x # s => svc[x] = service[x]
       /\ Present(svc) \subseteq 1..Services /\ Present(svc) \subseteq Present(service) \union {s}
  BY <1>t, <1>3 DEF Insert, Present
<1>12. ~workload.overlap => NamesDistinct(svc)
  BY <1>t, <1>c, <1>n, <1>11 DEF NamesDistinct
<1>. HIDE DEF svc, typ, pkg, opt
<1>13. ShopLeft(Idle)
  BY <1>1, <1>6, <1>7, <1>8, <1>9, <1>10, <1>12, ShopSaves DEF Saves
<1>. QED BY <1>1, <1>13

\* One more row beside those that are updated.
LEMMA InsertedBeside ==
  ASSUME NEW n, NEW R, NEW old \in [1..n -> R], NEW new \in [1..n -> R], PartsKept(new, old),
         NEW i \in NextRow(old, n), NEW row \in R
  PROVE  /\ Insert(new, i, row) \in [1..n -> R] /\ PartsKept(Insert(new, i, row), old)
         /\ Insert(new, i, row)[i] = row /\ i \in 1..n /\ i \notin Present(old)
BY DEF NextRow, Insert, PartsKept, Present

LEMMA ListedType ==
  ASSUME ShopInv, NEW D, NEW active \in BOOLEAN
  PROVE  Listed(ptype, D, active) \in [1..Types -> TypeRow] /\ PartsKept(Listed(ptype, D, active), ptype)
<1>1. ptype \in [1..Types -> TypeRow] /\ DOMAIN ptype = 1..Types
  BY TablesNow
<1>2. Listed(ptype, D, active) = [t \in 1..Types |-> IF t \in D THEN [ptype[t] EXCEPT !.active = active]
                                                     ELSE ptype[t]]
  BY <1>1 DEF Listed
<1>. DEFINE new == Listed(ptype, D, active)
<1>3. ASSUME NEW t \in 1..Types
      PROVE  new[t] \in TypeRow /\ new[t].row = ptype[t].row /\ new[t].of = ptype[t].of
  BY <1>1, <1>2 DEF TypeRow
<1>4. new \in [1..Types -> TypeRow]
  BY <1>2, <1>3
<1>. HIDE DEF new
<1>5. PartsKept(new, ptype)
  BY <1>1, <1>3 DEF PartsKept
<1>. QED BY <1>4, <1>5 DEF new

LEMMA ListedPackages ==
  ASSUME ShopInv, NEW D, NEW active \in BOOLEAN, NEW price \in Price
  PROVE  /\ Priced(Listed(package, D, active), D, price) \in [1..Packages -> PackageRow]
         /\ PartsKept(Priced(Listed(package, D, active), D, price), package)
<1>1. package \in [1..Packages -> PackageRow] /\ DOMAIN package = 1..Packages
  BY TablesNow
<1>. DEFINE listed == Listed(package, D, active)
<1>2. listed = [p \in 1..Packages |-> IF p \in D THEN [package[p] EXCEPT !.active = active] ELSE package[p]]
  BY <1>1 DEF Listed
<1>3. ASSUME NEW p \in 1..Packages
      PROVE  listed[p] \in PackageRow /\ listed[p].row = package[p].row /\ listed[p].of = package[p].of
  BY <1>1, <1>2 DEF PackageRow
<1>4. DOMAIN listed = 1..Packages
  BY <1>2
<1>. HIDE DEF listed
<1>. DEFINE new == Priced(listed, D, price)
<1>5. new = [p \in 1..Packages |-> IF p \in D THEN [listed[p] EXCEPT !.price = price] ELSE listed[p]]
  BY <1>4 DEF Priced
<1>6. ASSUME NEW p \in 1..Packages
      PROVE  new[p] \in PackageRow /\ new[p].row = package[p].row /\ new[p].of = package[p].of
  BY <1>3, <1>5 DEF PackageRow
<1>7. new \in [1..Packages -> PackageRow]
  BY <1>5, <1>6
<1>. HIDE DEF new
<1>8. PartsKept(new, package)
  BY <1>1, <1>6 DEF PartsKept
<1>. QED BY <1>7, <1>8 DEF new, listed

LEMMA ListedOptions ==
  ASSUME ShopInv, NEW D, NEW active \in BOOLEAN, NEW price \in Price
  PROVE  /\ Priced(Listed(option, D, active), D, price) \in [1..Options -> OptionRow]
         /\ PartsKept(Priced(Listed(option, D, active), D, price), option)
<1>1. option \in [1..Options -> OptionRow] /\ DOMAIN option = 1..Options
  BY TablesNow
<1>. DEFINE listed == Listed(option, D, active)
<1>2. listed = [o \in 1..Options |-> IF o \in D THEN [option[o] EXCEPT !.active = active] ELSE option[o]]
  BY <1>1 DEF Listed
<1>3. ASSUME NEW o \in 1..Options
      PROVE  listed[o] \in OptionRow /\ listed[o].row = option[o].row /\ listed[o].of = option[o].of
  BY <1>1, <1>2 DEF OptionRow
<1>4. DOMAIN listed = 1..Options
  BY <1>2
<1>. HIDE DEF listed
<1>. DEFINE new == Priced(listed, D, price)
<1>5. new = [o \in 1..Options |-> IF o \in D THEN [listed[o] EXCEPT !.price = price] ELSE listed[o]]
  BY <1>4 DEF Priced
<1>6. ASSUME NEW o \in 1..Options
      PROVE  new[o] \in OptionRow /\ new[o].row = option[o].row /\ new[o].of = option[o].of
  BY <1>3, <1>5 DEF OptionRow
<1>7. new \in [1..Options -> OptionRow]
  BY <1>5, <1>6
<1>. HIDE DEF new
<1>8. PartsKept(new, option)
  BY <1>1, <1>6 DEF PartsKept
<1>. QED BY <1>7, <1>8 DEF new, listed

\* The options of a tree that are not listed go, but each listed package that
\* has options keeps one that is listed, or gets a standard one.
LEMMA OptionsLeft ==
  ASSUME ShopInv, NEW s, NEW tree, Belongs(s, tree),
         NEW opt \in [1..Options -> OptionRow], PartsKept(opt, option),
         \A p \in Bare(tree) : \E o \in Of(opt, {p}) : o \notin Present(option)
  PROVE  \A p \in Present(package) : Of(option, {p}) # {} =>
           Of(opt, {p}) \ (Of(option, tree.packages) \ tree.options) # {}
<1>. DEFINE O == Of(option, tree.packages) \ tree.options
<1>1. DOMAIN option = 1..Options /\ DOMAIN opt = 1..Options
  BY TablesNow
<1>2. \A E : Of(option, E) \subseteq Of(opt, E)
  BY <1>1 DEF Of, Present, PartsKept
<1>3. ASSUME NEW p \in Present(package), Of(option, {p}) # {}
      PROVE  Of(opt, {p}) \ O # {}
  <2>1. CASE p \in Bare(tree)
    <3>1. PICK o \in Of(opt, {p}) : o \notin Present(option)
      BY <2>1
    <3>2. o \notin O
      BY <3>1 DEF Of
    <3>. QED BY <3>1, <3>2
  <2>2. CASE p \in tree.packages /\ p \notin Bare(tree)
    <3>1. PICK o \in tree.options : option[o].of = p
      BY <2>2 DEF Bare
    <3>2. o \in Of(option, {p})
      BY <3>1 DEF Belongs, Of
    <3>. QED BY <1>2, <3>1, <3>2
  <2>3. CASE p \notin tree.packages
    <3>1. PICK o : o \in Of(option, {p})
      BY <1>3
    <3>2. o \notin O
      BY <2>3, <3>1 DEF Of
    <3>. QED BY <1>2, <3>1, <3>2
  <2>. QED BY <2>1, <2>2, <2>3 DEF Bare
<1>. QED BY <1>3

LEMMA TreeSynced ==
  ASSUME ShopInv, NEW s \in 1..Services, NEW tree, IsTree(tree), Belongs(s, tree),
         NEW svc \in [1..Services -> ServiceRow], RowsKept(svc, service),
         ~workload.overlap => NamesDistinct(svc),
         SyncTree(s, svc, tree), UNCHANGED <<open, settings>>
  PROVE  ShopLeft(Idle)
<1>. DEFINE active == Given(tree.active, TRUE)
            typ == Listed(ptype, tree.types, active)
            pkg == Priced(Listed(package, tree.packages, active), tree.packages, tree.price)
            opt == Priced(Listed(option, tree.options, active), tree.options, tree.price)
            Standard(p) == [row |-> "present", of |-> p, active |-> TRUE, price |-> tree.price]
            fresh(t) == [row |-> "present", of |-> t, active |-> active, price |-> tree.price]
            branch == [row |-> "present", of |-> s, active |-> active]
            T == Of(ptype, {s}) \ tree.types
            P == Of(package, tree.types) \ tree.packages
            O == Of(option, tree.packages) \ tree.options
<1>1. active \in BOOLEAN /\ tree.price \in Price /\ tree.types \subseteq 1..Types /\ tree.packages \subseteq 1..Packages
  <2>1. tree.active \in Optional(BOOLEAN)
    BY OptionalWithin DEF IsTree
  <2>. QED BY <2>1, GivenFlag DEF IsTree
<1>t. /\ ptype \in [1..Types -> TypeRow] /\ package \in [1..Packages -> PackageRow]
      /\ option \in [1..Options -> OptionRow]
  BY TablesNow
<1>2. \/ Bare(tree) = {} /\ Commit(svc, typ, pkg, opt, {}, T, P, O)
      \/ \E p \in Bare(tree), o \in NextRow(option, Options) :
           Bare(tree) = {p} /\ Commit(svc, typ, pkg, Insert(opt, o, Standard(p)), {}, T, P, O)
      \/ /\ Bare(tree) = {}
         /\ \E t \in NextRow(ptype, Types) : Commit(svc, Insert(typ, t, branch), pkg, opt, {}, T, P, O)
      \/ /\ Bare(tree) = {}
         /\ \E t \in tree.types, p \in NextRow(package, Packages), o \in NextRow(option, Options) :
              Commit(svc, typ, Insert(pkg, p, fresh(t)), Insert(opt, o, Standard(p)), {}, T, P, O)
  BY DEF SyncTree
<1>3. typ \in [1..Types -> TypeRow] /\ PartsKept(typ, ptype)
  BY <1>1, ListedType
<1>4. pkg \in [1..Packages -> PackageRow] /\ PartsKept(pkg, package)
  BY <1>1, ListedPackages
<1>5. opt \in [1..Options -> OptionRow] /\ PartsKept(opt, option)
  BY <1>1, ListedOptions
<1>6. branch \in TypeRow /\ \A t \in tree.types : fresh(t) \in PackageRow
  BY <1>1 DEF TypeRow, PackageRow, Existence
<1>7. \A p \in 1..Packages : Standard(p) \in OptionRow /\ Standard(p).of = p /\ Standard(p).row = "present"
  BY <1>1 DEF OptionRow, Existence
<1>8. Bare(tree) \subseteq tree.packages
  BY DEF Bare
<1>. HIDE DEF active, typ, pkg, opt, Standard, fresh, branch, T, P
<1>9. ASSUME NEW p \in 1..Packages, NEW o \in NextRow(option, Options)
      PROVE  /\ Insert(opt, o, Standard(p)) \in [1..Options -> OptionRow]
             /\ PartsKept(Insert(opt, o, Standard(p)), option)
             /\ o \in Of(Insert(opt, o, Standard(p)), {p}) /\ o \notin Present(option)
  <2>. DEFINE row == Standard(p)
  <2>1. row \in OptionRow /\ row.of = p /\ row.row = "present"
    BY <1>7
  <2>. HIDE DEF row
  <2>2. /\ Insert(opt, o, row) \in [1..Options -> OptionRow] /\ PartsKept(Insert(opt, o, row), option)
        /\ Insert(opt, o, row)[o] = row /\ o \in 1..Options /\ o \notin Present(option)
    BY <1>t, <1>5, <2>1, InsertedBeside
  <2>3. DOMAIN Insert(opt, o, row) = 1..Options
    BY <2>2
  <2>4. o \in Of(Insert(opt, o, row), {p})
    BY <2>1, <2>2, <2>3 DEF Of, Present
  <2>. QED BY <2>2, <2>4 DEF row
<1>10. CASE Bare(tree) = {} /\ Commit(svc, typ, pkg, opt, {}, T, P, O)
  <2>1. \A p \in Present(package) : Of(option, {p}) # {} => Of(opt, {p}) \ O # {}
    BY <1>5, <1>10, OptionsLeft
  <2>. HIDE DEF O
  <2>. QED BY <1>3, <1>4, <1>5, <1>10, <2>1, ShopCommits
<1>11. ASSUME NEW p \in Bare(tree), NEW o \in NextRow(option, Options), Bare(tree) = {p},
              Commit(svc, typ, pkg, Insert(opt, o, Standard(p)), {}, T, P, O)
       PROVE  ShopLeft(Idle)
  <2>. DEFINE opt2 == Insert(opt, o, Standard(p))
  <2>1. p \in 1..Packages
    BY <1>1, <1>8
  <2>2. /\ opt2 \in [1..Options -> OptionRow] /\ PartsKept(opt2, option)
        /\ o \in Of(opt2, {p}) /\ o \notin Present(option)
    BY <1>9, <2>1
  <2>c. Commit(svc, typ, pkg, opt2, {}, T, P, O)
    BY <1>11
  <2>. HIDE DEF opt2
  <2>3. \A q \in Present(package) : Of(option, {q}) # {} => Of(opt2, {q}) \ O # {}
    BY <1>11, <2>2, OptionsLeft
  <2>. HIDE DEF O
  <2>. QED BY <1>3, <1>4, <2>2, <2>3, <2>c, ShopCommits
<1>12. ASSUME Bare(tree) = {}, NEW t \in NextRow(ptype, Types),
              Commit(svc, Insert(typ, t, branch), pkg, opt, {}, T, P, O)
       PROVE  ShopLeft(Idle)
  <2>. DEFINE typ2 == Insert(typ, t, branch)
  <2>1. typ2 \in [1..Types -> TypeRow] /\ PartsKept(typ2, ptype)
    BY <1>t, <1>3, <1>6, InsertedBeside
  <2>c. Commit(svc, typ2, pkg, opt, {}, T, P, O)
    BY <1>12
  <2>. HIDE DEF typ2
  <2>2. \A p \in Present(package) : Of(option, {p}) # {} => Of(opt, {p}) \ O # {}
    BY <1>5, <1>12, OptionsLeft
  <2>. HIDE DEF O
  <2>. QED BY <1>4, <1>5, <2>1, <2>2, <2>c, ShopCommits
<1>13. ASSUME Bare(tree) = {}, NEW t \in tree.types, NEW p \in NextRow(package, Packages),
              NEW o \in NextRow(option, Options),
              Commit(svc, typ, Insert(pkg, p, fresh(t)), Insert(opt, o, Standard(p)), {}, T, P, O)
       PROVE  ShopLeft(Idle)
  <2>. DEFINE pkg2 == Insert(pkg, p, fresh(t))
              opt2 == Insert(opt, o, Standard(p))
  <2>1. p \in 1..Packages
    BY DEF NextRow
  <2>2. pkg2 \in [1..Packages -> PackageRow] /\ PartsKept(pkg2, package)
    BY <1>t, <1>4, <1>6, InsertedBeside
  <2>3. opt2 \in [1..Options -> OptionRow] /\ PartsKept(opt2, option)
    BY <1>9, <2>1
  <2>c. Commit(svc, typ, pkg2, opt2, {}, T, P, O)
    BY <1>13
  <2>. HIDE DEF pkg2, opt2
  <2>4. \A q \in Present(package) : Of(option, {q}) # {} => Of(opt2, {q}) \ O # {}
    BY <1>13, <2>3, OptionsLeft
  <2>. HIDE DEF O
  <2>. QED BY <1>3, <2>2, <2>3, <2>4, <2>c, ShopCommits
<1>. HIDE DEF O
<1>. QED BY <1>2, <1>10, <1>11, <1>12, <1>13

LEMMA ServiceUpdated ==
  ASSUME ShopInv, RequestsOK, NEW r \in Request, UpdateServiceWrite(r)
  PROVE  req[r].op \in ShopOps /\ Awaits(r, Idle) /\ ShopLeft(Idle)
<1>. DEFINE s == req[r].service
            was == service[s]
            given == Given(req[r].names, was.name)
            switched == Given(req[r].active, was.active)
            now == [was EXCEPT !.name = given, !.active = switched]
            svc == [service EXCEPT ![s] = now]
<1>1. /\ req[r].op = "updateService" /\ req[r].op \in ShopOps /\ Awaits(r, Idle)
      /\ UNCHANGED <<open, settings>>
  BY DEF UpdateServiceWrite, Reply, Awaits, Resumes, ShopOps
<1>h. /\ s \in 1..Services /\ req[r].names \in Optional(Name) /\ req[r].active \in Optional(BOOLEAN)
      /\ \A tree \in req[r].trees : IsTree(tree)
  BY <1>1 DEF ShopInv, ShopHandler
<1>c. ~workload.overlap =>
        \A name \in req[r].names : \A x \in Present(service) \ {s} : service[x].name.word # name.word
  BY <1>1 DEF ShopInv, ShopChecked
<1>t. /\ service \in [1..Services -> ServiceRow] /\ ptype \in [1..Types -> TypeRow]
      /\ package \in [1..Packages -> PackageRow] /\ option \in [1..Options -> OptionRow]
      /\ PartsKept(ptype, ptype) /\ PartsKept(package, package) /\ PartsKept(option, option)
      /\ ~workload.overlap => NamesDistinct(service)
  BY TablesNow
<1>2. \/ UNCHANGED <<service, ptype, package, option, offer, order>>
      \/ Saves(svc, ptype, package, option)
      \/ \E tree \in req[r].trees : Belongs(s, tree) /\ SyncTree(s, svc, tree)
  BY DEF UpdateServiceWrite
<1>3. was.name \in Name /\ was.active \in BOOLEAN /\ was \in ServiceRow
  BY <1>t, <1>h DEF ServiceRow
<1>4. given \in Name /\ (given = was.name \/ given \in req[r].names)
  BY <1>h, <1>3, GivenType
<1>5. switched \in BOOLEAN
  BY <1>h, <1>3, GivenType
<1>. HIDE DEF given, switched
<1>6. now \in ServiceRow /\ now.row = was.row /\ now.name = given
  BY <1>3, <1>4, <1>5 DEF ServiceRow
<1>. HIDE DEF now
<1>7. /\ svc \in [1..Services -> ServiceRow]
      /\ \A x \in 1..Services : svc[x].row = service[x].row
      /\ \A x \in 1..Services : svc[x].name = IF x = s THEN given ELSE service[x].name
  BY <1>t, <1>h, <1>6
<1>. HIDE DEF svc
<1>8. RowsKept(svc, service) /\ Present(svc) = Present(service) /\ Present(service) \subseteq 1..Services
  BY <1>t, <1>7 DEF RowsKept, Present
<1>9. ~workload.overlap => NamesDistinct(svc)
  BY <1>t, <1>c, <1>4, <1>7, <1>8 DEF NamesDistinct
<1>10. CASE UNCHANGED <<service, ptype, package, option, offer, order>>
  BY <1>1, <1>10, ShopSame DEF shop
<1>11. CASE Saves(svc, ptype, package, option)
  BY <1>1, <1>t, <1>7, <1>8, <1>9, <1>11, ShopSaves DEF Saves
<1>12. ASSUME NEW tree \in req[r].trees, Belongs(s, tree), SyncTree(s, svc, tree)
       PROVE  ShopLeft(Idle)
  <2>1. IsTree(tree)
    BY <1>h
  <2>. QED BY <1>1, <1>h, <1>7, <1>8, <1>9, <1>12, <2>1, TreeSynced
<1>. QED BY <1>1, <1>2, <1>10, <1>11, <1>12

\* A step of areas and settings alone.
LEMMA ShopAside ==
  ASSUME ShopInv, UNCHANGED <<service, ptype, package, option, order>>,
         offer' \in [Zone -> [1..Services -> {"unset", "on", "off"}]], open' \in [Zone -> BOOLEAN],
         settings' \in [tax : Percent, advance : Percent]
  PROVE  ShopLeft(Idle)
<1>1. /\ service' = service /\ ptype' = ptype /\ package' = package /\ option' = option
      /\ order' = order
  OBVIOUS
<1>2. ShopTypeOK' /\ OrderFollowsCatalogue'
  BY <1>1 DEF ShopInv, ShopTypeOK, OrderFollowsCatalogue
<1>3. ShopKept
  BY <1>1, Unmoved DEF ShopKept
<1>4. ShopStays
  BY <1>1 DEF ShopStays, ChoiceStays, QuoteReal
<1>5. ~workload.overlap => NamesDistinct(service')
  BY <1>1 DEF ShopInv
<1>. QED BY <1>2, <1>3, <1>4, <1>5 DEF ShopLeft

LEMMA AreaWritten ==
  ASSUME ShopInv, RequestsOK, NEW r \in Request, SetAreaServicesWrite(r) \/ UpdateZoneWrite(r)
  PROVE  req[r].op \in ShopOps /\ Awaits(r, Idle) /\ ShopLeft(Idle)
<1>1. /\ req[r].op \in ShopOps /\ Awaits(r, Idle)
      /\ UNCHANGED <<service, ptype, package, option, order, settings>>
  BY DEF SetAreaServicesWrite, UpdateZoneWrite, Reply, Awaits, Resumes, ShopOps
<1>t. /\ offer \in [Zone -> [1..Services -> {"unset", "on", "off"}]] /\ open \in [Zone -> BOOLEAN]
      /\ settings' \in [tax : Percent, advance : Percent]
  BY <1>1 DEF ShopInv, ShopTypeOK
<1>2. CASE SetAreaServicesWrite(r)
  <2>. DEFINE z == req[r].zone
              list == [s \in 1..Services |-> IF s \in req[r].services THEN Flag(req[r].on) ELSE offer[z][s]]
  <2>1. z \in Zone
    BY <1>2 DEF SetAreaServicesWrite, Resumes, ShopInv, ShopHandler
  <2>2. open' = open /\ (offer' = offer \/ offer' = [offer EXCEPT ![z] = list])
    BY <1>2, <1>t, <2>1 DEF SetAreaServicesWrite
  <2>3. list \in [1..Services -> {"unset", "on", "off"}]
    BY <1>t, <2>1 DEF Flag
  <2>. HIDE DEF list
  <2>4. offer' \in [Zone -> [1..Services -> {"unset", "on", "off"}]]
    BY <1>t, <2>1, <2>2, <2>3
  <2>. QED BY <1>1, <1>t, <2>2, <2>4, ShopAside
<1>3. CASE UpdateZoneWrite(r)
  <2>. DEFINE z == req[r].zone
              lists == Given(req[r].lists, {})
              list == [s \in 1..Services |-> IF s \in Active(service) THEN Flag(s \in lists) ELSE offer[z][s]]
  <2>1. z \in Zone /\ req[r].active \in Optional(BOOLEAN)
    BY <1>3 DEF UpdateZoneWrite, Resumes, ShopInv, ShopHandler
  <2>2. /\ open' = open \/ open' = [open EXCEPT ![z] = Given(req[r].active, open[z])]
        /\ offer' = offer \/ offer' = [offer EXCEPT ![z] = list]
    BY <1>3, <1>t, <2>1 DEF UpdateZoneWrite, setActiveServiceIdsInTx
  <2>3. list \in [1..Services -> {"unset", "on", "off"}]
    BY <1>t, <2>1 DEF Flag
  <2>. HIDE DEF list
  <2>4. offer' \in [Zone -> [1..Services -> {"unset", "on", "off"}]]
    BY <1>t, <2>1, <2>2, <2>3
  <2>5. Given(req[r].active, open[z]) \in BOOLEAN
    BY <1>t, <2>1, GivenFlag
  <2>6. open' \in [Zone -> BOOLEAN]
    BY <1>t, <2>1, <2>2, <2>5
  <2>. QED BY <1>1, <1>t, <2>4, <2>6, ShopAside
<1>. QED BY <1>1, <1>2, <1>3

LEMMA SettingsChanged ==
  ASSUME ShopInv, RequestsOK, NEW r \in Request, NEW tax \in Optional(Percent), NEW advance \in Optional(Percent),
         UpdateOrgSettings(r, tax, advance)
  PROVE  MayStart(r) /\ Awaits(r, Idle) /\ ShopLeft(Idle)
<1>1. /\ MayStart(r) /\ req' = req /\ UNCHANGED <<service, ptype, package, option, offer, open, order>>
      /\ settings' = [tax |-> Given(tax, settings.tax), advance |-> Given(advance, settings.advance)]
  BY DEF UpdateOrgSettings, AtOnce, Arrives
<1>2. Awaits(r, Idle)
  BY <1>1 DEF MayStart, Awaits, RequestsOK
<1>3. settings.tax \in Percent /\ settings.advance \in Percent
  BY DEF ShopInv, ShopTypeOK
<1>4. Given(tax, settings.tax) \in Percent /\ Given(advance, settings.advance) \in Percent
  BY <1>3, GivenType
<1>5. settings' \in [tax : Percent, advance : Percent]
  BY <1>1, <1>4
<1>6. /\ offer' \in [Zone -> [1..Services -> {"unset", "on", "off"}]] /\ open' \in [Zone -> BOOLEAN]
  BY <1>1 DEF ShopInv, ShopTypeOK
<1>7. ShopLeft(Idle)
  BY <1>1, <1>5, <1>6, ShopAside
<1>. QED BY <1>1, <1>2, <1>7

\* An order costs whole rupees, and its advance no more.
LEMMA AmountsOK ==
  ASSUME NEW price \in Nat, NEW tax \in 0..100, NEW percent \in 0..100
  PROVE  /\ TotalOf(price, tax) \in Nat
         /\ AdvanceOf(TotalOf(price, tax), percent) \in Nat
         /\ AdvanceOf(TotalOf(price, tax), percent) <= TotalOf(price, tax)
<1>. DEFINE product == price * tax
            added == (product + 5000) \div 10000
            rupees == (price + 100 * added + 5000) \div 10000
            total == 10000 * rupees
            part == total * percent
            paid == (part + 500000) \div 1000000
<1>1. product \in Nat
  OBVIOUS
<1>. HIDE DEF product
<1>2. added \in Nat
  BY <1>1
<1>. HIDE DEF added
<1>3. rupees \in Nat
  BY <1>2
<1>. HIDE DEF rupees
<1>4. total \in Nat
  BY <1>3
<1>5. rupees * percent \in Nat /\ rupees * percent <= 100 * rupees
  <2>1. rupees * (100 - percent) \in Nat
    BY <1>3
  <2>2. rupees * (100 - percent) = 100 * rupees - rupees * percent
    BY <1>3
  <2>3. rupees * percent \in Nat
    BY <1>3
  <2>. QED BY <1>3, <2>1, <2>2, <2>3
<1>6. part = 10000 * (rupees * percent)
  BY <1>3
<1>7. part \in Nat /\ part <= 100 * total
  BY <1>3, <1>5, <1>6
<1>. HIDE DEF part
<1>8. paid \in Nat /\ paid <= rupees
  BY <1>3, <1>7
<1>. HIDE DEF paid
<1>9. 10000 * paid \in Nat /\ 10000 * paid <= total
  BY <1>3, <1>8
<1>10. TotalOf(price, tax) = total
  BY DEF TotalOf, r0, r2Percent, Paisa, Rupee, total, rupees, added, product
<1>11. AdvanceOf(total, percent) = 10000 * paid
  BY DEF AdvanceOf, r0Percent, Paisa, Rupee, paid, part
<1>. HIDE DEF total
<1>. QED BY <1>4, <1>9, <1>10, <1>11

\* Rounding a price to whole paise moves it by half a paisa at most ...
LEMMA RoundedNear ==
  ASSUME NEW n \in Nat
  PROVE  /\ r2(n) \in Nat /\ r2(n) <= n + 50 /\ n <= r2(n) + 50
         /\ n % Paisa = 0 => r2(n) = n
<1>. DEFINE k == (n + 50) \div 100
<1>1. k \in Nat /\ 100 * k <= n + 50 /\ n + 50 < 100 * k + 100
  OBVIOUS
<1>2. n % 100 = 0 => n = 100 * (n \div 100) /\ n \div 100 \in Nat
  OBVIOUS
<1>. HIDE DEF k
<1>3. r2(n) = 100 * k
  BY DEF r2, Paisa, k
<1>4. n % 100 = 0 => k = n \div 100
  BY <1>1, <1>2
<1>. QED BY <1>1, <1>2, <1>3, <1>4 DEF Paisa

LEMMA PercentNear ==
  ASSUME NEW m \in Nat, NEW n \in Nat, NEW d \in Nat, NEW percent \in 0..100, m <= n + d
  PROVE  /\ m * percent \in Nat /\ n * percent \in Nat
         /\ m * percent <= n * percent + 100 * d
<1>1. m * percent \in Nat /\ n * percent \in Nat /\ d * percent \in Nat
  OBVIOUS
<1>2. (n + d - m) * percent \in Nat
  OBVIOUS
<1>3. (n + d - m) * percent = n * percent + d * percent - m * percent
  OBVIOUS
<1>4. d * (100 - percent) \in Nat
  OBVIOUS
<1>5. d * (100 - percent) = 100 * d - d * percent
  OBVIOUS
<1>. QED BY <1>1, <1>2, <1>3, <1>4, <1>5

\* ... which moves the total by a rupee at most, as it does the tax by a paisa ...
LEMMA TotalNear ==
  ASSUME NEW m \in Nat, NEW n \in Nat, NEW tax \in 0..100, m <= n + 50
  PROVE  TotalOf(m, tax) <= TotalOf(n, tax) + Rupee
<1>. DEFINE x == m * tax
            y == n * tax
            u == (x + 5000) \div 10000
            v == (y + 5000) \div 10000
            a == (m + 100 * u + 5000) \div 10000
            b == (n + 100 * v + 5000) \div 10000
<1>1. x \in Nat /\ y \in Nat /\ x <= y + 5000
  BY PercentNear
<1>. HIDE DEF x, y
<1>2. u \in Nat /\ v \in Nat /\ u <= v + 1
  BY <1>1
<1>. HIDE DEF u, v
<1>3. a \in Nat /\ b \in Nat /\ a <= b + 1
  BY <1>2
<1>4. TotalOf(m, tax) = 10000 * a /\ TotalOf(n, tax) = 10000 * b
  BY DEF TotalOf, r0, r2Percent, Paisa, Rupee, x, y, u, v
<1>. HIDE DEF a, b
<1>. QED BY <1>3, <1>4 DEF Rupee, Paisa

\* ... and with it the advance.
LEMMA AdvanceNear ==
  ASSUME NEW m \in Nat, NEW n \in Nat, NEW percent \in 0..100, m <= n + Rupee
  PROVE  AdvanceOf(m, percent) <= AdvanceOf(n, percent) + Rupee
<1>. DEFINE x == m * percent
            y == n * percent
            a == (x + 500000) \div 1000000
            b == (y + 500000) \div 1000000
<1>1. x \in Nat /\ y \in Nat /\ x <= y + 1000000
  BY PercentNear DEF Rupee, Paisa
<1>. HIDE DEF x, y
<1>2. a \in Nat /\ b \in Nat /\ a <= b + 1
  BY <1>1
<1>3. AdvanceOf(m, percent) = 10000 * a /\ AdvanceOf(n, percent) = 10000 * b
  BY DEF AdvanceOf, r0Percent, Paisa, Rupee, x, y
<1>. HIDE DEF a, b
<1>. QED BY <1>2, <1>3 DEF Rupee, Paisa

LEMMA QuoteNear ==
  ASSUME NEW price \in Nat, NEW tax \in 0..100, NEW percent \in 0..100
  PROVE  LET total == TotalOf(price, tax)
             shown == TotalOf(r2(price), tax)
             most == IF price % Paisa = 0 THEN 0 ELSE Rupee
         IN  /\ Within(total, shown, most)
             /\ Within(AdvanceOf(total, percent), AdvanceOf(shown, percent), most)
<1>. DEFINE total == TotalOf(price, tax)
            shown == TotalOf(r2(price), tax)
<1>1. r2(price) \in Nat /\ r2(price) <= price + 50 /\ price <= r2(price) + 50
  BY RoundedNear
<1>2. /\ total \in Nat /\ shown \in Nat
      /\ AdvanceOf(total, percent) \in Nat /\ AdvanceOf(shown, percent) \in Nat
  BY <1>1, AmountsOK
<1>3. CASE price % Paisa = 0
  <2>1. shown = total
    BY <1>3, RoundedNear
  <2>. HIDE DEF total, shown
  <2>2. Within(total, shown, 0) /\ Within(AdvanceOf(total, percent), AdvanceOf(shown, percent), 0)
    BY <1>2, <2>1 DEF Within
  <2>. QED BY <1>3, <2>2 DEF total, shown
<1>4. CASE price % Paisa # 0
  <2>1. total <= shown + Rupee /\ shown <= total + Rupee
    BY <1>1, TotalNear
  <2>. HIDE DEF total, shown
  <2>2. /\ AdvanceOf(total, percent) <= AdvanceOf(shown, percent) + Rupee
        /\ AdvanceOf(shown, percent) <= AdvanceOf(total, percent) + Rupee
    BY <1>2, <2>1, AdvanceNear
  <2>3. Within(total, shown, Rupee) /\ Within(AdvanceOf(total, percent), AdvanceOf(shown, percent), Rupee)
    BY <2>1, <2>2 DEF Within
  <2>. QED BY <1>4, <2>3 DEF total, shown
<1>. QED BY <1>3, <1>4

\* The handler of an order on its way: what it has found of it.
LEMMA OrderStands ==
  ASSUME ShopInv, RequestsOK, NEW r \in Request, NEW at, Stands(r, at)
  PROVE  /\ req[r].op = "order" /\ req[r].op \in ShopOps /\ req[r].at = at
         /\ OrderHandler(req[r], ptype, package, option)
         /\ ~workload.overlap => ShopChecked(req[r], service, option, settings)
BY DEF Stands, Resumes, ShopInv, ShopHandler, ShopOps

\* It goes on to the next query, having found one more row.
LEMMA OrderMoves ==
  ASSUME ShopInv, RequestsOK, NEW r \in Request, UNCHANGED shop,
         NEW at, NEW next, NEW found, Stands(r, at), Proceeds(r, found, next),
         found => \/ /\ at = "type" /\ next = "package"
                     /\ req[r].ptype \in Of(ptype, {req[r].service})
                  \/ /\ at = "package" /\ next = "option"
                     /\ req[r].package \in Of(package, {req[r].ptype})
                  \/ at = "area" /\ next = "offer"
                  \/ at = "offer" /\ next = "settings"
  PROVE  req[r].op \in ShopOps /\ \E h : Awaits(r, h) /\ ShopLeft(h)
<1>1. /\ req[r].op = "order" /\ req[r].op \in ShopOps /\ req[r].at = at
      /\ OrderHandler(req[r], ptype, package, option)
      /\ ~workload.overlap => ShopChecked(req[r], service, option, settings)
  BY OrderStands
<1>2. CASE ~found
  <2>1. Awaits(r, Idle)
    BY <1>2 DEF Proceeds, Awaits
  <2>. QED BY <1>1, <2>1, ShopSame
<1>3. CASE found
  <2>. DEFINE h == [req[r] EXCEPT !.at = next]
  <2>1. Awaits(r, h)
    BY <1>3 DEF Proceeds, Awaits
  <2>2. req[r] \in [op : {"order"}, at : {"type", "package", "option", "area", "offer", "settings", "insert"},
                    service : 1..Services, ptype : 1..Types, package : 1..Packages, option : 1..Options,
                    zone : Zone, price : Nat, total : Nat, advance : Nat]
    BY <1>1 DEF OrderHandler
  <2>3. /\ h \in [op : {"order"}, at : {"type", "package", "option", "area", "offer", "settings", "insert"},
                  service : 1..Services, ptype : 1..Types, package : 1..Packages, option : 1..Options,
                  zone : Zone, price : Nat, total : Nat, advance : Nat]
        /\ h.at = next /\ h.op = req[r].op /\ h.service = req[r].service /\ h.ptype = req[r].ptype
        /\ h.package = req[r].package /\ h.option = req[r].option /\ h.price = req[r].price
        /\ h.total = req[r].total /\ h.advance = req[r].advance
    BY <1>3, <2>2
  <2>. HIDE DEF h
  <2>4. OrderHandler(h, ptype, package, option)
    BY <1>1, <1>3, <2>3 DEF OrderHandler, Of, Present
  <2>5. ShopHandler(h, ptype, package, option) /\ h.op \in ShopOps
    BY <1>1, <2>3, <2>4 DEF ShopHandler
  <2>6. ~workload.overlap => ShopChecked(h, service, option, settings)
    BY <1>1, <1>3, <2>3 DEF ShopChecked, OrderHandler
  <2>7. ShopLeft(h)
    BY <2>5, <2>6, ShopReads
  <2>. QED BY <1>1, <2>1, <2>7
<1>. QED BY <1>2, <1>3

LEMMA OrderGoesOn ==
  ASSUME ShopInv, RequestsOK, NEW r \in Request,
         OrderType(r) \/ OrderPackage(r) \/ OrderArea(r) \/ OrderOffer(r)
  PROVE  req[r].op \in ShopOps /\ \E h : Awaits(r, h) /\ ShopLeft(h)
<1>1. CASE OrderType(r)
  BY <1>1, OrderMoves DEF OrderType
<1>2. CASE OrderPackage(r)
  BY <1>2, OrderMoves DEF OrderPackage
<1>3. CASE OrderArea(r)
  BY <1>3, OrderMoves DEF OrderArea
<1>4. CASE OrderOffer(r)
  BY <1>4, OrderMoves DEF OrderOffer
<1>. QED BY <1>1, <1>2, <1>3, <1>4

LEMMA OptionOrdered ==
  ASSUME ShopInv, RequestsOK, NEW r \in Request, OrderOption(r)
  PROVE  req[r].op \in ShopOps /\ \E h : Awaits(r, h) /\ ShopLeft(h)
<1>1. /\ req[r].op = "order" /\ req[r].op \in ShopOps /\ req[r].at = "option"
      /\ OrderHandler(req[r], ptype, package, option)
  BY OrderStands DEF OrderOption
<1>t. option \in [1..Options -> OptionRow]
  BY TablesNow
<1>. DEFINE o == req[r].option
            h == [req[r] EXCEPT !.at = "area", !.price = option[o].price]
<1>2. /\ UNCHANGED shop
      /\ \/ o \in Of(option, {req[r].package}) /\ Awaits(r, h)
         \/ Awaits(r, Idle)
  BY DEF OrderOption, Reply, Awaits
<1>3. CASE Awaits(r, Idle)
  BY <1>1, <1>2, <1>3, ShopSame
<1>4. CASE o \in Of(option, {req[r].package}) /\ Awaits(r, h)
  <2>1. /\ o \in 1..Options /\ option[o].row # "absent" /\ option[o].of = req[r].package
        /\ option[o].price \in Nat /\ o \in Of(option, {req[r].package}) /\ Awaits(r, h)
    BY <1>1, <1>t, <1>4, CatalogueAssumption DEF Of, Present, OptionRow, OrderHandler
  <2>2. req[r] \in [op : {"order"}, at : {"type", "package", "option", "area", "offer", "settings", "insert"},
                    service : 1..Services, ptype : 1..Types, package : 1..Packages, option : 1..Options,
                    zone : Zone, price : Nat, total : Nat, advance : Nat]
    BY <1>1 DEF OrderHandler
  <2>3. /\ h \in [op : {"order"}, at : {"type", "package", "option", "area", "offer", "settings", "insert"},
                  service : 1..Services, ptype : 1..Types, package : 1..Packages, option : 1..Options,
                  zone : Zone, price : Nat, total : Nat, advance : Nat]
        /\ h.at = "area" /\ h.op = req[r].op /\ h.service = req[r].service /\ h.ptype = req[r].ptype
        /\ h.package = req[r].package /\ h.option = o /\ h.price = option[o].price
        /\ h.total = req[r].total /\ h.advance = req[r].advance
    BY <2>1, <2>2
  <2>. HIDE DEF h
  <2>4. OrderHandler(h, ptype, package, option)
    BY <1>1, <2>1, <2>3 DEF OrderHandler
  <2>5. ShopHandler(h, ptype, package, option) /\ h.op \in ShopOps
    BY <1>1, <2>3, <2>4 DEF ShopHandler
  <2>6. ShopChecked(h, service, option, settings)
    BY <1>1, <2>3 DEF ShopChecked
  <2>7. ShopLeft(h)
    BY <1>2, <2>5, <2>6, ShopReads
  <2>. QED BY <1>1, <2>1, <2>7
<1>. QED BY <1>2, <1>3, <1>4

LEMMA OrderPriced ==
  ASSUME ShopInv, RequestsOK, NEW r \in Request, OrderSettings(r)
  PROVE  req[r].op \in ShopOps /\ \E h : Awaits(r, h) /\ ShopLeft(h)
<1>1. /\ req[r].op = "order" /\ req[r].op \in ShopOps /\ req[r].at = "settings"
      /\ OrderHandler(req[r], ptype, package, option)
      /\ ~workload.overlap => ShopChecked(req[r], service, option, settings)
  BY OrderStands DEF OrderSettings
<1>. DEFINE total == TotalOf(req[r].price, settings.tax)
            advance == AdvanceOf(total, settings.advance)
            h == [req[r] EXCEPT !.at = "insert", !.total = total, !.advance = advance]
<1>2. UNCHANGED shop /\ Awaits(r, h)
  BY DEF OrderSettings
<1>3. total \in Nat /\ advance \in Nat /\ advance <= total
  <2>1. req[r].price \in Nat
    BY <1>1 DEF OrderHandler
  <2>2. settings.tax \in 0..100 /\ settings.advance \in 0..100
    BY CatalogueAssumption DEF ShopInv, ShopTypeOK
  <2>. QED BY <2>1, <2>2, AmountsOK
<1>t. total = TotalOf(req[r].price, settings.tax) /\ advance = AdvanceOf(total, settings.advance)
  OBVIOUS
<1>. HIDE DEF total, advance
<1>4. req[r] \in [op : {"order"}, at : {"type", "package", "option", "area", "offer", "settings", "insert"},
                  service : 1..Services, ptype : 1..Types, package : 1..Packages, option : 1..Options,
                  zone : Zone, price : Nat, total : Nat, advance : Nat]
  BY <1>1 DEF OrderHandler
<1>5. /\ h \in [op : {"order"}, at : {"type", "package", "option", "area", "offer", "settings", "insert"},
                service : 1..Services, ptype : 1..Types, package : 1..Packages, option : 1..Options,
                zone : Zone, price : Nat, total : Nat, advance : Nat]
      /\ h.at = "insert" /\ h.op = req[r].op /\ h.service = req[r].service /\ h.ptype = req[r].ptype
      /\ h.package = req[r].package /\ h.option = req[r].option /\ h.price = req[r].price
      /\ h.total = total /\ h.advance = advance
  BY <1>3, <1>4
<1>. HIDE DEF h
<1>6. OrderHandler(h, ptype, package, option)
  BY <1>1, <1>3, <1>5 DEF OrderHandler
<1>7. ShopHandler(h, ptype, package, option) /\ h.op \in ShopOps
  BY <1>1, <1>5, <1>6 DEF ShopHandler
<1>8. ~workload.overlap => ShopChecked(h, service, option, settings)
  BY <1>1, <1>t, <1>5 DEF ShopChecked
<1>9. ShopLeft(h)
  BY <1>2, <1>7, <1>8, ShopReads
<1>. QED BY <1>1, <1>2, <1>9

LEMMA OrderInserted ==
  ASSUME ShopInv, RequestsOK, NEW r \in Request, OrderInsert(r)
  PROVE  req[r].op \in ShopOps /\ Awaits(r, Idle) /\ ShopLeft(Idle)
<1>. DEFINE q == req[r]
            row == [row |-> "present", service |-> q.service, ptype |-> q.ptype, package |-> q.package,
                    option |-> q.option, total |-> q.total, advance |-> q.advance]
<1>1. /\ q.op = "order" /\ q.op \in ShopOps /\ q.at = "insert"
      /\ OrderHandler(q, ptype, package, option)
      /\ ~workload.overlap => ShopChecked(q, service, option, settings)
  BY OrderStands DEF OrderInsert
<1>2. Awaits(r, Idle) /\ UNCHANGED <<service, ptype, package, option, offer, open, settings>>
  BY DEF OrderInsert, Reply, Awaits
<1>3. \/ order' = order
      \/ /\ q.service \in Present(service) /\ q.ptype \in Present(ptype)
         /\ q.package \in Present(package) /\ q.option \in Present(option)
         /\ \E k \in NextRow(order, Orders) : order' = Insert(order, k, row)
  BY DEF OrderInsert
<1>4. CASE order' = order
  <2>1. UNCHANGED shop
    BY <1>2, <1>4 DEF shop
  <2>. QED BY <1>1, <1>2, <2>1, ShopSame
<1>5. ASSUME q.service \in Present(service), q.ptype \in Present(ptype),
             q.package \in Present(package), q.option \in Present(option),
             NEW k \in NextRow(order, Orders), order' = Insert(order, k, row)
      PROVE  ShopLeft(Idle)
  <2>t. order \in [1..Orders -> OrderRow]
    BY DEF ShopInv, ShopTypeOK, OrderRow
  <2>0. /\ q.service \in 1..Services /\ q.ptype \in 1..Types /\ q.package \in 1..Packages
        /\ q.option \in 1..Options /\ q.total \in Nat /\ q.advance \in Nat /\ q.advance <= q.total
        /\ ptype[q.ptype].of = q.service /\ package[q.package].of = q.ptype
        /\ option[q.option].of = q.package
    BY <1>1 DEF OrderHandler
  <2>1. row \in OrderRow
    BY <2>0 DEF OrderRow
  <2>2. /\ row.row = "present" /\ row.service = q.service /\ row.ptype = q.ptype /\ row.package = q.package
        /\ row.option = q.option /\ row.total = q.total /\ row.advance = q.advance
    OBVIOUS
  <2>3. k \in 1..Orders /\ order' = [order EXCEPT ![k] = row]
    BY <1>5 DEF NextRow, Insert
  <2>. HIDE DEF row
  <2>4. /\ order' \in [1..Orders -> OrderRow] /\ order'[k] = row
        /\ \A j \in 1..Orders : j # k => order'[j] = order[j]
    BY <2>t, <2>1, <2>3
  <2>5. ShopTypeOK'
    BY <1>2, <2>4 DEF ShopInv, ShopTypeOK, OrderRow
  <2>6. OrderFollowsCatalogue'
    <3>. SUFFICES ASSUME NEW j \in Present(order')
                  PROVE  /\ order'[j].service \in Present(service)
                         /\ order'[j].ptype \in Of(ptype, {order'[j].service})
                         /\ order'[j].package \in Of(package, {order'[j].ptype})
                         /\ order'[j].option # 0 => order'[j].option \in Of(option, {order'[j].package})
      BY <1>2 DEF OrderFollowsCatalogue
    <3>1. j \in 1..Orders /\ order'[j].row = "present"
      BY <2>4 DEF Present
    <3>2. CASE j = k
      BY <1>5, <2>0, <2>2, <2>4, <3>2 DEF Of
    <3>3. CASE j # k
      <4>1. order'[j] = order[j] /\ j \in Present(order)
        BY <2>t, <2>4, <3>1, <3>3 DEF Present
      <4>. QED BY <4>1 DEF ShopInv, OrderFollowsCatalogue
    <3>. QED BY <3>2, <3>3
  <2>7. ShopKept
    BY <1>2, Unmoved DEF ShopKept
  <2>8. ASSUME ~workload.overlap PROVE QuoteReal
    <3>1. /\ q.price = option[q.option].price /\ q.total = TotalOf(q.price, settings.tax)
          /\ q.advance = AdvanceOf(q.total, settings.advance)
      BY <1>1, <2>8 DEF ShopChecked
    <3>. DEFINE price == option[q.option].price
                shown == TotalOf(r2(price), settings.tax)
                most == IF price % Paisa = 0 THEN 0 ELSE Rupee
    <3>2. price \in Nat /\ settings.tax \in 0..100 /\ settings.advance \in 0..100
      BY <2>0, CatalogueAssumption DEF ShopInv, ShopTypeOK
    <3>3. /\ Within(q.total, shown, most)
          /\ Within(q.advance, AdvanceOf(shown, settings.advance), most)
      BY <3>1, <3>2, QuoteNear
    <3>4. /\ previewPrice(q.option).total = shown
          /\ previewPrice(q.option).advance = AdvanceOf(shown, settings.advance)
      BY DEF previewPrice
    <3>. HIDE DEF price, shown, most
    <3>5. /\ Within(row.total, previewPrice(row.option).total, most)
          /\ Within(row.advance, previewPrice(row.option).advance, most)
          /\ row.advance <= row.total
      BY <2>0, <2>2, <3>3, <3>4
    <3>6. \A j \in 1..Orders : order[j].row = "absent" /\ order'[j].row = "present" => j = k
      BY <2>t, <2>4
    <3>. QED BY <2>2, <2>4, <3>5, <3>6 DEF QuoteReal, price, most
  <2>9. ChoiceStays
    BY <1>2 DEF ChoiceStays
  <2>10. ShopStays
    BY <2>8, <2>9 DEF ShopStays
  <2>11. ~workload.overlap => NamesDistinct(service')
    BY <1>2 DEF ShopInv
  <2>. QED BY <2>5, <2>6, <2>7, <2>10, <2>11 DEF ShopLeft
<1>. QED BY <1>1, <1>2, <1>3, <1>4, <1>5

\* A step of the catalogue keeps its invariant.
LEMMA ShopKeeps ==
  ASSUME ShopInv, RequestsOK, workload' = workload, ShopNext
  PROVE  ShopInv' /\ ShopStays /\ \E r \in Request : Moves(r, ShopOps)
<1>1. PICK r \in Request : ShopStarts(r) \/ ShopWrites(r)
  BY DEF ShopNext
<1>2. CASE ShopStarts(r)
  <2>1. MayStart(r) /\ \E h : Awaits(r, h) /\ ShopLeft(h)
    <3>1. CASE \E tax, advance \in Optional(Percent) : UpdateOrgSettings(r, tax, advance)
      BY <3>1, SettingsChanged
    <3>2. CASE \E z \in Zone :
                 \/ \E S \in SUBSET (1..Services), on \in BOOLEAN : SetAreaServices(r, z, S, on)
                 \/ \E active \in Optional(BOOLEAN), lists \in Optional(SUBSET (1..Services)) :
                      UpdateZone(r, z, active, lists)
                 \/ \E s \in 1..Services, t \in 1..Types, p \in 1..Packages, o \in 1..Options :
                      PlaceOrder(r, s, t, p, o, z)
      <4>1. PICK z \in Zone :
                 \/ \E S \in SUBSET (1..Services), on \in BOOLEAN : SetAreaServices(r, z, S, on)
                 \/ \E active \in Optional(BOOLEAN), lists \in Optional(SUBSET (1..Services)) :
                      UpdateZone(r, z, active, lists)
                 \/ \E s \in 1..Services, t \in 1..Types, p \in 1..Packages, o \in 1..Options :
                      PlaceOrder(r, s, t, p, o, z)
        BY <3>2, Zenon
      <4>. QED BY <4>1, AreaBegins
    <3>. QED BY <1>2, <3>1, <3>2, ServiceBegins, PartBegins, ZenonT(60) DEF ShopStarts
  <2>. QED BY <2>1, ShopStep
<1>3. CASE ShopWrites(r)
  <2>1. req[r].op \in ShopOps /\ \E h : Awaits(r, h) /\ ShopLeft(h)
    BY <1>3, ServiceCreated, ServiceUpdated, PartUpdated, ServiceRemoved, PartCreated, OptionRemoved,
       AreaWritten, OrderGoesOn, OptionOrdered, OrderPriced, OrderInserted DEF ShopWrites
  <2>. QED BY <2>1, ShopStep
<1>. QED BY <1>1, <1>2, <1>3

\* A request of another kind leaves the catalogue, and the orders under way, alone.
LEMMA ShopFrame ==
  ASSUME ShopInv, UNCHANGED <<shop, workload>>, NEW ops, Stirs(ops), ops \intersect ShopOps = {}
  PROVE  ShopInv' /\ ShopStays
<1>i. Idle.op \notin ShopOps
  BY DEF Idle, ShopOps
<1>1. ASSUME NEW x \in Request PROVE req'[x] = req[x] \/ req'[x].op \notin ShopOps
  BY <1>i DEF Stirs
<1>2. ShopLeft(Idle) /\ workload' = workload
  BY ShopSame
<1>3. /\ service' = service /\ ptype' = ptype /\ package' = package /\ option' = option
      /\ settings' = settings
  BY DEF shop
<1>4. ASSUME NEW x \in Request
      PROVE  /\ ShopHandler(req'[x], ptype', package', option')
             /\ ~workload.overlap => ShopChecked(req'[x], service', option', settings')
  BY <1>1, <1>3, IdleShop DEF ShopInv
<1>. QED BY <1>2, <1>4 DEF ShopInv, ShopLeft

LEMMA ShopStartsOut ==
  ASSUME RequestInit, ShopInit
  PROVE  ShopInv
<1>1. \A x \in Request : req[x].op \notin ShopOps
  BY DEF RequestInit, Idle, ShopOps
<1>2. \A i \in Nat : First(i) \in {"present", "absent"} /\ (First(i) = "present" <=> i = 1)
  BY DEF First
<1>3. ShopTypeOK
  <2>1. service \in [1..Services -> [row : Existence, active : BOOLEAN, name : Name]]
    BY <1>2, CatalogueAssumption DEF ShopInit, Existence
  <2>2. ptype \in [1..Types -> [row : Existence, of : 1..Services, active : BOOLEAN]]
    BY <1>2, CatalogueAssumption DEF ShopInit, Existence
  <2>3. package \in [1..Packages -> [row : Existence, of : 1..Types, active : BOOLEAN, price : Price]]
    BY <1>2, CatalogueAssumption DEF ShopInit, Existence
  <2>4. option \in [1..Options -> [row : Existence, of : 1..Packages, active : BOOLEAN, price : Price]]
    BY <1>2, CatalogueAssumption DEF ShopInit, Existence
  <2>. QED BY <2>1, <2>2, <2>3, <2>4, CatalogueAssumption DEF ShopInit, ShopTypeOK
<1>4. Present(order) = {}
  BY DEF ShopInit, Present
<1>5. NamesDistinct(service)
  BY <1>2 DEF ShopInit, Present, NamesDistinct
<1>. QED BY <1>1, <1>3, <1>4, <1>5, IdleShop DEF ShopInv, OrderFollowsCatalogue

\* What is listed, level by level, is what can be ordered.
LEMMA ShownCanBeOrdered ==
  ASSUME ShopTypeOK
  PROVE  ShownIsOrderable
<1>t. /\ DOMAIN service = 1..Services /\ DOMAIN ptype = 1..Types
      /\ DOMAIN package = 1..Packages /\ DOMAIN option = 1..Options
  BY DEF ShopTypeOK
<1>1. ASSUME NEW o
      PROVE  o \in Orderable <=>
               \E s \in Active(service) : \E t \in Active(ptype) : \E p \in Active(package) :
                 /\ o \in Active(option)
                 /\ option[o].of = p /\ package[p].of = t /\ ptype[t].of = s /\ ServiceOf(o) = s
  BY DEF Orderable, ServiceOf
<1>2. ASSUME NEW s PROVE findPropertyTypes(s) = {t \in Active(ptype) : ptype[t].of = s}
  BY DEF findPropertyTypes, Of, Active
<1>3. ASSUME NEW t, NEW q
      PROVE  q \in findPackages(t) => q[2] \in Active(option) /\ option[q[2]].of \in Active(package)
                                        /\ package[option[q[2]].of].of = t
  BY DEF findPackages, Of, Active
<1>4. ASSUME NEW o \in Active(option), option[o].of \in Active(package)
      PROVE  <<option[o].of, o>> \in findPackages(package[option[o].of].of)
  BY <1>4 DEF findPackages, Of, Active
<1>5. ASSUME NEW s, NEW o
      PROVE  o \in {q[2] : q \in UNION {findPackages(t) : t \in findPropertyTypes(s)}}
               <=> /\ o \in Active(option) /\ option[o].of \in Active(package)
                   /\ package[option[o].of].of \in Active(ptype) /\ ServiceOf(o) = s
  <2>1. ASSUME NEW t \in findPropertyTypes(s), NEW q \in findPackages(t), o = q[2]
        PROVE  /\ o \in Active(option) /\ option[o].of \in Active(package)
               /\ package[option[o].of].of \in Active(ptype) /\ ServiceOf(o) = s
    BY <1>2, <1>3, <2>1 DEF ServiceOf
  <2>2. ASSUME o \in Active(option), option[o].of \in Active(package),
               package[option[o].of].of \in Active(ptype), ServiceOf(o) = s
        PROVE  \E t \in findPropertyTypes(s) : \E q \in findPackages(t) : o = q[2]
    <3>1. package[option[o].of].of \in findPropertyTypes(s)
      BY <1>2, <2>2 DEF ServiceOf
    <3>2. <<option[o].of, o>>[2] = o
      OBVIOUS
    <3>. QED BY <1>4, <2>2, <3>1, <3>2
  <2>3. o \in {q[2] : q \in UNION {findPackages(t) : t \in findPropertyTypes(s)}}
          <=> \E t \in findPropertyTypes(s) : \E q \in findPackages(t) : o = q[2]
    OBVIOUS
  <2>. QED BY <2>1, <2>2, <2>3
<1>6. ASSUME NEW z \in Zone
      PROVE  /\ getServicesForPincode(z) = checkServiceArea(z)
             /\ getServicesForPincode(z) = checkPincodeAvailability(z)
             /\ AppOptions(z) = {o \in Orderable : open[z] /\ offer[z][ServiceOf(o)] # "off"}
  <2>1. /\ getServicesForPincode(z) = checkServiceArea(z)
        /\ getServicesForPincode(z) = checkPincodeAvailability(z)
    BY DEF getServicesForPincode, checkServiceArea, checkPincodeAvailability
  <2>2. ASSUME NEW s PROVE s \in checkServiceArea(z) <=>
                            s \in Active(service) /\ open[z] /\ offer[z][s] # "off"
    BY DEF checkServiceArea
  <2>3. ASSUME NEW o
        PROVE  o \in AppOptions(z)
                 <=> \E s \in checkServiceArea(z) :
                       o \in {q[2] : q \in UNION {findPackages(t) : t \in findPropertyTypes(s)}}
    BY DEF AppOptions
  <2>4. ASSUME NEW o
        PROVE  o \in AppOptions(z)
                 <=> /\ o \in Active(option) /\ option[o].of \in Active(package)
                     /\ package[option[o].of].of \in Active(ptype) /\ ServiceOf(o) \in Active(service)
                     /\ open[z] /\ offer[z][ServiceOf(o)] # "off"
    BY <1>5, <2>2, <2>3
  <2>. QED BY <2>1, <2>4 DEF Orderable
<1>7. ASSUME NEW s \in WebsiteServices
      PROVE  LET mine == {o \in Orderable : ServiceOf(o) = s} IN
               WebsiteOptions(s) = mine /\ findStartingPrices(s) = {option[o].price : o \in mine}
  <2>. DEFINE mine == {o \in Orderable : ServiceOf(o) = s}
  <2>0. s \in Active(service)
    BY DEF WebsiteServices
  <2>1. ASSUME NEW t PROVE t \in WebsitePropertyTypes(s) <=> t \in Active(ptype) /\ ptype[t].of = s
    BY <2>0 DEF WebsitePropertyTypes, Of, Active
  <2>2. ASSUME NEW t, NEW p
        PROVE  p \in WebsitePackages(s, t)
                 <=> /\ t \in Active(ptype) /\ ptype[t].of = s
                     /\ p \in Active(package) /\ package[p].of = t
    BY DEF WebsitePackages, Of, Active
  <2>3. ASSUME NEW p, NEW o
        PROVE  o \in WebsitePricingOptions(p)
                 <=> p \in Active(package) /\ o \in Active(option) /\ option[o].of = p
    BY DEF WebsitePricingOptions, Of, Active
  <2>4. ASSUME NEW o
        PROVE  o \in WebsiteOptions(s)
                 <=> \E t \in WebsitePropertyTypes(s) : \E p \in WebsitePackages(s, t) :
                       o \in WebsitePricingOptions(p)
    BY DEF WebsiteOptions
  <2>5. WebsiteOptions(s) = mine
    BY <2>0, <2>1, <2>2, <2>3, <2>4 DEF Orderable, ServiceOf
  <2>6. Of(option, Of(package, findPropertyTypes(s)) \intersect Active(package)) \intersect Active(option)
          = mine
    BY <1>2, <2>0 DEF Orderable, ServiceOf, Of, Active
  <2>. QED BY <2>5, <2>6 DEF findStartingPrices
<1>. QED BY <1>6, <1>7 DEF ShownIsOrderable

LEMMA ShopShows ==
  ASSUME ShopInv
  PROVE  ShopTypeOK /\ OrderFollowsCatalogue /\ ShownIsOrderable /\ ServiceNamesDistinct
BY ShownCanBeOrdered DEF ShopInv, NamesDistinct, ServiceNamesDistinct

-----------------------------------------------------------------------------
(* Days *)

\* A missed check-out that was asked about is decided one way or the other, and
\* charged if it counts for nothing, unless it is corrected by hand.
RowHolds(a) ==
  /\ a.ask # "none" => a.status # "CHECKED_IN"
  /\ a.ask = "PENDING" => a.charged
  /\ a.ask # "none" /\ a.status # "CHECKED_OUT" => (a.charged <=> a.status = "ABSENT")

\* The sessions are those of one after another, and only the last of a date is open.
InOrder(rows, n, now) ==
  /\ \A i, j \in 1..n : i < j => rows[i].in <= rows[j].in
  /\ \A i \in 1..n : rows[i].in <= now
  /\ \A i, j \in 1..n : i < j /\ rows[i].status = "CHECKED_IN" => Date(rows[i].in) < Date(rows[j].in)

\* A table of n sessions.
SessionsOK(rows, n) ==
  /\ n \in Nat /\ rows \in [1..n -> Row]
  /\ \A i \in 1..n : rows[i].in \in Instant /\ RowHolds(rows[i])

CalendarInv ==
  /\ CalendarTypeOK
  /\ attendance \in Seq(Row) /\ SessionsOK(attendance, Len(attendance))
  /\ "correctIn" \notin workload.ops => InOrder(attendance, Len(attendance), instant)

\* A session that is changed keeps its time, and is not opened again.
Follows(new, old, n) ==
  \A i \in 1..n : new[i].in = old[i].in /\ (new[i].status = "CHECKED_IN" => old[i].status = "CHECKED_IN")

LEMMA SeqOfRows ==
  ASSUME NEW n \in Nat, NEW rows \in [1..n -> Row]
  PROVE  rows \in Seq(Row) /\ Len(rows) = n /\ DOMAIN rows = 1..n
OBVIOUS

LEMMA RowsOfSeq ==
  ASSUME NEW rows \in Seq(Row)
  PROVE  Len(rows) \in Nat /\ rows \in [1..Len(rows) -> Row] /\ DOMAIN rows = 1..Len(rows)
OBVIOUS

LEMMA RowAppended ==
  ASSUME NEW rows \in Seq(Row), NEW row \in Row
  PROVE  /\ Append(rows, row) \in [1..(Len(rows) + 1) -> Row]
         /\ Append(rows, row)[Len(rows) + 1] = row
         /\ \A i \in 1..Len(rows) : Append(rows, row)[i] = rows[i]
<1>1. Append(rows, row) \in Seq(Row) /\ Len(Append(rows, row)) = Len(rows) + 1
  OBVIOUS
<1>2. Append(rows, row) \in [1..(Len(rows) + 1) -> Row]
  BY <1>1, RowsOfSeq
<1>3. Append(rows, row)[Len(rows) + 1] = row
  OBVIOUS
<1>4. ASSUME NEW i \in 1..Len(rows) PROVE Append(rows, row)[i] = rows[i]
  OBVIOUS
<1>. QED BY <1>2, <1>3, <1>4

LEMMA DateMoves ==
  ASSUME NEW s \in Int, NEW t \in Int
  PROVE  /\ Date(t) \in Int
         /\ s <= t => Date(s) <= Date(t)
BY CalendarAssumption DEF Date

LEMMA FollowsInOrder ==
  ASSUME NEW n, NEW now, NEW new, NEW old, InOrder(old, n, now), Follows(new, old, n)
  PROVE  InOrder(new, n, now)
BY DEF InOrder, Follows

LEMMA FlaggedRow ==
  ASSUME NEW a \in Row, RowHolds(a), a.ask = "none"
  PROVE  /\ Flagged(a) \in Row /\ RowHolds(Flagged(a))
         /\ Flagged(a).in = a.in /\ Flagged(a).status = "ABSENT"
BY DEF Flagged, Row, RowHolds

\* One session is changed.
LEMMA RowPut ==
  ASSUME NEW n, NEW rows, SessionsOK(rows, n), NEW i \in 1..n, NEW a \in Row, RowHolds(a),
         a.in \in Instant
  PROVE  /\ SessionsOK([rows EXCEPT ![i] = a], n)
         /\ a.in = rows[i].in /\ (a.status = "CHECKED_IN" => rows[i].status = "CHECKED_IN") =>
              Follows([rows EXCEPT ![i] = a], rows, n)
<1>1. rows \in [1..n -> Row] /\ n \in Nat
  BY DEF SessionsOK
<1>. DEFINE new == [rows EXCEPT ![i] = a]
<1>2. /\ new \in [1..n -> Row] /\ new[i] = a
      /\ \A j \in 1..n : j # i => new[j] = rows[j]
  BY <1>1
<1>. HIDE DEF new
<1>3. SessionsOK(new, n)
  BY <1>2 DEF SessionsOK
<1>4. a.in = rows[i].in /\ (a.status = "CHECKED_IN" => rows[i].status = "CHECKED_IN") => Follows(new, rows, n)
  BY <1>2 DEF Follows
<1>. QED BY <1>3, <1>4 DEF new

LEMMA FlagKeeps ==
  ASSUME NEW n, NEW rows, SessionsOK(rows, n), NEW i \in 1..n
  PROVE  /\ SessionsOK(FlagIfMissed(rows, i), n) /\ Follows(FlagIfMissed(rows, i), rows, n)
         /\ \A j \in 1..n : j # i => FlagIfMissed(rows, i)[j] = rows[j]
<1>1. /\ rows \in [1..n -> Row] /\ n \in Nat /\ rows[i] \in Row /\ RowHolds(rows[i])
      /\ rows[i].in \in Instant
  BY DEF SessionsOK
<1>2. CASE IsDue(rows[i]) /\ rows[i].ask = "none"
  <2>1. FlagIfMissed(rows, i) = [rows EXCEPT ![i] = Flagged(rows[i])]
    BY <1>1, <1>2 DEF FlagIfMissed
  <2>2. /\ Flagged(rows[i]) \in Row /\ RowHolds(Flagged(rows[i]))
        /\ Flagged(rows[i]).in = rows[i].in /\ Flagged(rows[i]).status = "ABSENT"
    BY <1>1, <1>2, FlaggedRow
  <2>3. /\ SessionsOK([rows EXCEPT ![i] = Flagged(rows[i])], n)
        /\ Follows([rows EXCEPT ![i] = Flagged(rows[i])], rows, n)
    BY <1>1, <2>2, RowPut
  <2>. QED BY <1>1, <2>1, <2>3
<1>3. CASE ~(IsDue(rows[i]) /\ rows[i].ask = "none")
  BY <1>3 DEF FlagIfMissed, Follows
<1>. QED BY <1>2, <1>3

\* A step that changes sessions, and leaves the clock alone.
LEMMA SessionsWritten ==
  ASSUME CalendarInv, workload' = workload, UNCHANGED <<instant, roster, leave, joined>>,
         SessionsOK(attendance', Len(attendance)),
         "correctIn" \notin workload.ops => Follows(attendance', attendance, Len(attendance))
  PROVE  CalendarInv'
<1>. DEFINE n == Len(attendance)
<1>1. n \in Nat /\ attendance' \in [1..n -> Row] /\ n <= workload.sessions
  BY DEF CalendarInv, CalendarTypeOK, SessionsOK
<1>2. attendance' \in Seq(Row) /\ Len(attendance') = n /\ DOMAIN attendance' = 1..n
  BY <1>1, SeqOfRows
<1>3. CalendarTypeOK'
  BY <1>1, <1>2 DEF CalendarInv, CalendarTypeOK, Rows
<1>4. "correctIn" \notin workload.ops => InOrder(attendance', n, instant)
  BY FollowsInOrder DEF CalendarInv
<1>. QED BY <1>2, <1>3, <1>4 DEF CalendarInv

\* A session begins when no other is open today.
LEMMA CheckedIn ==
  ASSUME CalendarInv, RequestsOK, workload' = workload, NEW r \in Request, CheckIn(r)
  PROVE  CalendarInv'
<1>. DEFINE n == Len(attendance)
            row == [in |-> instant, out |-> None, status |-> "CHECKED_IN", ask |-> "none", charged |-> FALSE]
            rows == Append(attendance, row)
<1>1. /\ n < workload.sessions /\ Open = {} /\ attendance' = FlagIfMissed(rows, n + 1)
      /\ UNCHANGED <<instant, roster, leave, joined>>
  BY DEF CheckIn
<1>t. /\ n \in Nat /\ attendance \in [1..n -> Row] /\ attendance \in Seq(Row)
      /\ \A i \in 1..n : attendance[i].in \in Instant /\ RowHolds(attendance[i])
      /\ instant \in Instant /\ workload.sessions \in Nat
  BY CalendarAssumption DEF CalendarInv, CalendarTypeOK, SessionsOK, RequestsOK
<1>i. Instant \subseteq Int
  BY DEF Instant
<1>2. row \in Row /\ RowHolds(row) /\ row.in = instant /\ row.status = "CHECKED_IN"
  BY <1>t, <1>i DEF Row, RowHolds
<1>. HIDE DEF row
<1>3. /\ rows \in [1..(n + 1) -> Row] /\ n + 1 \in Nat /\ rows[n + 1] = row
      /\ \A i \in 1..n : rows[i] = attendance[i]
  BY <1>t, <1>2, RowAppended
<1>. HIDE DEF rows, n
<1>4. SessionsOK(rows, n + 1)
  BY <1>t, <1>2, <1>3 DEF SessionsOK
<1>5. SessionsOK(attendance', n + 1) /\ Follows(attendance', rows, n + 1)
  BY <1>1, <1>t, <1>4, FlagKeeps
<1>6. ASSUME "correctIn" \notin workload.ops PROVE InOrder(attendance', n + 1, instant)
  <2>1. InOrder(attendance, n, instant)
    BY <1>6 DEF CalendarInv, n
  <2>2. ASSUME NEW i \in 1..n PROVE attendance[i].in <= instant /\ attendance[i].in \in Int
    BY <1>t, <1>i, <2>1 DEF InOrder
  <2>3. ASSUME NEW i \in 1..n, attendance[i].status = "CHECKED_IN"
        PROVE  Date(attendance[i].in) < Date(instant)
    <3>1. i \in Rows
      BY <1>t DEF Rows
    <3>2. Date(attendance[i].in) # Today
      BY <1>1, <2>3, <3>1 DEF Open, Todays
    <3>3. /\ Date(attendance[i].in) <= Date(instant)
          /\ Date(attendance[i].in) \in Int /\ Date(instant) \in Int
      BY <1>t, <1>i, <2>2, DateMoves
    <3>. QED BY <3>2, <3>3 DEF Today
  <2>4. InOrder(rows, n + 1, instant)
    <3>1. \A i \in 1..(n + 1) : i \in 1..n \/ i = n + 1
      BY <1>t
    <3>2. \A i \in 1..n, j \in 1..n : i < j => attendance[i].in <= attendance[j].in
      BY <2>1 DEF InOrder
    <3>3. \A i, j \in 1..(n + 1) : i < j => rows[i].in <= rows[j].in
      BY <1>t, <1>2, <1>3, <2>2, <3>1, <3>2
    <3>4. \A i \in 1..(n + 1) : rows[i].in <= instant
      BY <1>t, <1>i, <1>2, <1>3, <2>2, <3>1
    <3>5. \A i, j \in 1..(n + 1) : i < j /\ rows[i].status = "CHECKED_IN" => Date(rows[i].in) < Date(rows[j].in)
      <4>. SUFFICES ASSUME NEW i \in 1..(n + 1), NEW j \in 1..(n + 1), i < j, rows[i].status = "CHECKED_IN"
                    PROVE  Date(rows[i].in) < Date(rows[j].in)
        OBVIOUS
      <4>1. i \in 1..n /\ rows[i] = attendance[i]
        BY <1>t, <1>3
      <4>2. CASE j = n + 1
        BY <1>2, <1>3, <2>3, <4>1, <4>2
      <4>3. CASE j \in 1..n
        BY <1>3, <2>1, <4>1, <4>3 DEF InOrder
      <4>. QED BY <3>1, <4>2, <4>3
    <3>. QED BY <3>3, <3>4, <3>5 DEF InOrder
  <2>. QED BY <1>5, <2>4, FollowsInOrder
<1>7. attendance' \in [1..(n + 1) -> Row] /\ n + 1 <= workload.sessions
  BY <1>1, <1>t, <1>5 DEF SessionsOK, n
<1>8. attendance' \in Seq(Row) /\ Len(attendance') = n + 1 /\ DOMAIN attendance' = 1..(n + 1)
  BY <1>t, <1>7, SeqOfRows
<1>9. CalendarTypeOK'
  BY <1>1, <1>7, <1>8 DEF CalendarInv, CalendarTypeOK, Rows
<1>. QED BY <1>1, <1>5, <1>6, <1>8, <1>9 DEF CalendarInv

LEMMA CheckedOut ==
  ASSUME CalendarInv, workload' = workload, NEW r \in Request, CheckOut(r)
  PROVE  CalendarInv'
<1>. DEFINE n == Len(attendance)
<1>1. PICK i \in Open :
        \/ attendance' = FlagIfMissed(attendance, i)
        \/ \E j \in Open :
             /\ FlagIfMissed(attendance, i)[j].status = "CHECKED_IN"
             /\ attendance' = [FlagIfMissed(attendance, i) EXCEPT ![j].status = "CHECKED_OUT",
                                                                  ![j].out = instant]
  BY DEF CheckOut
<1>u. UNCHANGED <<instant, roster, leave, joined>>
  BY DEF CheckOut
<1>t. SessionsOK(attendance, n) /\ attendance \in [1..n -> Row] /\ instant \in Int
  BY DEF CalendarInv, CalendarTypeOK, SessionsOK, Instant
<1>2. Open \subseteq 1..n
  BY <1>t DEF Open, Todays, Rows
<1>. DEFINE rows == FlagIfMissed(attendance, i)
<1>3. SessionsOK(rows, n) /\ Follows(rows, attendance, n)
  BY <1>t, <1>2, FlagKeeps
<1>. HIDE DEF rows, n
<1>4. CASE attendance' = rows
  BY <1>u, <1>3, <1>4, SessionsWritten DEF n
<1>5. ASSUME NEW j \in Open, rows[j].status = "CHECKED_IN",
             attendance' = [rows EXCEPT ![j].status = "CHECKED_OUT", ![j].out = instant]
      PROVE  CalendarInv'
  <2>. DEFINE a == [rows[j] EXCEPT !.status = "CHECKED_OUT", !.out = instant]
  <2>1. j \in 1..n /\ rows \in [1..n -> Row] /\ rows[j] \in Row /\ rows[j].in \in Instant /\ RowHolds(rows[j])
    BY <1>2, <1>3 DEF SessionsOK
  <2>2. a \in Row /\ a.in = rows[j].in /\ a.status = "CHECKED_OUT" /\ RowHolds(a)
    BY <1>t, <2>1 DEF Row, RowHolds
  <2>3. attendance' = [rows EXCEPT ![j] = a]
    BY <1>5, <2>1
  <2>. HIDE DEF a
  <2>4. SessionsOK(attendance', n) /\ Follows(attendance', rows, n)
    BY <1>3, <2>1, <2>2, <2>3, RowPut
  <2>5. Follows(attendance', attendance, n)
    BY <1>3, <2>4 DEF Follows
  <2>. QED BY <1>u, <2>4, <2>5, SessionsWritten DEF n
<1>. QED BY <1>1, <1>4, <1>5 DEF rows

\* What is due is flagged, by whoever looks at it or by the sweep of the night.
LEMMA MissedFlagged ==
  ASSUME CalendarInv, workload' = workload, NEW r \in Request, LookAtToday(r) \/ Sweep(r)
  PROVE  CalendarInv'
<1>. DEFINE n == Len(attendance)
<1>u. UNCHANGED <<instant, roster, leave, joined>>
  BY DEF LookAtToday, Sweep
<1>t. SessionsOK(attendance, n) /\ attendance \in [1..n -> Row] /\ Rows = 1..n /\ n \in Nat
  BY DEF CalendarInv, SessionsOK, Rows
<1>1. CASE LookAtToday(r)
  <2>1. PICK i \in Open : attendance' = FlagIfMissed(attendance, i)
    BY <1>1 DEF LookAtToday
  <2>2. i \in 1..n
    BY <1>t DEF Open, Todays
  <2>3. SessionsOK(attendance', n) /\ Follows(attendance', attendance, n)
    BY <1>t, <2>1, <2>2, FlagKeeps
  <2>. QED BY <1>u, <2>3, SessionsWritten
<1>2. CASE Sweep(r)
  <2>1. PICK marked \in SUBSET {i \in Rows : IsDue(attendance[i]) /\ attendance[i].ask = "none"} :
          attendance' = [i \in Rows |-> IF i \in marked THEN Flagged(attendance[i]) ELSE attendance[i]]
    BY <1>2 DEF Sweep
  <2>2. ASSUME NEW i \in 1..n
        PROVE  /\ attendance[i] \in Row /\ RowHolds(attendance[i]) /\ attendance[i].in \in Instant
               /\ i \in marked => attendance[i].ask = "none"
    BY <1>t DEF SessionsOK
  <2>3. ASSUME NEW i \in 1..n
        PROVE  /\ attendance'[i] \in Row /\ RowHolds(attendance'[i])
               /\ attendance'[i].in = attendance[i].in
               /\ attendance'[i].status = "CHECKED_IN" => attendance[i].status = "CHECKED_IN"
    <3>1. CASE i \in marked
      BY <1>t, <2>1, <2>2, <3>1, FlaggedRow
    <3>2. CASE i \notin marked
      BY <1>t, <2>1, <2>2, <3>2
    <3>. QED BY <3>1, <3>2
  <2>4. attendance' \in [1..n -> Row]
    BY <1>t, <2>1, <2>3
  <2>5. SessionsOK(attendance', n) /\ Follows(attendance', attendance, n)
    BY <1>t, <2>2, <2>3, <2>4 DEF SessionsOK, Follows
  <2>. QED BY <1>u, <2>5, SessionsWritten
<1>. QED BY <1>1, <1>2

LEMMA MissedDecided ==
  ASSUME CalendarInv, RequestsOK, workload' = workload, NEW r \in Request, NEW i \in Rows,
         RejectMissed(r, i) \/ \E t \in workload.times : ApproveMissed(r, i, t)
  PROVE  CalendarInv'
<1>. DEFINE n == Len(attendance)
            a == attendance[i]
<1>u. UNCHANGED <<instant, roster, leave, joined>> /\ a.ask = "PENDING"
  BY DEF RejectMissed, ApproveMissed
<1>t. SessionsOK(attendance, n) /\ attendance \in [1..n -> Row] /\ i \in 1..n
  BY DEF CalendarInv, SessionsOK, Rows
<1>1. a \in Row /\ RowHolds(a) /\ a.in \in Instant
  BY <1>t DEF SessionsOK
<1>2. workload.times \subseteq Int
  BY CalendarAssumption DEF RequestsOK, Instant
<1>3. \A hours : resolveAttendanceOutcome(hours) \in {"PRESENT", "HALF_DAY", "ABSENT"}
  BY DEF resolveAttendanceOutcome
<1>4. PICK b : /\ attendance' = [attendance EXCEPT ![i] = b]
               /\ b \in Row /\ RowHolds(b) /\ b.in = a.in /\ b.status # "CHECKED_IN"
  <2>1. CASE RejectMissed(r, i)
    <3>. DEFINE b == [a EXCEPT !.status = "ABSENT", !.ask = "REJECTED"]
    <3>1. attendance' = [attendance EXCEPT ![i] = b]
      BY <1>t, <2>1 DEF RejectMissed
    <3>2. b \in Row /\ RowHolds(b) /\ b.in = a.in /\ b.status # "CHECKED_IN"
      BY <1>1, <1>u DEF Row, RowHolds
    <3>. QED BY <3>1, <3>2
  <2>2. ASSUME NEW t \in workload.times, ApproveMissed(r, i, t)
        PROVE  \E b : /\ attendance' = [attendance EXCEPT ![i] = b]
                      /\ b \in Row /\ RowHolds(b) /\ b.in = a.in /\ b.status # "CHECKED_IN"
    <3>. DEFINE status == resolveAttendanceOutcome(t - a.in)
                b == [a EXCEPT !.out = t, !.status = status, !.ask = "APPROVED",
                               !.charged = (status = "ABSENT")]
    <3>0. status \in {"PRESENT", "HALF_DAY", "ABSENT"} /\ t \in Int
      BY <1>2, <1>3
    <3>1. attendance' = [attendance EXCEPT ![i] = b]
      BY <1>t, <2>2 DEF ApproveMissed
    <3>. HIDE DEF status
    <3>2. (status = "ABSENT") \in BOOLEAN
      OBVIOUS
    <3>3. b \in Row /\ b.in = a.in /\ b.status = status /\ b.ask = "APPROVED" /\ b.charged = (status = "ABSENT")
      BY <1>1, <3>0, <3>2 DEF Row
    <3>. HIDE DEF b
    <3>4. RowHolds(b)
      BY <3>0, <3>3 DEF RowHolds
    <3>. QED BY <3>0, <3>1, <3>3, <3>4
  <2>. QED BY <2>1, <2>2
<1>5. SessionsOK(attendance', n) /\ Follows(attendance', attendance, n)
  BY <1>t, <1>1, <1>4, RowPut
<1>. QED BY <1>u, <1>5, SessionsWritten

LEMMA SessionCorrected ==
  ASSUME CalendarInv, RequestsOK, workload' = workload, NEW r \in Request, NEW i \in Rows,
         NEW in \in Optional(workload.times), NEW out \in Optional(workload.times), Correct(r, i, in, out)
  PROVE  CalendarInv'
<1>. DEFINE n == Len(attendance)
            a == attendance[i]
            b == [a EXCEPT !.in = Given(in, a.in), !.out = Given(out, a.out),
                           !.status = IF out = {} THEN a.status ELSE "CHECKED_OUT"]
<1>u. UNCHANGED <<instant, roster, leave, joined>>
  BY DEF Correct
<1>t. SessionsOK(attendance, n) /\ attendance \in [1..n -> Row] /\ i \in 1..n
  BY DEF CalendarInv, SessionsOK, Rows
<1>1. a \in Row /\ RowHolds(a) /\ a.in \in Instant
  BY <1>t DEF SessionsOK
<1>2. /\ workload.times \in SUBSET Instant /\ Instant \subseteq Int
      /\ workload.times \in SUBSET (Int \union {None})
  BY CalendarAssumption DEF RequestsOK, Instant
<1>3. Given(in, a.in) \in Instant /\ (in = {} => Given(in, a.in) = a.in)
  <2>1. in \in Optional(Instant)
    BY <1>2, OptionalWithin
  <2>. QED BY <1>1, <2>1, GivenType
<1>4. Given(out, a.out) \in Int \union {None}
  <2>1. out \in Optional(Int \union {None})
    BY <1>2, OptionalWithin
  <2>2. a.out \in Int \union {None}
    BY <1>1 DEF Row
  <2>. QED BY <2>1, <2>2, GivenType
<1>5. attendance' = [attendance EXCEPT ![i] = b]
  BY <1>t DEF Correct
<1>6. /\ b \in Row /\ RowHolds(b) /\ b.in = Given(in, a.in)
      /\ b.status = "CHECKED_IN" => a.status = "CHECKED_IN"
  BY <1>1, <1>2, <1>3, <1>4 DEF Row, RowHolds
<1>. HIDE DEF b
<1>7. SessionsOK(attendance', n)
  BY <1>t, <1>3, <1>5, <1>6, RowPut
<1>8. ASSUME "correctIn" \notin workload.ops PROVE Follows(attendance', attendance, n)
  <2>1. in = {}
    BY <1>8 DEF Correct, AtOnce, Arrives
  <2>. QED BY <1>t, <1>3, <1>5, <1>6, <2>1, RowPut
<1>. QED BY <1>u, <1>7, <1>8, SessionsWritten

\* Leave, shifts and time leave the sessions alone.
LEMMA RestKeeps ==
  ASSUME CalendarInv, RequestsOK, workload' = workload, NEW r \in Request,
         \/ Tick(r)
         \/ \E s \in Roster \union {None} : AssignRoster(r, s)
         \/ \E d \in 1..Days : ApplyLeave(r, d) \/ GrantLeave(r, d)
  PROVE  CalendarInv'
<1>1. attendance' = attendance /\ joined' = joined
  BY DEF Tick, AssignRoster, ApplyLeave, GrantLeave
<1>2. roster' \in Roster \union {None} /\ leave' \in [1..Days -> {"none", "PENDING", "APPROVED"}]
  BY DEF CalendarInv, CalendarTypeOK, Tick, AssignRoster, ApplyLeave, GrantLeave
<1>3. instant' \in Instant /\ (instant' = instant \/ instant' = instant + 1)
  BY DEF CalendarInv, CalendarTypeOK, Tick, AssignRoster, ApplyLeave, GrantLeave
<1>4. CalendarTypeOK'
  BY <1>1, <1>2, <1>3 DEF CalendarInv, CalendarTypeOK, Rows
<1>5. "correctIn" \notin workload.ops => InOrder(attendance, Len(attendance), instant')
  <2>1. \A i \in 1..Len(attendance) : attendance[i].in \in Int
    BY DEF CalendarInv, SessionsOK, Row
  <2>2. instant \in Int
    BY DEF CalendarInv, CalendarTypeOK, Instant
  <2>. QED BY <1>3, <2>1, <2>2 DEF CalendarInv, InOrder
<1>. QED BY <1>1, <1>4, <1>5 DEF CalendarInv

LEMMA CalendarKeeps ==
  ASSUME CalendarInv, RequestsOK, workload' = workload, CalendarNext
  PROVE  CalendarInv' /\ \E r \in Request : Moves(r, {})
<1>1. PICK r \in Request :
        \/ CheckIn(r) \/ CheckOut(r) \/ LookAtToday(r) \/ Sweep(r) \/ Tick(r)
        \/ \E s \in Roster \union {None} : AssignRoster(r, s)
        \/ \E d \in 1..Days : ApplyLeave(r, d) \/ GrantLeave(r, d)
        \/ \E i \in Rows :
             \/ RejectMissed(r, i)
             \/ \E t \in workload.times : ApproveMissed(r, i, t)
             \/ \E in, out \in Optional(workload.times) : Correct(r, i, in, out)
  BY DEF CalendarNext
<1>2. MayStart(r) /\ UNCHANGED req
  BY <1>1 DEF CheckIn, CheckOut, LookAtToday, Sweep, Tick, AssignRoster, ApplyLeave, GrantLeave,
     RejectMissed, ApproveMissed, Correct, AtOnce, Arrives
<1>3. Moves(r, {})
  BY <1>2, Started
<1>4. CalendarInv'
  BY <1>1, CheckedIn, CheckedOut, MissedFlagged, MissedDecided, SessionCorrected, RestKeeps
<1>. QED BY <1>3, <1>4

LEMMA CalendarFrame ==
  ASSUME CalendarInv, UNCHANGED <<calendar, workload>>
  PROVE  CalendarInv'
BY DEF CalendarInv, CalendarTypeOK, Rows, calendar

LEMMA CalendarStartsOut ==
  ASSUME RequestInit, workload \in Workloads, CalendarInit
  PROVE  CalendarInv
<1>1. /\ instant = Ticks /\ attendance = <<>> /\ roster \in Roster \union {None}
      /\ leave \in [1..Days -> {"none", "PENDING", "APPROVED"}] /\ joined \in 1..Days
      /\ workload.sessions \in Nat
  BY CalendarAssumption DEF CalendarInit
<1>2. Ticks \in Instant
  <2>1. Days \in Nat /\ Days >= 1 /\ Ticks \in Nat /\ Ticks >= 1
    BY <1>1, CalendarAssumption
  <2>2. Ticks * (Days + 1) = Ticks * Days + Ticks /\ Ticks * Days \in Nat
    BY <2>1
  <2>3. Ticks * Days >= 1
    BY <2>1, SMTT(30)
  <2>. QED BY <2>1, <2>2, <2>3 DEF Instant
<1>3. attendance \in Seq(Row) /\ Len(attendance) = 0 /\ DOMAIN attendance = {} /\ attendance \in [1..0 -> Row]
  BY <1>1
<1>4. CalendarTypeOK
  BY <1>1, <1>2, <1>3 DEF CalendarTypeOK, Rows
<1>. QED BY <1>3, <1>4 DEF CalendarInv, SessionsOK, InOrder

\* What a missed check-out costs.
LEMMA MissedIsCharged ==
  ASSUME CalendarInv
  PROVE  ChargedOrAttended
<1>1. ASSUME NEW i \in Rows PROVE attendance[i] \in Row /\ RowHolds(attendance[i])
  BY DEF CalendarInv, SessionsOK, Rows
<1>2. ASSUME NEW i \in Rows, attendance[i].ask # "none", attendance[i].status # "CHECKED_OUT"
      PROVE  attendance[i].charged <=> ~IsPresent(attendance[i]) /\ ~IsHalf(attendance[i])
  <2>. DEFINE a == attendance[i]
  <2>1. /\ a.status \in {"ABSENT", "PRESENT", "HALF_DAY"}
        /\ a.charged <=> a.status = "ABSENT"
    BY <1>1, <1>2 DEF Row, RowHolds
  <2>2. IsHalf(a) <=> a.status = "HALF_DAY"
    BY <2>1 DEF IsHalf
  <2>. HIDE DEF a
  <2>3. a.charged <=> ~IsPresent(a) /\ ~IsHalf(a)
    BY <2>1, <2>2 DEF IsPresent
  <2>. QED BY <2>3 DEF a
<1>. QED BY <1>2 DEF ChargedOrAttended

\* The sessions of today have a newest, which is the open one if one is open.
LEMMA OpenIsNewest ==
  ASSUME CalendarInv, InOrder(attendance, Len(attendance), instant), Todays # {}
  PROVE  /\ Newest(Todays) \in Todays
         /\ \A i \in Open : i = Newest(Todays)
<1>. DEFINE n == Len(attendance)
<1>t. n \in Nat /\ Rows = 1..n /\ \A i \in 1..n : attendance[i].in \in Int
  BY DEF CalendarInv, SessionsOK, Rows, Row
<1>1. Todays \in SUBSET (1..n)
  BY <1>t DEF Todays
<1>. HIDE DEF n
<1>2. PICK m \in Todays : \A j \in Todays : j <= m
  <2>1. Latest(Todays) \in Todays
    BY <1>t, <1>1, LatestOK
  <2>2. \A j \in Todays : j <= Latest(Todays)
    BY <1>t, <1>1, LatestOK
  <2>. QED BY <2>1, <2>2
<1>3. ASSUME NEW i \in 1..n, NEW j \in 1..n PROVE Before(i, j) <=> i < j
  <2>1. /\ i < j => attendance[i].in <= attendance[j].in
        /\ j < i => attendance[j].in <= attendance[i].in
    BY <1>3 DEF InOrder, n
  <2>. QED BY <1>t, <2>1 DEF Before
<1>4. Newest(Todays) = m
  <2>0. \A i \in Todays : i \in 1..n /\ i \in Nat
    BY <1>t, <1>1
  <2>1. \A j \in Todays \ {m} : Before(j, m)
    BY <1>2, <1>3, <2>0
  <2>2. ASSUME NEW i \in Todays, \A j \in Todays \ {i} : Before(j, i) PROVE i = m
    <3>1. ASSUME i # m PROVE FALSE
      <4>1. m < i
        BY <1>2, <1>3, <2>0, <2>2, <3>1
      <4>. QED BY <1>2, <2>0, <4>1
    <3>. QED BY <3>1
  <2>. QED BY <1>2, <2>1, <2>2 DEF Newest
<1>5. ASSUME NEW i \in Open PROVE i = m
  <2>1. i \in 1..n /\ i \in Todays /\ attendance[i].status = "CHECKED_IN"
    BY <1>1 DEF Open
  <2>2. i <= m /\ m \in 1..n
    BY <1>1, <1>2, <2>1
  <2>3. Date(attendance[i].in) = Today /\ Date(attendance[m].in) = Today /\ Today \in Int
    <3>1. Today \in Int
      BY DateMoves DEF CalendarInv, CalendarTypeOK, Instant, Today
    <3>. QED BY <1>2, <2>1, <3>1 DEF Todays
  <2>4. ~(i < m)
    BY <2>1, <2>2, <2>3 DEF InOrder, n
  <2>. QED BY <1>t, <2>1, <2>2, <2>4
<1>. QED BY <1>2, <1>4, <1>5

LEMMA CardsShowIt ==
  ASSUME CalendarInv
  PROVE  CardsAgree
<1>. SUFFICES ASSUME "correctIn" \notin workload.ops
              PROVE  /\ Shown = "CHECKED_IN" <=> TodayCheckIn
                     /\ CheckedInToday = IF TodayCheckIn THEN 1 ELSE 0
  BY DEF CardsAgree
<1>1. InOrder(attendance, Len(attendance), instant)
  BY DEF CalendarInv
<1>2. TodayCheckIn <=> Open # {}
  BY DEF TodayCheckIn, Open
<1>3. CASE Todays = {}
  <2>1. Open = {} /\ Shown = "none"
    BY <1>3 DEF Open, Shown
  <2>. QED BY <1>2, <2>1, FS_EmptySet DEF CheckedInToday
<1>4. CASE Todays # {}
  <2>. DEFINE m == Newest(Todays)
  <2>1. m \in Todays /\ \A i \in Open : i = m
    BY <1>1, <1>4, OpenIsNewest
  <2>2. Shown = attendance[m].status
    BY <1>4 DEF Shown
  <2>. HIDE DEF m
  <2>3. Shown = "CHECKED_IN" <=> m \in Open
    BY <2>1, <2>2 DEF Open
  <2>4. Open = IF m \in Open THEN {m} ELSE {}
    BY <2>1
  <2>5. CheckedInToday = IF m \in Open THEN 1 ELSE 0
    BY <2>4, FS_EmptySet, FS_Singleton DEF CheckedInToday
  <2>. QED BY <1>2, <2>3, <2>4, <2>5
<1>. QED BY <1>3, <1>4

\* A date in UTC is one of the calendar, and no later than the local one.
LEMMA KeyWithin ==
  ASSUME NEW t \in Instant
  PROVE  Key(t) \in 0..Days /\ Key(t) <= Date(t) /\ Date(t) \in Int
<1>1. /\ Ticks \in Nat /\ Ticks > 0 /\ Offset \in Nat /\ Offset < Ticks /\ Days \in Nat
      /\ t \in Int /\ t >= Ticks /\ t < Ticks * (Days + 1)
  BY CalendarAssumption DEF Instant
<1>2. Key(t) \in Int /\ Date(t) \in Int
  BY <1>1 DEF Key, Date
<1>3. Key(t) <= Date(t)
  <2>1. t - Offset \in Int /\ t - Offset <= t
    BY <1>1
  <2>. QED BY <1>1, <2>1, DateMoves DEF Key, Date
<1>4. Key(t) >= 0
  <2>1. t - Offset >= 0
    BY <1>1
  <2>. QED BY <1>1, <2>1 DEF Key
<1>5. Date(t) <= Days
  BY <1>1, SMTT(30) DEF Date
<1>. QED BY <1>1, <1>2, <1>3, <1>4, <1>5

\* What was observed on a day is what its entry says.
LEMMA ObservedIsShown ==
  ASSUME CalendarInv
  PROVE  ObservedWins
<1>. DEFINE n == Len(attendance)
<1>t. n \in Nat /\ Rows = 1..n /\ \A i \in 1..n : attendance[i].in \in Instant
  BY DEF CalendarInv, SessionsOK, Rows
<1>i. instant \in Instant /\ Window \in Nat /\ Slack \in Nat
  BY CalendarAssumption DEF CalendarInv, CalendarTypeOK
<1>k. Today \in Int /\ Key(instant) \in Int
  BY <1>i, KeyWithin DEF Today
<1>. HIDE DEF n
<1>. SUFFICES ASSUME NEW i \in Rows
              PROVE  LET d == Key(attendance[i].in) IN
                       /\ d > Today - Window => WorkerCalendar(Window)[d] = buildDayRecord(Attended(d))
                       /\ d >= Key(instant) - Window /\ Len(attendance) <= Window + Slack =>
                            ManagerCalendar(Window)[d] = FirstSession(Attended(d))
  BY DEF ObservedWins
<1>. DEFINE d == Key(attendance[i].in)
<1>1. d \in 0..Days /\ i \in Attended(d)
  BY <1>t, KeyWithin DEF Attended
<1>2. ASSUME d > Today - Window PROVE WorkerCalendar(Window)[d] = buildDayRecord(Attended(d))
  <2>1. {j \in WorkerHistory(Window) : Key(attendance[j].in) = d} = Attended(d)
    <3>1. ASSUME NEW j \in Attended(d) PROVE j \in WorkerHistory(Window)
      <4>1. j \in Rows /\ Key(attendance[j].in) = d /\ attendance[j].in \in Instant
        BY <1>t DEF Attended
      <4>2. d <= Date(attendance[j].in) /\ Date(attendance[j].in) \in Int
        BY <4>1, KeyWithin
      <4>3. Date(attendance[j].in) >= Today - (Window - 1)
        BY <1>i, <1>k, <1>1, <1>2, <4>2
      <4>. QED BY <4>1, <4>3 DEF WorkerHistory
    <3>. QED BY <3>1 DEF WorkerHistory, Attended
  <2>2. WorkerCalendar(Window)[d] = Filled(WorkerHistory(Window), Window, d, buildDayRecord)
    BY <1>1 DEF WorkerCalendar
  <2>. QED BY <1>1, <2>1, <2>2 DEF Filled
<1>3. ASSUME d >= Key(instant) - Window, Len(attendance) <= Window + Slack
      PROVE  ManagerCalendar(Window)[d] = FirstSession(Attended(d))
  <2>1. {j \in ManagerHistory(Window) : Key(attendance[j].in) = d} = Attended(d)
    <3>1. ASSUME NEW j \in Attended(d) PROVE j \in ManagerHistory(Window)
      <4>. DEFINE found == {k \in Rows : Key(attendance[k].in) >= Key(instant) - Window}
                  later == {k \in found : Before(j, k)}
      <4>1. j \in found
        BY <1>3 DEF Attended
      <4>2. later \subseteq Rows \ {j}
        <5>1. attendance[j].in \in Int /\ j \in Int
          BY <1>t, <4>1 DEF Instant
        <5>2. ~Before(j, j)
          BY <5>1 DEF Before
        <5>. QED BY <5>2
      <4>3. IsFiniteSet(Rows) /\ Cardinality(Rows) = n
        BY <1>t, FS_Interval
      <4>4. IsFiniteSet(Rows \ {j}) /\ Cardinality(Rows \ {j}) = n - 1
        BY <4>1, <4>3, FS_RemoveElement
      <4>5. Cardinality(later) <= n - 1 /\ Cardinality(later) \in Nat
        BY <4>2, <4>4, FS_Subset, FS_CardinalityType
      <4>6. Cardinality(later) < Window + Slack
        BY <1>t, <1>i, <1>3, <4>5 DEF n
      <4>. QED BY <4>1, <4>6 DEF ManagerHistory
    <3>. QED BY <3>1 DEF ManagerHistory, Attended
  <2>2. ManagerCalendar(Window)[d] = Filled(ManagerHistory(Window), Window, d, FirstSession)
    BY <1>1 DEF ManagerCalendar
  <2>. QED BY <1>1, <2>1, <2>2 DEF Filled
<1>. QED BY <1>2, <1>3

LEMMA CalendarShows ==
  ASSUME CalendarInv
  PROVE  CalendarTypeOK /\ DaysAreCounted
BY ObservedIsShown, MissedIsCharged, CardsShowIt DEF CalendarInv, DaysAreCounted

-----------------------------------------------------------------------------
(* The platform *)

\* What holds in every state: each part's invariant, and requests in order.
PlatformInv == RequestsOK /\ RegimeInv /\ ThingsInv /\ ShopInv /\ CalendarInv

LEMMA PlatformStartsOut ==
  ASSUME Init
  PROVE  PlatformInv
<1>1. RequestsOK
  BY DEF Init, RequestInit, RequestsOK
<1>. QED BY <1>1, RegimeStartsOut, ThingsStartsOut, ShopStartsOut, CalendarStartsOut
         DEF Init, RequestInit, PlatformInv

\* The parts give their requests different names.
LEMMA OpsApart ==
  /\ ShopOps \intersect ThingsOps = {} /\ ShopOps \intersect RegimeOps = {}
  /\ ThingsOps \intersect ShopOps = {} /\ ThingsOps \intersect RegimeOps = {}
  /\ RegimeOps \intersect ShopOps = {} /\ RegimeOps \intersect ThingsOps = {}
  /\ "idle" \notin ShopOps /\ "idle" \notin ThingsOps /\ "idle" \notin RegimeOps
BY DEF ShopOps, ThingsOps, RegimeOps

LEMMA PlatformRests ==
  ASSUME PlatformInv, UNCHANGED vars
  PROVE  PlatformInv' /\ ShopStays /\ UseStays
<1>1. UNCHANGED <<shop, things, regime, calendar, workload>> /\ req' = req
  BY DEF vars, handling
<1>2. RequestsOK' /\ Stirs({})
  BY <1>1 DEF PlatformInv, RequestsOK, Stirs
<1>3. RegimeInv' /\ UseStays /\ ShopInv' /\ ShopStays /\ CalendarInv'
  BY <1>1, <1>2, RegimeFrame, ShopFrame, CalendarFrame DEF PlatformInv
<1>4. ThingsInv'
  BY <1>1 DEF PlatformInv, ThingsInv, ThingsTypeOK, LiveDevicesStay, NotesAreAnswered, AsksKept, There, things
<1>. QED BY <1>2, <1>3, <1>4 DEF PlatformInv

\* One part's step keeps the invariants of them all.
LEMMA PlatformKeeps ==
  ASSUME PlatformInv, Next
  PROVE  PlatformInv' /\ ShopStays /\ UseStays
<1>w. /\ workload' = workload
      /\ RequestsOK /\ RegimeInv /\ ThingsInv /\ ShopInv /\ CalendarInv
  BY DEF Next, PlatformInv
<1>1. CASE ShopNext /\ UNCHANGED <<things, regime, calendar>>
  <2>1. ShopInv' /\ ShopStays /\ \E r \in Request : Moves(r, ShopOps)
    BY <1>w, <1>1, ShopKeeps
  <2>2. PICK r \in Request : Moves(r, ShopOps)
    BY <2>1
  <2>3. RequestsOK' /\ Stirs(ShopOps)
    BY <1>w, <2>2, OpsApart, MovesAlone
  <2>4. RegimeInv' /\ UseStays
    BY <1>w, <1>1, <2>3, OpsApart, RegimeFrame
  <2>5. ThingsInv'
    BY <1>w, <1>1, <2>2, OpsApart, ThingsFrame
  <2>6. CalendarInv'
    BY <1>w, <1>1, CalendarFrame
  <2>. QED BY <2>1, <2>3, <2>4, <2>5, <2>6 DEF PlatformInv
<1>2. CASE ThingsNext /\ UNCHANGED <<shop, regime, calendar>>
  <2>1. ThingsInv' /\ \E r \in Request : Moves(r, ThingsOps)
    BY <1>w, <1>2, ThingsKeeps
  <2>2. RequestsOK' /\ Stirs(ThingsOps)
    BY <1>w, <2>1, OpsApart, MovesAlone
  <2>3. RegimeInv' /\ UseStays
    BY <1>w, <1>2, <2>2, OpsApart, RegimeFrame
  <2>4. ShopInv' /\ ShopStays
    BY <1>w, <1>2, <2>2, OpsApart, ShopFrame
  <2>5. CalendarInv'
    BY <1>w, <1>2, CalendarFrame
  <2>. QED BY <2>1, <2>2, <2>3, <2>4, <2>5 DEF PlatformInv
<1>3. CASE RegimeNext /\ UNCHANGED <<shop, things, calendar>>
  <2>1. RegimeInv' /\ UseStays /\ \E r : Moves(r, RegimeOps)
    BY <1>w, <1>3, RegimeKeeps
  <2>2. PICK r : Moves(r, RegimeOps)
    BY <2>1
  <2>3. RequestsOK' /\ Stirs(RegimeOps)
    BY <1>w, <2>2, OpsApart, MovesAlone
  <2>4. ThingsInv'
    BY <1>w, <1>3, <2>2, OpsApart, ThingsFrame
  <2>5. ShopInv' /\ ShopStays
    BY <1>w, <1>3, <2>3, OpsApart, ShopFrame
  <2>6. CalendarInv'
    BY <1>w, <1>3, CalendarFrame
  <2>. QED BY <2>1, <2>3, <2>4, <2>5, <2>6 DEF PlatformInv
<1>4. CASE CalendarNext /\ UNCHANGED <<shop, things, regime>>
  <2>1. CalendarInv' /\ \E r \in Request : Moves(r, {})
    BY <1>w, <1>4, CalendarKeeps
  <2>2. PICK r \in Request : Moves(r, {})
    BY <2>1
  <2>3. RequestsOK' /\ Stirs({})
    BY <1>w, <2>2, MovesAlone
  <2>4. RegimeInv' /\ UseStays
    BY <1>w, <1>4, <2>3, RegimeFrame
  <2>5. ThingsInv'
    BY <1>w, <1>4, <2>2, ThingsFrame
  <2>6. ShopInv' /\ ShopStays
    BY <1>w, <1>4, <2>3, ShopFrame
  <2>. QED BY <2>1, <2>3, <2>4, <2>5, <2>6 DEF PlatformInv
<1>5. ASSUME NEW r \in Request, Fails(r), UNCHANGED <<shop, things, regime, calendar>>
      PROVE  PlatformInv' /\ ShopStays /\ UseStays
  <2>1. RequestsOK' /\ Stirs({})
    BY <1>w, <1>5, FailsAlone
  <2>2. RegimeInv' /\ UseStays
    BY <1>w, <1>5, <2>1, RegimeFrame
  <2>3. ShopInv' /\ ShopStays
    BY <1>w, <1>5, <2>1, ShopFrame
  <2>4. ThingsInv' /\ CalendarInv'
    BY <1>w, <1>5, ThingsFail, CalendarFrame
  <2>. QED BY <2>1, <2>2, <2>3, <2>4 DEF PlatformInv
<1>. QED BY <1>1, <1>2, <1>3, <1>4, <1>5 DEF Next

\* The invariant that the theorems below rest on.
THEOREM PlatformAlways == Spec => []PlatformInv
<1>1. Init => PlatformInv
  BY PlatformStartsOut
<1>2. PlatformInv /\ [Next]_vars => PlatformInv'
  BY PlatformKeeps, PlatformRests
<1>. QED BY <1>1, <1>2, PTL DEF Spec

\* Whatever mix of requests runs, and wherever they fail, every table of the
\* platform keeps its shape.
THEOREM PlatformTypes == Spec => []TypeOK
<1>1. PlatformInv => TypeOK
  BY ShopShows, ThingsShows, RegimeShows, CalendarShows DEF PlatformInv, RequestsOK, TypeOK
<1>. QED BY <1>1, PlatformAlways, PTL

\* An order's rows are there, one below the other, however they are edited and
\* deleted while it is placed and afterwards; and what customers are shown is
\* what they can order, by every list of the app and the website.
THEOREM CatalogueStands == Spec => []CatalogueHolds
<1>1. PlatformInv => CatalogueHolds
  BY ShopShows DEF PlatformInv, CatalogueHolds
<1>. QED BY <1>1, PlatformAlways, PTL

\* What handlers check in one query and write in a later one holds: distinct
\* names of services and shifts, and a default address and a photo of a kind at
\* most, when requests do not overlap; places of banners, rules and times always.
THEOREM ChecksHold == Spec => []CheckedBeforeWritten
<1>1. PlatformInv => CheckedBeforeWritten
  BY ShopShows, ThingsShows, RegimeShows DEF PlatformInv, CheckedBeforeWritten
<1>. QED BY <1>1, PlatformAlways, PTL

\* A note that is pending has a handler that will answer it, and a device is
\* given up only if it cannot be reached.
THEOREM NotesGetThere == Spec => []NotesArrive
<1>1. PlatformInv => NotesArrive
  BY ThingsShows DEF PlatformInv, NotesArrive
<1>. QED BY <1>1, PlatformAlways, PTL

\* However sessions, decisions, corrections, leave and shifts follow each other,
\* a day on which somebody came is shown as that, a missed check-out costs what
\* it does not count for, and the cards of today agree.
THEOREM DaysCount == Spec => []DaysAreCounted
<1>1. PlatformInv => DaysAreCounted
  BY CalendarShows DEF PlatformInv
<1>. QED BY <1>1, PlatformAlways, PTL

\* When requests do not overlap, no step takes a package's last option or a shift
\* from under whoever has it, and an order costs what its preview says, to the
\* rupee, and exactly unless its price has a fraction of a paisa.
THEOREM UseIsKept == Spec => InUseStays
<1>1. PlatformInv /\ [Next]_vars => ShopStays /\ UseStays
  BY PlatformKeeps, PlatformRests
<1>2. ShopStays =>
        [~workload.overlap =>
           \A p \in Present(package) : Of(option, {p}) # {} /\ package'[p].row = "present"
                                         => Of(option, {p})' # {}]_shop
  BY DEF ShopStays, ChoiceStays
<1>3. UseStays =>
        [~workload.overlap =>
           \A e \in Employee : shiftOf[e] # 0 => shiftOf'[e] \in InTable']_<<shift, shiftOf>>
  BY DEF UseStays
<1>4. ShopStays =>
        [~workload.overlap =>
           \A k \in 1..Orders : order[k].row = "absent" /\ order'[k].row = "present"
             => LET price == option[order'[k].option].price
                    shown == previewPrice(order'[k].option)
                    most == IF price % Paisa = 0 THEN 0 ELSE Rupee
                IN  /\ Within(order'[k].total, shown.total, most)
                    /\ Within(order'[k].advance, shown.advance, most)
                    /\ order'[k].advance <= order'[k].total]_order
  BY DEF ShopStays, QuoteReal
<1>. QED BY <1>1, <1>2, <1>3, <1>4, PlatformAlways, PTL
         DEF Spec, InUseStays, LastOptionStays, ShiftInUseStays, QuoteWasReal

=============================================================================
