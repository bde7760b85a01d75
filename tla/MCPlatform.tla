----------------------------- MODULE MCPlatform -----------------------------
(* A small instance of Platform for TLC. *)
EXTENDS Platform

CONSTANTS h1, h2, z1, u1, u2, d1, d2, e1

TwoRequests == {h1, h2}
OneZone == {z1}
TwoUsers == {u1, u2}
TwoDevices == {d1, d2}
OneEmployee == {e1}
TwoWords == {"wash", "dry"}
ThreeTitles == {"A", "B", "C"}
TwoPermanent == {"A", "B"}
OneKind == {"BEFORE"}
\* 499.50 rupees, and 99.4996.
TwoPrices == {4995000, 994996}
TwoPercents == {0, 18}
Wash == [word |-> "wash", spelling |-> "lower"]
DefaultRules == [lateAfter |-> 0, halfDayAfter |-> 1, autoAbsentTime |-> 2]

EarlyShift == [opens |-> 1, closes |-> 2, half |-> 1, full |-> 2, works |-> {1, 2}]
LongShift == [opens |-> 0, closes |-> 2, half |-> 2, full |-> 3, works |-> {1, 2, 3}]
TwoRosters == {EarlyShift, LongShift}

AnyAnswer == {{}, {TRUE}, {FALSE}}

\* names and prices are those in the catalogue's requests, switches what edits of
\* a service say of isActive, fresh is what trees add, asks is what requests about
\* addresses say of isDefault, and titles are the names given to shifts; sessions
\* and times are those of a person's days.
Mix(ops, overlap, failures) ==
  [ops |-> ops, overlap |-> overlap, failures |-> failures,
   names |-> {}, prices |-> {994996}, fresh |-> {}, switches |-> {}, asks |-> AnyAnswer, titles |-> {},
   sessions |-> 0, times |-> {}, rosters |-> {None}, joined |-> {1}]

Tall(word) == [word |-> word, spelling |-> "capital"]
Small(word) == [word |-> word, spelling |-> "lower"]

Serial(ops) == Mix(ops, FALSE, FALSE)
Crossing(ops) == Mix(ops, TRUE, FALSE)
PersonsDays(ops) == [Serial(ops) EXCEPT !.sessions = 2, !.rosters = TwoRosters \union {None}]
Overlapping(ops) == Mix(ops, TRUE, TRUE)

Mixes ==
  {[Serial({"createService", "updateService"}) EXCEPT !.names = Name, !.switches = BOOLEAN]
  ,[Serial({"createPackage", "createOption", "removeOption", "updateService"})
     EXCEPT !.fresh = {"none", "type", "package"}]
  ,Serial({"serviceStatus", "updateType", "updatePackage", "updateOption", "areaServices",
           "updateZone"})
  ,[Serial({"order", "settings", "updatePackage", "updateOption"}) EXCEPT !.prices = TwoPrices]
  ,Crossing({"order", "removeService", "removeType", "removePackage", "removeOption"})
  ,[Serial({"createService", "order"}) EXCEPT !.names = Name]
  ,[Crossing({"order", "updateService"}) EXCEPT !.fresh = {"none"}]
  ,Overlapping({"createType", "createPackage", "createOption", "removeService", "removeType",
                "removePackage"})
  ,[Serial({"createAddress", "updateAddress", "removeAddress"}) EXCEPT !.asks = {{}, {TRUE}}]
  ,Mix({"createAddress", "updateAddress", "removeAddress"}, FALSE, TRUE)
  ,Crossing({"createAddress", "removeAddress"})
  ,Serial({"registerDevice", "uninstall", "notify"})
  ,Crossing({"registerDevice", "notify"})
  ,Overlapping({"registerDevice", "notify", "read", "readAll"})
  ,Mix({"addPhoto"}, FALSE, TRUE)
  ,Crossing({"addPhoto"})
  ,[Serial({"listShifts", "createShift", "updateShift"}) EXCEPT !.titles = {Tall("C")}]
  ,[Serial({"listShifts", "createShift"}) EXCEPT !.titles = {Tall("A"), Tall("C")}]
  ,[Serial({"createShift", "shiftStatus", "deleteShift", "assignShift"})
     EXCEPT !.titles = {Tall("C"), Small("C")}]
  ,Crossing({"listShifts", "deleteShift", "assignShift"})
  ,Overlapping({"attendanceRules"})
  ,Crossing({"notificationSettings"})
  ,[PersonsDays({"tick", "checkIn", "checkOut"})
     EXCEPT !.sessions = 3, !.rosters = {EarlyShift, None}]
  ,[PersonsDays({"tick", "checkIn", "leave"})
     EXCEPT !.joined = {1, 2}, !.rosters = {LongShift, None}]
  ,[PersonsDays({"tick", "checkIn", "checkOut", "leave"}) EXCEPT !.rosters = {EarlyShift}]
  ,[PersonsDays({"tick", "checkIn", "checkOut", "look", "sweep", "decide"}) EXCEPT !.times = {6, 7}]
  ,[PersonsDays({"tick", "checkIn", "sweep", "decide", "roster"}) EXCEPT !.times = {6, 7}]
  ,[PersonsDays({"tick", "checkIn", "checkOut", "sweep", "correctIn"})
     EXCEPT !.times = {5, 9}, !.rosters = {EarlyShift, None}]
  ,[PersonsDays({"tick", "checkIn", "checkOut", "sweep", "correctOut", "decide"})
     EXCEPT !.times = {6, 7}, !.rosters = {EarlyShift}]
  ,Overlapping({"createBanner", "updateBanner", "removeBanner"})
  }

Symmetry == Permutations(TwoRequests)
=============================================================================
