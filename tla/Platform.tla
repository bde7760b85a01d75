------------------------------ MODULE Platform ------------------------------
(***************************************************************************)
(* What the rest of the server stands on: the catalogue with its orders,   *)
(* what belongs to one person, the rules and banners administrators set,   *)
(* and a person's days, all written by requests of the same form.          *)
(***************************************************************************)
EXTENDS Catalogue, Belongings, Rules, Calendar

vars == <<handling, shop, things, regime, calendar>>

Init == RequestInit /\ ShopInit /\ ThingsInit /\ RegimeInit /\ CalendarInit

Next ==
  /\ \/ ShopNext /\ UNCHANGED <<things, regime, calendar>>
     \/ ThingsNext /\ UNCHANGED <<shop, regime, calendar>>
     \/ RegimeNext /\ UNCHANGED <<shop, things, calendar>>
     \/ CalendarNext /\ UNCHANGED <<shop, things, regime>>
     \/ \E r \in Request : Fails(r) /\ UNCHANGED <<shop, things, regime, calendar>>
  /\ workload' = workload

Spec == Init /\ [][Next]_vars

-----------------------------------------------------------------------------

\* Every table has the shape declared for it.
TypeOK == workload \in Workloads /\ ShopTypeOK /\ ThingsTypeOK /\ RegimeTypeOK /\ CalendarTypeOK

\* The catalogue holds: an order names one chain of rows of it, and whatever is
\* shown can be ordered.
CatalogueHolds == OrderFollowsCatalogue /\ ShownIsOrderable

\* What a query checks before a write holds after it: distinct names and places,
\* one default and one photo of a kind, rules and times in order.
CheckedBeforeWritten ==
  /\ ServiceNamesDistinct /\ ShiftNamesDistinct /\ BannersDistinct
  /\ OneDefault /\ OnePhotoPerKind
  /\ RulesOrdered /\ ShiftTimesOrdered

\* Notifications arrive: whatever fails on the way is answered, and no device
\* that could still be reached is given up.
NotesArrive == LiveDevicesStay /\ NotesAreAnswered

\* The calendars hold: those of several panels agree with each other, and with
\* what the month counts.
CalendarsHold == CalendarsAgree /\ AbsencesAgree

\* Days are counted as they were: what was observed on a day wins over what was
\* planned for it, a missed day is charged or attended, and every card of today
\* tells the same.
DaysAreCounted == ObservedWins /\ ChargedOrAttended /\ CardsAgree

\* What is in use stays, and what was quoted is what is charged.
InUseStays == LastOptionStays /\ ShiftInUseStays /\ QuoteWasReal
=============================================================================
