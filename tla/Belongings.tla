----------------------------- MODULE Belongings -----------------------------
(***************************************************************************)
(* What belongs to one person and is written in several queries: the       *)
(* addresses of a customer (AddressesService), the devices and the         *)
(* notifications of a user with the push that delivers them                *)
(* (NotificationsService and FirebaseService), and the photos of a job     *)
(* (BookingsService.addPhoto).                                             *)
(*                                                                         *)
(* Every query names its owner, so one customer and one job are enough;    *)
(* texts, positions and platforms are left out.  Rows are numbered in the  *)
(* order they were created.                                                *)
(***************************************************************************)
EXTENDS Requests, TLC

CONSTANTS
  User,       \* those who have devices and are notified
  Device,     \* the tokens of app installations
  Kind,       \* kinds of photo
  Addresses, Notes, Photos   \* bounds: rows ever created of each table

VARIABLES
  address,   \* the customer's rows of the Address table
  device,    \* the DeviceToken table
  dead,      \* the tokens whose app is gone for good, as Firebase knows
  note,      \* the Notification table
  photo      \* the job's rows of the BookingPhoto table

things == <<address, device, dead, note, photo>>

PushDeliveryStatus == {"PENDING", "SENT", "FAILED", "SKIPPED"}

ASSUME BelongingsAssumption ==
  /\ Addresses \in Nat /\ Notes \in Nat /\ Photos \in Nat
  /\ \A w \in Workloads : w.asks \subseteq Optional(BOOLEAN)

ThingsInit ==
  /\ address = [a \in 1..Addresses |-> [row |-> "absent", default |-> FALSE]]
  /\ device = [d \in Device |-> [user |-> None, active |-> FALSE]]
  /\ dead = {}
  /\ note = [n \in 1..Notes |-> [row |-> "absent", user |-> None, status |-> "PENDING", read |-> FALSE]]
  /\ photo = [p \in 1..Photos |-> [row |-> "absent", kind |-> None]]

There(table) == {i \in DOMAIN table : table[i].row = "present"}

Latest(S) == CHOOSE a \in S : \A b \in S : b <= a

Goes(r, at) == Awaits(r, [req[r] EXCEPT !.at = at])

At(r, op, at) == Resumes(r, op) /\ req[r].at = at

-----------------------------------------------------------------------------
(* Addresses *)

\* updateMany of isDefault
Cleared == [a \in 1..Addresses |-> [address[a] EXCEPT !.default = FALSE]]

\* asks is the optional isDefault of the request.
CreateAddress(r, asks) ==
  /\ Arrives(r, "createAddress")
  /\ Awaits(r, [op |-> "createAddress", at |-> "count", asks |-> asks, first |-> FALSE])
  /\ address' = IF asks = {TRUE} THEN Cleared ELSE address
  /\ UNCHANGED <<device, dead, note, photo>>

CountAddresses(r) ==
  /\ At(r, "createAddress", "count")
  /\ Awaits(r, [req[r] EXCEPT !.at = "insert", !.first = There(address) = {}])
  /\ UNCHANGED things

CreateAddressWrite(r) ==
  /\ At(r, "createAddress", "insert")
  /\ \E a \in NextRow(address, Addresses) :
       address' = [address EXCEPT ![a] = [row |-> "present",
                                          default |-> Given(req[r].asks, req[r].first)]]
  /\ Reply(r)
  /\ UNCHANGED <<device, dead, note, photo>>

\* update, and setDefault, which is update with isDefault.
UpdateAddress(r, a, asks) ==
  /\ Arrives(r, "updateAddress")
  /\ a \in There(address)
  /\ Awaits(r, [op |-> "updateAddress", at |-> IF asks = {TRUE} THEN "clear" ELSE "write",
                address |-> a, asks |-> asks])
  /\ UNCHANGED things

ClearDefault(r) ==
  /\ At(r, "updateAddress", "clear")
  /\ address' = Cleared
  /\ Goes(r, "write")
  /\ UNCHANGED <<device, dead, note, photo>>

UpdateAddressWrite(r) ==
  /\ At(r, "updateAddress", "write")
  /\ LET a == req[r].address IN
       address' = IF a \in There(address)
                    THEN [address EXCEPT ![a].default = Given(req[r].asks, @)] ELSE address
  /\ Reply(r)
  /\ UNCHANGED <<device, dead, note, photo>>

RemoveAddress(r, a) ==
  /\ Arrives(r, "removeAddress")
  /\ a \in There(address)
  /\ Awaits(r, [op |-> "removeAddress", at |-> "delete", address |-> a, was |-> address[a].default])
  /\ UNCHANGED things

\* A row that is gone already makes the delete throw.
DeleteAddress(r) ==
  /\ At(r, "removeAddress", "delete")
  /\ LET a == req[r].address IN
       /\ address' = [address EXCEPT ![a] = [row |-> "gone", default |-> FALSE]]
       /\ IF a \in There(address) /\ req[r].was THEN Goes(r, "next") ELSE Reply(r)
  /\ UNCHANGED <<device, dead, note, photo>>

\* The latest of those left is found in one query and marked in another.
FindNext(r) ==
  /\ At(r, "removeAddress", "next")
  /\ IF There(address) = {} THEN Reply(r)
     ELSE Awaits(r, [req[r] EXCEPT !.at = "promote", !.address = Latest(There(address))])
  /\ UNCHANGED things

PromoteNext(r) ==
  /\ At(r, "removeAddress", "promote")
  /\ LET a == req[r].address IN
       address' = IF a \in There(address) THEN [address EXCEPT ![a].default = TRUE] ELSE address
  /\ Reply(r)
  /\ UNCHANGED <<device, dead, note, photo>>

-----------------------------------------------------------------------------
(* Devices and notifications *)

\* One upsert by token: a device changes hands with whoever signs in on it.
RegisterDevice(r, u, d) ==
  /\ AtOnce(r, "registerDevice")
  /\ d \notin dead
  /\ device' = [device EXCEPT ![d] = [user |-> u, active |-> TRUE]]
  /\ UNCHANGED <<address, dead, note, photo>>

\* The app is removed from a device; its token never works again.
Uninstall(r, d) ==
  /\ AtOnce(r, "uninstall")
  /\ dead' = dead \union {d}
  /\ UNCHANGED <<address, device, note, photo>>

\* notify stores the notification first.
Notify(r, u) ==
  /\ Arrives(r, "notify")
  /\ \E n \in NextRow(note, Notes) :
       /\ note' = [note EXCEPT ![n] = [@ EXCEPT !.row = "present", !.user = u]]
       /\ Awaits(r, [op |-> "notify", at |-> "tokens", note |-> n, tokens |-> {},
                     status |-> "PENDING", invalid |-> {}])
  /\ UNCHANGED <<address, device, dead, photo>>

\* Without tokens, or when Firebase is not configured, it is skipped.
FindTokens(r) ==
  /\ At(r, "notify", "tokens")
  /\ LET tokens == {d \in Device : device[d].user = note[req[r].note].user /\ device[d].active} IN
       \/ Awaits(r, [req[r] EXCEPT !.status = "SKIPPED", !.at = "result"])
       \/ /\ tokens # {}
          /\ Awaits(r, [req[r] EXCEPT !.tokens = tokens, !.at = "send"])
  /\ UNCHANGED things

\* Mutant: whatever was not delivered counts as dead.
UndeliveredTokens(tokens, reached) == tokens \ reached

\* The responses with one of the DEAD_TOKEN_CODES.
DeadTokens(tokens, reached) == tokens \intersect dead

\* Firebase delivers to some of the living devices; three attempts may throw.
SendToTokens(r) ==
  /\ At(r, "notify", "send")
  /\ \/ \E reached \in SUBSET (req[r].tokens \ dead) :
          Awaits(r, [req[r] EXCEPT !.at = "result",
                                   !.status = IF reached # {} THEN "SENT" ELSE "FAILED",
                                   !.invalid = DeadTokens(req[r].tokens, reached)])
     \/ Awaits(r, [req[r] EXCEPT !.at = "result", !.status = "FAILED"])
  /\ UNCHANGED things

RecordResult(r) ==
  /\ At(r, "notify", "result")
  /\ note' = [note EXCEPT ![req[r].note].status = req[r].status]
  /\ IF req[r].invalid = {} THEN Reply(r) ELSE Goes(r, "deactivate")
  /\ UNCHANGED <<address, device, dead, photo>>

DeactivateTokens(r) ==
  /\ At(r, "notify", "deactivate")
  /\ device' = [d \in Device |-> IF d \in req[r].invalid THEN [device[d] EXCEPT !.active = FALSE]
                                 ELSE device[d]]
  /\ Reply(r)
  /\ UNCHANGED <<address, dead, note, photo>>

\* findFirst and update
MarkAsRead(r, n) ==
  /\ AtOnce(r, "read")
  /\ n \in There(note)
  /\ note' = [note EXCEPT ![n].read = TRUE]
  /\ UNCHANGED <<address, device, dead, photo>>

MarkAllRead(r, u) ==
  /\ AtOnce(r, "readAll")
  /\ note' = [n \in 1..Notes |-> IF n \in There(note) /\ note[n].user = u
                                   THEN [note[n] EXCEPT !.read = TRUE] ELSE note[n]]
  /\ UNCHANGED <<address, device, dead, photo>>

-----------------------------------------------------------------------------
(* Photos *)

AddPhoto(r, kind) ==
  /\ Arrives(r, "addPhoto")
  /\ Awaits(r, [op |-> "addPhoto", at |-> "delete", kind |-> kind, stale |-> {}])
  /\ UNCHANGED things

\* The transaction is at read committed: it deletes the rows it can see now.
DeletePhotos(r) ==
  /\ At(r, "addPhoto", "delete")
  /\ Awaits(r, [req[r] EXCEPT !.at = "create",
                              !.stale = {p \in There(photo) : photo[p].kind = req[r].kind}])
  /\ UNCHANGED things

\* It inserts, and commits both.
CreatePhoto(r) ==
  /\ At(r, "addPhoto", "create")
  /\ \E new \in NextRow(photo, Photos) :
       photo' = [p \in 1..Photos |->
                   IF p = new THEN [row |-> "present", kind |-> req[r].kind]
                   ELSE IF p \in req[r].stale THEN [photo[p] EXCEPT !.row = "gone"] ELSE photo[p]]
  /\ Reply(r)
  /\ UNCHANGED <<address, device, dead, note>>

-----------------------------------------------------------------------------

ThingsStarts(r) ==
  \/ \E asks \in workload.asks :
       \/ CreateAddress(r, asks)
       \/ \E a \in 1..Addresses : UpdateAddress(r, a, asks)
  \/ \E a \in 1..Addresses : RemoveAddress(r, a)
  \/ \E u \in User :
       \/ \E d \in Device : RegisterDevice(r, u, d)
       \/ Notify(r, u) \/ MarkAllRead(r, u)
  \/ \E d \in Device : Uninstall(r, d)
  \/ \E n \in 1..Notes : MarkAsRead(r, n)
  \/ \E kind \in Kind : AddPhoto(r, kind)

ThingsWrites(r) ==
  \/ CountAddresses(r) \/ CreateAddressWrite(r) \/ ClearDefault(r) \/ UpdateAddressWrite(r)
  \/ DeleteAddress(r) \/ FindNext(r) \/ PromoteNext(r)
  \/ FindTokens(r) \/ SendToTokens(r) \/ RecordResult(r) \/ DeactivateTokens(r)
  \/ DeletePhotos(r) \/ CreatePhoto(r)

ThingsNext == \E r \in Request : ThingsStarts(r) \/ ThingsWrites(r)

-----------------------------------------------------------------------------
(* Properties *)

ThingsTypeOK ==
  /\ address \in [1..Addresses -> [row : {"absent", "present", "gone"}, default : BOOLEAN]]
  /\ device \in [Device -> [user : User \union {None}, active : BOOLEAN]]
  /\ dead \in SUBSET Device
  /\ note \in [1..Notes -> [row : {"absent", "present"}, user : User \union {None},
                            status : PushDeliveryStatus, read : BOOLEAN]]
  /\ photo \in [1..Photos -> [row : {"absent", "present", "gone"}, kind : Kind \union {None}]]

Defaults == {a \in There(address) : address[a].default}

\* Although every operation clears, counts, inserts, deletes and marks in
\* queries of their own, a customer never has two default addresses, and has
\* one, unless somebody asked for an address not to be it, as soon as there are
\* addresses.  Holds when requests do not overlap; the second part also needs
\* them not to fail half-way.
OneDefault ==
  ~workload.overlap =>
    /\ \A a, b \in Defaults : a = b
    /\ Quiet /\ ~workload.failures /\ {FALSE} \notin workload.asks =>
         (There(address) # {} => Defaults # {})

\* Whatever pushes are under way when devices are registered, change hands and
\* die, and however many deliveries fail, only a device whose app is gone is
\* ever taken off the list.
LiveDevicesStay ==
  \A d \in Device : device[d].user # None /\ ~device[d].active => d \in dead

\* A notification says how its push went as soon as nobody is working on it,
\* unless a query has failed, which `notify' keeps to itself.
NotesAreAnswered ==
  ~workload.failures =>
    \A n \in There(note) :
      note[n].status = "PENDING" => \E r \in Request : req[r].op = "notify" /\ req[r].note = n

\* A job has at most one photo of a kind, also when the app sends the same one
\* again because it does not know how the first time went.  Holds when requests
\* do not overlap.
OnePhotoPerKind ==
  ~workload.overlap =>
    \A p, q \in There(photo) : photo[p].kind = photo[q].kind => p = q
=============================================================================
