------------------------------ MODULE Catalogue ------------------------------
(***************************************************************************)
(* What is sold, where, and for how much: services with their property     *)
(* types, packages and pricing options (the catalog services), which area  *)
(* offers which service (the areas service), the tax and the advance (the  *)
(* admin's settings), the lists the app and the website show, and the      *)
(* orders that are placed on them (BookingsService.create up to its        *)
(* insert, whose later life is module Booking's).                          *)
(*                                                                         *)
(* Amounts are in hundredths of a paisa, and exact: prices are Floats of   *)
(* any number of decimals.  An area stands for its postal code: that two   *)
(* active areas may share one is left out, like slots, addresses, texts    *)
(* and the order things are displayed in.                                  *)
(***************************************************************************)
EXTENDS Requests, TLC

CONSTANTS
  Zone,       \* the areas
  Word,       \* the words service names are made of
  Price,      \* what an option may cost
  Percent,    \* what the tax and the advance may be set to
  Services, Types, Packages, Options,  \* bounds: rows ever created of each table
  Orders      \* bound: orders ever placed

VARIABLES
  service,   \* the Service table
  ptype,     \* the PropertyType table: `of' is the service
  package,   \* the Package table: `of' is the property type
  option,    \* the PricingOption table: `of' is the package
  offer,     \* the AreaService table
  open,      \* which areas are active
  settings,  \* taxPercentage and advancePaymentPercentage
  order      \* the Booking table

shop == <<service, ptype, package, option, offer, open, settings, order>>

Name == [word : Word, spelling : {"lower", "capital"}]

Existence == {"absent", "present", "gone"}

CONSTANTS FirstName, FirstPrice, FirstPercent   \* what there is at the start

ASSUME CatalogueAssumption ==
  /\ Services \in Nat \ {0} /\ Types \in Nat \ {0} /\ Packages \in Nat \ {0}
  /\ Options \in Nat \ {0} /\ Orders \in Nat
  /\ Price \subseteq Nat /\ Percent \subseteq 0..100
  /\ FirstName \in Name /\ FirstPrice \in Price /\ FirstPercent \in Percent
  /\ \A w \in Workloads : w.names \subseteq Name /\ w.prices \subseteq Price /\ w.switches \subseteq BOOLEAN

First(i) == IF i = 1 THEN "present" ELSE "absent"

\* One service with one type, one package and one option, offered everywhere.
ShopInit ==
  /\ service = [s \in 1..Services |-> [row |-> First(s), active |-> TRUE, name |-> FirstName]]
  /\ ptype = [t \in 1..Types |-> [row |-> First(t), of |-> 1, active |-> TRUE]]
  /\ package = [p \in 1..Packages |->
                  [row |-> First(p), of |-> 1, active |-> TRUE, price |-> FirstPrice]]
  /\ option = [o \in 1..Options |->
                 [row |-> First(o), of |-> 1, active |-> TRUE, price |-> FirstPrice]]
  /\ offer = [z \in Zone |-> [s \in 1..Services |-> "unset"]]
  /\ open = [z \in Zone |-> TRUE]
  /\ settings = [tax |-> FirstPercent, advance |-> FirstPercent]
  /\ order = [k \in 1..Orders |->
                [row |-> "absent", service |-> 0, ptype |-> 0, package |-> 0, option |-> 0,
                 total |-> 0, advance |-> 0]]

Present(table) == {i \in DOMAIN table : table[i].row = "present"}

\* A row is inserted at i.
Insert(table, i, row) == [table EXCEPT ![i] = row]

Of(table, D) == {i \in Present(table) : table[i].of \in D}

Gone(table, D) ==
  [i \in DOMAIN table |-> IF i \in D THEN [table[i] EXCEPT !.row = "gone", !.active = FALSE]
                            ELSE table[i]]

\* A transaction leaves the tables svc, typ, pkg and opt, and deletes the rows S,
\* T, P and O of them with everything below.  An order keeps its service, type
\* and package from being deleted, and then nothing is written at all; its
\* option it loses.
Commit(svc, typ, pkg, opt, S, T, P, O) ==
  LET T2 == T \union Of(typ, S)
      P2 == P \union Of(pkg, T2)
      O2 == O \union Of(opt, P2)
      held == {k \in Present(order) :
                 order[k].service \in S \/ order[k].ptype \in T2 \/ order[k].package \in P2} IN
    IF held # {} THEN UNCHANGED <<service, ptype, package, option, offer, order>>
    ELSE
      /\ service' = Gone(svc, S) /\ ptype' = Gone(typ, T2)
      /\ package' = Gone(pkg, P2) /\ option' = Gone(opt, O2)
      /\ offer' = [z \in Zone |->
                     [s \in 1..Services |-> IF s \in S THEN "unset" ELSE offer[z][s]]]
      /\ order' = [k \in 1..Orders |->
                     IF order[k].option \in O2 THEN [order[k] EXCEPT !.option = 0] ELSE order[k]]

\* A transaction that deletes nothing.
Saves(svc, typ, pkg, opt) == Commit(svc, typ, pkg, opt, {}, {}, {}, {})

\* An update by id, which throws if the row is gone.
Updated(table, i, row) == IF i \in Present(table) THEN [table EXCEPT ![i] = row] ELSE table

-----------------------------------------------------------------------------
(* Services with their trees *)

\* mode: 'insensitive'
SameName(a, b) == a.word = b.word

NameTaken(name, except) ==
  \E s \in Present(service) \ except : SameName(service[s].name, name)

\* The options of a new package: those listed, or one at the base price.
toPricingOptionsCreate(basePrice, listed, active) ==
  [active |-> listed => active, price |-> basePrice]

\* The tree of a new service has one type with one package; either lists its
\* own option or gets the standard one.
CreateService(r, name, price, listed, active) ==
  /\ Arrives(r, "createService")
  /\ ~NameTaken(name, {})
  /\ Awaits(r, [op |-> "createService", name |-> name, price |-> price,
                listed |-> listed, active |-> active])
  /\ UNCHANGED shop

CreateServiceWrite(r) ==
  /\ Resumes(r, "createService")
  /\ \E s \in NextRow(service, Services), t \in NextRow(ptype, Types),
        p \in NextRow(package, Packages), o \in NextRow(option, Options) :
       LET new == toPricingOptionsCreate(req[r].price, req[r].listed, req[r].active) IN
         Saves(Insert(service, s, [row |-> "present", active |-> TRUE, name |-> req[r].name]),
               Insert(ptype, t, [row |-> "present", of |-> s, active |-> req[r].active]),
               Insert(package, p, [row |-> "present", of |-> t, active |-> req[r].active,
                                   price |-> req[r].price]),
               Insert(option, o, [row |-> "present", of |-> p, active |-> new.active,
                                  price |-> new.price]))
  /\ Reply(r)
  /\ UNCHANGED <<open, settings>>

\* A tree that may be submitted for s: the types, packages and options it lists
\* by id, what it says of their status and price, and, perhaps, a type or a
\* package without id.  One that lists anything else is refused.
Trees(s) ==
  UNION {UNION {
    [types : {T}, packages : {P}, options : SUBSET Of(option, P), active : Optional({FALSE}),
     price : workload.prices, fresh : workload.fresh]
    : P \in SUBSET Of(package, T)} : T \in SUBSET Of(ptype, {s})}

UpdateService(r, s, names, active, trees) ==
  /\ Arrives(r, "updateService")
  /\ s \in Present(service)
  /\ \A name \in names : ~NameTaken(name, {s})
  /\ Awaits(r, [op |-> "updateService", service |-> s, names |-> names, active |-> active,
                trees |-> trees])
  /\ UNCHANGED shop

\* Every node that is listed is one of this service's, under its own parent.
Belongs(s, tree) ==
  /\ tree.types \subseteq Of(ptype, {s})
  /\ tree.packages \subseteq Of(package, tree.types)
  /\ tree.options \subseteq Of(option, tree.packages)

\* The listed rows of a table, as the tree has them: without a word on its
\* status a node is active again.
Listed(table, D, active) ==
  [i \in DOMAIN table |-> IF i \in D THEN [table[i] EXCEPT !.active = active] ELSE table[i]]

Priced(table, D, price) ==
  [i \in DOMAIN table |-> IF i \in D THEN [table[i] EXCEPT !.price = price] ELSE table[i]]

\* The packages, by id, that are listed without options and get a standard one.
Bare(tree) == {p \in tree.packages : ~\E o \in tree.options : option[o].of = p}

\* The update of the tree within the transaction: what is listed is updated,
\* what has no id is created, and what is not listed is deleted.  At most one
\* option is created (a bound).
SyncTree(s, svc, tree) ==
  LET active == Given(tree.active, TRUE)
      typ == Listed(ptype, tree.types, active)
      pkg == Priced(Listed(package, tree.packages, active), tree.packages, tree.price)
      opt == Priced(Listed(option, tree.options, active), tree.options, tree.price)
      Standard(p) == [row |-> "present", of |-> p, active |-> TRUE, price |-> tree.price]
      Drop(T, P, O) == Commit(svc, T, P, O, {}, Of(ptype, {s}) \ tree.types,
                              Of(package, tree.types) \ tree.packages,
                              Of(option, tree.packages) \ tree.options) IN
    \/ /\ tree.fresh = "none" /\ Bare(tree) = {}
       /\ Drop(typ, pkg, opt)
    \/ /\ tree.fresh = "none"
       /\ \E p \in Bare(tree), o \in NextRow(option, Options) :
            /\ Bare(tree) = {p}
            /\ Drop(typ, pkg, Insert(opt, o, Standard(p)))
    \/ /\ tree.fresh = "type" /\ Bare(tree) = {}
       /\ \E t \in NextRow(ptype, Types) :
            Drop(Insert(typ, t, [row |-> "present", of |-> s, active |-> active]), pkg, opt)
    \/ /\ tree.fresh = "package" /\ Bare(tree) = {}
       /\ \E t \in tree.types, p \in NextRow(package, Packages), o \in NextRow(option, Options) :
            Drop(typ,
                 Insert(pkg, p, [row |-> "present", of |-> t, active |-> active,
                                 price |-> tree.price]),
                 Insert(opt, o, Standard(p)))

UpdateServiceWrite(r) ==
  /\ Resumes(r, "updateService")
  /\ LET s == req[r].service
         was == service[s]
         svc == [service EXCEPT ![s] = [was EXCEPT !.name = Given(req[r].names, was.name),
                                                   !.active = Given(req[r].active, was.active)]] IN
       IF s \notin Present(service) \/ \E tree \in req[r].trees : ~Belongs(s, tree)
         THEN UNCHANGED <<service, ptype, package, option, offer, order>>
         ELSE IF req[r].trees = {} THEN Saves(svc, ptype, package, option)
                                   ELSE \E tree \in req[r].trees : SyncTree(s, svc, tree)
  /\ Reply(r)
  /\ UNCHANGED <<open, settings>>

UpdateServiceStatus(r, s, active) ==
  /\ Arrives(r, "serviceStatus")
  /\ s \in Present(service)
  /\ Awaits(r, [op |-> "serviceStatus", service |-> s, active |-> active])
  /\ UNCHANGED shop

UpdateServiceStatusWrite(r) ==
  /\ Resumes(r, "serviceStatus")
  /\ LET s == req[r].service IN
       Saves(Updated(service, s, [service[s] EXCEPT !.active = req[r].active]),
             ptype, package, option)
  /\ Reply(r)
  /\ UNCHANGED <<open, settings>>

RemoveService(r, s) ==
  /\ Arrives(r, "removeService")
  /\ s \in Present(service)
  /\ Awaits(r, [op |-> "removeService", service |-> s])
  /\ UNCHANGED shop

RemoveServiceWrite(r) ==
  /\ Resumes(r, "removeService")
  /\ Commit(service, ptype, package, option, {req[r].service} \intersect Present(service), {}, {}, {})
  /\ Reply(r)
  /\ UNCHANGED <<open, settings>>

-----------------------------------------------------------------------------
(* Property types, packages and options one at a time *)

CreateType(r, s, active) ==
  /\ Arrives(r, "createType")
  /\ s \in Present(service)
  /\ Awaits(r, [op |-> "createType", service |-> s, active |-> active])
  /\ UNCHANGED shop

\* The foreign key wants the parent to be there still.
CreateTypeWrite(r) ==
  /\ Resumes(r, "createType")
  /\ \E t \in NextRow(ptype, Types) :
       LET s == req[r].service
           new == [row |-> "present", of |-> s, active |-> req[r].active] IN
         Saves(service, IF s \in Present(service) THEN Insert(ptype, t, new) ELSE ptype,
               package, option)
  /\ Reply(r)
  /\ UNCHANGED <<open, settings>>

UpdateType(r, t, active) ==
  /\ Arrives(r, "updateType")
  /\ t \in Present(ptype)
  /\ Awaits(r, [op |-> "updateType", ptype |-> t, active |-> active])
  /\ UNCHANGED shop

UpdateTypeWrite(r) ==
  /\ Resumes(r, "updateType")
  /\ LET t == req[r].ptype IN
       Saves(service, Updated(ptype, t, [ptype[t] EXCEPT !.active = req[r].active]), package, option)
  /\ Reply(r)
  /\ UNCHANGED <<open, settings>>

RemoveType(r, t) ==
  /\ Arrives(r, "removeType")
  /\ t \in Present(ptype)
  /\ Awaits(r, [op |-> "removeType", ptype |-> t])
  /\ UNCHANGED shop

RemoveTypeWrite(r) ==
  /\ Resumes(r, "removeType")
  /\ Commit(service, ptype, package, option, {}, {req[r].ptype} \intersect Present(ptype), {}, {})
  /\ Reply(r)
  /\ UNCHANGED <<open, settings>>

CreatePackage(r, t, price) ==
  /\ Arrives(r, "createPackage")
  /\ t \in Present(ptype)
  /\ Awaits(r, [op |-> "createPackage", ptype |-> t, price |-> price])
  /\ UNCHANGED shop

\* A package made here has no option.
CreatePackageWrite(r) ==
  /\ Resumes(r, "createPackage")
  /\ \E p \in NextRow(package, Packages) :
       LET t == req[r].ptype
           new == [row |-> "present", of |-> t, active |-> TRUE, price |-> req[r].price] IN
         Saves(service, ptype, IF t \in Present(ptype) THEN Insert(package, p, new) ELSE package,
               option)
  /\ Reply(r)
  /\ UNCHANGED <<open, settings>>

\* update and updateStatus
UpdatePackage(r, p, active, price) ==
  /\ Arrives(r, "updatePackage")
  /\ p \in Present(package)
  /\ Awaits(r, [op |-> "updatePackage", package |-> p, active |-> active, price |-> price])
  /\ UNCHANGED shop

UpdatePackageWrite(r) ==
  /\ Resumes(r, "updatePackage")
  /\ LET p == req[r].package
         new == [package[p] EXCEPT !.active = Given(req[r].active, @),
                                   !.price = Given(req[r].price, @)] IN
       Saves(service, ptype, Updated(package, p, new), option)
  /\ Reply(r)
  /\ UNCHANGED <<open, settings>>

RemovePackage(r, p) ==
  /\ Arrives(r, "removePackage")
  /\ p \in Present(package)
  /\ Awaits(r, [op |-> "removePackage", package |-> p])
  /\ UNCHANGED shop

RemovePackageWrite(r) ==
  /\ Resumes(r, "removePackage")
  /\ Commit(service, ptype, package, option, {}, {}, {req[r].package} \intersect Present(package), {})
  /\ Reply(r)
  /\ UNCHANGED <<open, settings>>

CreateOption(r, p, price) ==
  /\ Arrives(r, "createOption")
  /\ p \in Present(package)
  /\ Awaits(r, [op |-> "createOption", package |-> p, price |-> price])
  /\ UNCHANGED shop

CreateOptionWrite(r) ==
  /\ Resumes(r, "createOption")
  /\ \E o \in NextRow(option, Options) :
       LET p == req[r].package
           new == [row |-> "present", of |-> p, active |-> TRUE, price |-> req[r].price] IN
         Saves(service, ptype, package,
               IF p \in Present(package) THEN Insert(option, o, new) ELSE option)
  /\ Reply(r)
  /\ UNCHANGED <<open, settings>>

UpdateOption(r, o, active, price) ==
  /\ Arrives(r, "updateOption")
  /\ o \in Present(option)
  /\ Awaits(r, [op |-> "updateOption", option |-> o, active |-> active, price |-> price])
  /\ UNCHANGED shop

UpdateOptionWrite(r) ==
  /\ Resumes(r, "updateOption")
  /\ LET o == req[r].option
         new == [option[o] EXCEPT !.active = Given(req[r].active, @),
                                  !.price = Given(req[r].price, @)] IN
       Saves(service, ptype, package, Updated(option, o, new))
  /\ Reply(r)
  /\ UNCHANGED <<open, settings>>

\* Mutant: the options are not counted.
RemoveAnyOption(r, o) ==
  /\ Arrives(r, "removeOption")
  /\ o \in Present(option)
  /\ Awaits(r, [op |-> "removeOption", option |-> o])
  /\ UNCHANGED shop

\* The options are counted in one query, and the row is deleted in the next.
RemoveOption(r, o) ==
  /\ Arrives(r, "removeOption")
  /\ o \in Present(option)
  /\ Of(option, {option[o].of}) # {o}
  /\ Awaits(r, [op |-> "removeOption", option |-> o])
  /\ UNCHANGED shop

RemoveOptionWrite(r) ==
  /\ Resumes(r, "removeOption")
  /\ Commit(service, ptype, package, option, {}, {}, {}, {req[r].option} \intersect Present(option))
  /\ Reply(r)
  /\ UNCHANGED <<open, settings>>

-----------------------------------------------------------------------------
(* Areas and settings *)

Flag(on) == IF on THEN "on" ELSE "off"

\* Each listed service is switched; services that are not active count too.
SetAreaServices(r, z, S, on) ==
  /\ Arrives(r, "areaServices")
  /\ S # {} /\ S \subseteq Present(service)
  /\ Awaits(r, [op |-> "areaServices", zone |-> z, services |-> S, on |-> on])
  /\ UNCHANGED shop

SetAreaServicesWrite(r) ==
  /\ Resumes(r, "areaServices")
  /\ LET S == req[r].services IN
       offer' = IF S \subseteq Present(service)
                  THEN [offer EXCEPT ![req[r].zone] =
                          [s \in 1..Services |-> IF s \in S THEN Flag(req[r].on) ELSE @[s]]]
                  ELSE offer
  /\ Reply(r)
  /\ UNCHANGED <<service, ptype, package, option, open, settings, order>>

\* The area's status, and the list of its services that replaces the last one,
\* are one transaction; it is refused when the list has one that is not active.
UpdateZone(r, z, active, lists) ==
  /\ Arrives(r, "updateZone")
  /\ Awaits(r, [op |-> "updateZone", zone |-> z, active |-> active, lists |-> lists])
  /\ UNCHANGED shop

Active(table) == {i \in Present(table) : table[i].active}

setActiveServiceIdsInTx(z, S) ==
  [offer EXCEPT ![z] = [s \in 1..Services |-> IF s \in Active(service) THEN Flag(s \in S) ELSE @[s]]]

UpdateZoneWrite(r) ==
  /\ Resumes(r, "updateZone")
  /\ LET z == req[r].zone IN
       IF \A S \in req[r].lists : S \subseteq Active(service)
         THEN /\ open' = [open EXCEPT ![z] = Given(req[r].active, @)]
              /\ offer' = IF req[r].lists = {} THEN offer
                          ELSE setActiveServiceIdsInTx(z, Given(req[r].lists, {}))
         ELSE UNCHANGED <<open, offer>>
  /\ Reply(r)
  /\ UNCHANGED <<service, ptype, package, option, settings, order>>

\* One transaction upserts the fields that were sent.
UpdateOrgSettings(r, tax, advance) ==
  /\ AtOnce(r, "settings")
  /\ settings' = [tax |-> Given(tax, settings.tax), advance |-> Given(advance, settings.advance)]
  /\ UNCHANGED <<service, ptype, package, option, offer, open, order>>

-----------------------------------------------------------------------------
(* Prices and orders *)

Paisa == 100
Rupee == 100 * Paisa

\* To whole paise, and to whole rupees.
r2(n) == Paisa * ((n + 50) \div Paisa)
r0(n) == Rupee * ((n + 5000) \div Rupee)

\* r2, or r0, of so many per cent of an amount.
r2Percent(n, percent) == Paisa * ((n * percent + 5000) \div (100 * Paisa))
r0Percent(n, percent) == Rupee * ((n * percent + 500000) \div (100 * Rupee))

\* What `create' makes of the price as it is.
TotalOf(price, tax) == r0(price + r2Percent(price, tax))

AdvanceOf(total, percent) == r0Percent(total, percent)

\* What a customer is shown before the order: the price is rounded first.
previewPrice(o) ==
  LET total == TotalOf(r2(option[o].price), settings.tax) IN
    [total |-> total, advance |-> AdvanceOf(total, settings.advance)]

\* The service is looked up when the order arrives; each of the other lookups is
\* a query of its own.
PlaceOrder(r, s, t, p, o, z) ==
  /\ Arrives(r, "order")
  /\ s \in Active(service)
  /\ Awaits(r, [op |-> "order", at |-> "type", service |-> s, ptype |-> t, package |-> p,
                option |-> o, zone |-> z, price |-> 0, total |-> 0, advance |-> 0])
  /\ UNCHANGED shop

Stands(r, at) == Resumes(r, "order") /\ req[r].at = at

\* On to the next query, or the order is refused.
Proceeds(r, ok, at) == req' = [req EXCEPT ![r] = IF ok THEN [@ EXCEPT !.at = at] ELSE Idle]

\* Mutant: any type will do.
OrderAnyType(r) ==
  /\ Stands(r, "type")
  /\ Proceeds(r, req[r].ptype \in Active(ptype), "package")
  /\ UNCHANGED shop

OrderType(r) ==
  /\ Stands(r, "type")
  /\ Proceeds(r, req[r].ptype \in Active(ptype) \intersect Of(ptype, {req[r].service}), "package")
  /\ UNCHANGED shop

OrderPackage(r) ==
  /\ Stands(r, "package")
  /\ Proceeds(r, req[r].package \in Active(package) \intersect Of(package, {req[r].ptype}), "option")
  /\ UNCHANGED shop

\* The option's price is kept from here on.
OrderOption(r) ==
  /\ Stands(r, "option")
  /\ LET o == req[r].option IN
       IF o \in Active(option) \intersect Of(option, {req[r].package})
         THEN Awaits(r, [req[r] EXCEPT !.at = "area", !.price = option[o].price])
         ELSE Reply(r)
  /\ UNCHANGED shop

OrderArea(r) ==
  /\ Stands(r, "area")
  /\ Proceeds(r, open[req[r].zone], "offer")
  /\ UNCHANGED shop

OrderOffer(r) ==
  /\ Stands(r, "offer")
  /\ Proceeds(r, offer[req[r].zone][req[r].service] # "off", "settings")
  /\ UNCHANGED shop

\* The percentages are read after the price.
OrderSettings(r) ==
  /\ Stands(r, "settings")
  /\ LET total == TotalOf(req[r].price, settings.tax) IN
       Awaits(r, [req[r] EXCEPT !.at = "insert", !.total = total,
                                !.advance = AdvanceOf(total, settings.advance)])
  /\ UNCHANGED shop

\* Every foreign key must still have its row.
OrderInsert(r) ==
  /\ Stands(r, "insert")
  /\ \E k \in NextRow(order, Orders) :
       LET q == req[r] IN
         order' = IF /\ q.service \in Present(service) /\ q.ptype \in Present(ptype)
                     /\ q.package \in Present(package) /\ q.option \in Present(option)
                  THEN Insert(order, k,
                         [row |-> "present", service |-> q.service, ptype |-> q.ptype,
                          package |-> q.package, option |-> q.option,
                          total |-> q.total, advance |-> q.advance])
                  ELSE order
  /\ Reply(r)
  /\ UNCHANGED <<service, ptype, package, option, offer, open, settings>>

-----------------------------------------------------------------------------
(* What customers are shown *)

\* The app's three ways to ask what an area offers.
getServicesForPincode(z) ==
  IF open[z] THEN {s \in Active(service) : offer[z][s] # "off"} ELSE {}

checkServiceArea(z) ==
  IF open[z] THEN {s \in Active(service) : offer[z][s] # "off"} ELSE {}

checkPincodeAvailability(z) ==
  IF open[z] THEN {s \in Active(service) : offer[z][s] # "off"} ELSE {}

\* The app's lists below a service.
findPropertyTypes(s) == Of(ptype, {s}) \intersect Active(ptype)

\* Packages come with their options.
findPackages(t) ==
  UNION {{p} \X (Of(option, {p}) \intersect Active(option)) :
           p \in Of(package, {t}) \intersect Active(package)}

\* The website's lists, which know no areas.
WebsiteServices == Active(service)

WebsitePropertyTypes(s) == IF s \in Active(service) THEN Of(ptype, {s}) \intersect Active(ptype) ELSE {}

WebsitePackages(s, t) ==
  IF t \in Active(ptype) /\ ptype[t].of = s THEN Of(package, {t}) \intersect Active(package) ELSE {}

WebsitePricingOptions(p) ==
  IF p \in Active(package) THEN Of(option, {p}) \intersect Active(option) ELSE {}

\* The options whose package and type are active: the least price of theirs is
\* the starting price of the service.
findStartingPrices(s) ==
  {option[o].price : o \in Of(option, Of(package, findPropertyTypes(s)) \intersect Active(package))
                             \intersect Active(option)}

-----------------------------------------------------------------------------

ShopStarts(r) ==
  \/ \E name \in workload.names, price \in workload.prices, listed, active \in BOOLEAN :
       CreateService(r, name, price, listed, active)
  \/ \E s \in 1..Services :
       \/ \E names \in Optional(workload.names), active \in Optional(workload.switches),
             trees \in Optional(Trees(s)) :
            UpdateService(r, s, names, active, trees)
       \/ \E active \in BOOLEAN : UpdateServiceStatus(r, s, active) \/ CreateType(r, s, active)
       \/ RemoveService(r, s)
  \/ \E t \in 1..Types :
       \/ \E active \in BOOLEAN : UpdateType(r, t, active)
       \/ RemoveType(r, t)
       \/ \E price \in workload.prices : CreatePackage(r, t, price)
  \/ \E p \in 1..Packages :
       \/ \E active \in Optional(BOOLEAN), price \in Optional(workload.prices) : UpdatePackage(r, p, active, price)
       \/ RemovePackage(r, p)
       \/ \E price \in workload.prices : CreateOption(r, p, price)
  \/ \E o \in 1..Options :
       \/ \E active \in Optional(BOOLEAN), price \in Optional(workload.prices) : UpdateOption(r, o, active, price)
       \/ RemoveOption(r, o)
  \/ \E z \in Zone :
       \/ \E S \in SUBSET (1..Services), on \in BOOLEAN : SetAreaServices(r, z, S, on)
       \/ \E active \in Optional(BOOLEAN), lists \in Optional(SUBSET (1..Services)) :
            UpdateZone(r, z, active, lists)
  \/ \E tax, advance \in Optional(Percent) : UpdateOrgSettings(r, tax, advance)
  \/ \E s \in 1..Services, t \in 1..Types, p \in 1..Packages, o \in 1..Options, z \in Zone :
       PlaceOrder(r, s, t, p, o, z)

ShopWrites(r) ==
  \/ CreateServiceWrite(r) \/ UpdateServiceWrite(r) \/ UpdateServiceStatusWrite(r)
  \/ RemoveServiceWrite(r) \/ CreateTypeWrite(r) \/ UpdateTypeWrite(r) \/ RemoveTypeWrite(r)
  \/ CreatePackageWrite(r) \/ UpdatePackageWrite(r) \/ RemovePackageWrite(r)
  \/ CreateOptionWrite(r) \/ UpdateOptionWrite(r) \/ RemoveOptionWrite(r)
  \/ SetAreaServicesWrite(r) \/ UpdateZoneWrite(r)
  \/ OrderType(r) \/ OrderPackage(r) \/ OrderOption(r) \/ OrderArea(r) \/ OrderOffer(r)
  \/ OrderSettings(r) \/ OrderInsert(r)

ShopNext == \E r \in Request : ShopStarts(r) \/ ShopWrites(r)

-----------------------------------------------------------------------------
(* Properties *)

ShopTypeOK ==
  /\ service \in [1..Services -> [row : Existence, active : BOOLEAN, name : Name]]
  /\ ptype \in [1..Types -> [row : Existence, of : 1..Services, active : BOOLEAN]]
  /\ package \in [1..Packages -> [row : Existence, of : 1..Types, active : BOOLEAN, price : Price]]
  /\ option \in [1..Options -> [row : Existence, of : 1..Packages, active : BOOLEAN, price : Price]]
  /\ offer \in [Zone -> [1..Services -> {"unset", "on", "off"}]]
  /\ open \in [Zone -> BOOLEAN]
  /\ settings \in [tax : Percent, advance : Percent]
  /\ order \in [1..Orders -> [row : {"absent", "present"}, service : 0..Services,
                              ptype : 0..Types, package : 0..Packages, option : 0..Options,
                              total : Nat, advance : Nat]]

\* Whatever is edited and deleted while an order goes through its lookups, or
\* afterwards, an order's service, type, package and option are there and are
\* each a part of the one before: what the job's page and every report join.
OrderFollowsCatalogue ==
  \A k \in Present(order) :
    /\ order[k].service \in Present(service)
    /\ order[k].ptype \in Of(ptype, {order[k].service})
    /\ order[k].package \in Of(package, {order[k].ptype})
    /\ order[k].option # 0 => order[k].option \in Of(option, {order[k].package})

\* The options `create' accepts, with their package, type and service, when
\* nothing changes meanwhile.
ServiceOf(o) == ptype[package[option[o].of].of].of

Orderable ==
  {o \in Active(option) : /\ option[o].of \in Active(package)
                          /\ package[option[o].of].of \in Active(ptype)
                          /\ ServiceOf(o) \in Active(service)}

\* What a customer gets to by the app's lists, and by the website's.
AppOptions(z) ==
  UNION {{q[2] : q \in UNION {findPackages(t) : t \in findPropertyTypes(s)}} : s \in checkServiceArea(z)}

WebsiteOptions(s) ==
  UNION {UNION {WebsitePricingOptions(p) : p \in WebsitePackages(s, t)} : t \in WebsitePropertyTypes(s)}

\* However the tree is edited and switched on and off level by level, what the
\* app lists for an area, by any of its three ways, is exactly what can be
\* ordered there; the website's lists lead to exactly what can be ordered in
\* some area that offers it; and it takes the starting price from just that.
ShownIsOrderable ==
  /\ \A z \in Zone :
       /\ getServicesForPincode(z) = checkServiceArea(z)
       /\ getServicesForPincode(z) = checkPincodeAvailability(z)
       /\ AppOptions(z) = {o \in Orderable : open[z] /\ offer[z][ServiceOf(o)] # "off"}
  /\ \A s \in WebsiteServices :
       LET mine == {o \in Orderable : ServiceOf(o) = s} IN
         WebsiteOptions(s) = mine /\ findStartingPrices(s) = {option[o].price : o \in mine}

\* Once a package has something to choose, it never has nothing to choose:
\* neither deletion, nor an edit of the tree that leaves its options out, takes
\* the last one.  Holds when requests do not overlap.
LastOptionStays ==
  [][~workload.overlap =>
       \A p \in Present(package) : Of(option, {p}) # {} /\ package'[p].row = "present"
                                     => Of(option, {p})' # {}]_shop

\* No two services have names that differ in capitals only, although no unique
\* key says so.  Holds when requests do not overlap.
ServiceNamesDistinct ==
  ~workload.overlap =>
    \A s1, s2 \in Present(service) :
      s1 # s2 => service[s1].name.word # service[s2].name.word

Within(a, b, most) == a <= b + most /\ b <= a + most

\* An order costs what the preview says at that moment if the price has no
\* fraction of a paisa; otherwise, as only the preview rounds the price before it
\* is taxed (bookings.service.ts:1149 says that the two can never drift), each of
\* their amounts is within a rupee of the other's.  The advance is never more
\* than the order costs.  Holds when requests do not overlap.
QuoteWasReal ==
  [][~workload.overlap =>
       \A k \in 1..Orders : order[k].row = "absent" /\ order'[k].row = "present"
         => LET price == option[order'[k].option].price
                shown == previewPrice(order'[k].option)
                most == IF price % Paisa = 0 THEN 0 ELSE Rupee
            IN  /\ Within(order'[k].total, shown.total, most)
                /\ Within(order'[k].advance, shown.advance, most)
                /\ order'[k].advance <= order'[k].total]_order
=============================================================================
