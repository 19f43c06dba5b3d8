-------------------------------- MODULE Routes --------------------------------
(* What each event of Zuper means to the engine (src/routes.ts): its table of      *)
(* modules, and the lookup over it. An event is told apart here by what it is      *)
(* about, not by its name: the record or a part kept with it changed, or several   *)
(* records at once (bulk), or it was removed; a note on it came or went, or a      *)
(* file; something Zuper only serves as a list changed; or a thing aside from all  *)
(* these. One rule stands for all of a module's events of a kind, as in the table. *)
EXTENDS Sequences

\* The rules of two pieces of the table.
f ++ g == [what \in DOMAIN f \cup DOMAIN g |-> IF what \in DOMAIN f THEN f[what] ELSE g[what]]

Record == [changed |-> "reread"]
Bulk == [bulk |-> "reread"]
Removable == [removed |-> "delete"]
Notes == [noted |-> "notes", unnoted |-> "unnote"]
NewNotes == [noted |-> "notes"]
NoNotes == [noted |-> "skip", unnoted |-> "skip"]
Files == [filed |-> "reread", unfiled |-> "reread"]
FilesAdded == [filed |-> "reread", unfiled |-> "skip"]
Lists == [listed |-> "list"]
Aside == [aside |-> "skip"]

\* A module: its entity, the passes that follow, what is done with an event the table does not
\* know, and its rules.
Module(entity, rules) ==
    [entity |-> entity, enrich |-> <<>>, later |-> "reread", rules |-> rules]

\* A note is told by its record; recurrences, alerts, line items, chat and measurements are aside.
Job == [Module("jobs", Record ++ Bulk ++ Removable ++ Notes ++ FilesAdded ++ Aside)
            EXCEPT !.enrich = <<"job_details", "job_activity">>]
\* Zuper never deletes a customer; payment cards are aside.
Customer == Module("customers", Record ++ Bulk ++ Notes ++ Files ++ Aside)
Organization == Module("organizations", Record ++ Bulk ++ Removable ++ Files ++ Aside)
Property == Module("properties", Record ++ Bulk ++ Removable ++ FilesAdded)
\* Names no record: punches, time off, approvals and locations are lists; shifts, and a punch or
\* a time off that was deleted, are aside.
Timesheet == [Module("timesheets", Lists ++ Aside) EXCEPT !.later = "skip"]
\* Stock movements are a list; locations are aside.
Products == Module("products", Record ++ Bulk ++ Removable ++ Lists ++ Aside)
Estimates == [Module("estimates", Record ++ Bulk ++ Removable ++ NoNotes ++ Files ++ Aside)
                  EXCEPT !.enrich = <<"estimate_activity">>]
Invoice == Module("invoices", Record ++ Bulk ++ Removable ++ NoNotes ++ Files ++ Aside)
ServiceContracts == Module("contracts", Record ++ Bulk ++ Removable ++ NoNotes)
\* Inspections are aside.
Assets == Module("assets", Record ++ Bulk ++ Removable ++ Notes ++ Files ++ Aside)
Team == Module("teams", Record ++ Removable)
Project == Module("projects", Record ++ Bulk ++ Removable ++ NewNotes)
PurchaseOrder == Module("purchase_orders", Record ++ Removable ++ NewNotes ++ Aside)
User == Module("users", Record ++ Removable ++ Aside)
Request == Module("requests", Record ++ Removable ++ NewNotes)

Modules == [JOB |-> Job, CUSTOMER |-> Customer, ORGANIZATION |-> Organization,
            PROPERTY |-> Property, TIMESHEET |-> Timesheet, PRODUCTS |-> Products,
            ESTIMATES |-> Estimates, INVOICE |-> Invoice,
            SERVICE_CONTRACTS |-> ServiceContracts, ASSETS |-> Assets, TEAM |-> Team,
            PROJECT |-> Project, PURCHASE_ORDER |-> PurchaseOrder, USER |-> User,
            REQUEST |-> Request]

\* How one record of an entity is read. None the table routes to is without a way.
ListOnly == {"timesheets", "timeoff_requests", "timeoff_types", "timesheet_locations",
             "timesheet_approvals", "timeoff_availability", "product_transactions"}
Fetch(entity) == CASE entity = "notes" -> "host"
                   [] entity \in ListOnly -> "collection"
                   [] entity \in {"job_details", "job_activity", "estimate_activity"} -> "self"
                   [] OTHER -> "detail"

\* A rule's route. A note's passes are not its record's, and a deletion needs none.
EntityOf(spec, rule) == IF rule \in {"notes", "unnote"} THEN "notes" ELSE spec.entity
RouteOf(spec, rule, host) ==
    [entity |-> EntityOf(spec, rule),
     enrich |-> IF rule = "reread" THEN spec.enrich ELSE <<>>,
     fetch |-> IF rule = "list" THEN "collection" ELSE Fetch(EntityOf(spec, rule)),
     deletion |-> rule \in {"delete", "unnote"},
     noteHost |-> host,
     collection |-> rule = "list",
     skip |-> rule = "skip"]
\* A note that went read as the record that went.
BuildHostless(spec, rule) == RouteOf(spec, IF rule = "unnote" THEN "delete" ELSE rule, FALSE)
Build(spec, rule) == RouteOf(spec, rule, rule \in {"notes", "unnote"})

Unrouted == [skip |-> TRUE, entity |-> "none"]
(* An event the table knows is found by its key; another by its module or its prefix, which is *)
(* not always one (measurement, import): the record changed, unless the module says to skip it. *)
ResolveRoute(event) ==
    LET spec == Modules[event.module] IN
    CASE event.what # "later" -> Build(spec, spec.rules[event.what])
      [] event.what = "later" /\ event.prefixed -> Build(spec, spec.later)
      [] event.what = "later" /\ ~event.prefixed -> Unrouted
\* What Zuper may tell of a module.
Offered(module) == DOMAIN Modules[module].rules \cup {"later"}
===============================================================================
