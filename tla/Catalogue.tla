------------------------------ MODULE Catalogue ------------------------------
(* The passes of the importer, one definition per entry of ENTITIES in         *)
(* src/lib/migration/zuper-sync.ts; Import says how a pass runs.                *)
(*                                                                             *)
(* map     the map of uids its records are kept under                          *)
(* side    how many records are worked on side by side                         *)
(* enrich  only records already imported are written                           *)
(* deps    the maps loaded before any record                                   *)
(* looks   the maps a record's own columns look uids up in                     *)
(* makes   the makers a record's own columns call                              *)
(* parts   the writers of the lists that hang off a record, in one set          *)
(* must    the maps a record is refused without a hit in                       *)
(* insert  how a record with no uid in the map gets its row: "insert" a new     *)
(*         row, "find" the row an earlier run left under its uid, "adopt" the    *)
(*         row of that name, "person" the account of that email, "sight" the    *)
(*         row its maker has just found or made                                *)
(* What follows the last record (rows linked to their parents, categories no    *)
(* longer listed made inactive) is left out.                                    *)
EXTENDS Writers

Entity(m, n) == [map |-> m, side |-> n, enrich |-> FALSE, deps |-> {}, looks |-> {},
                 makes |-> {}, parts |-> {}, must |-> {}, insert |-> "insert"]
\* A second pass over records already imported.
Enrichment(m, n, ds) == [Entity(m, n) EXCEPT !.enrich = TRUE, !.deps = ds]

(* -- Settings ------------------------------------------------------------- *)
JobCategories == [Entity("job_categories", 1) EXCEPT !.looks = {"users"}]
JobStatuses == [Entity("job_statuses", 1) EXCEPT
    !.looks = {"job_categories"}, !.makes = {StatusChecklist}, !.insert = "adopt"]
JobCardTemplates == [Entity("job_card_templates", 1) EXCEPT
    !.deps = {"job_categories"}, !.looks = {"job_categories", "users"}]
JobNotificationRules == [Entity("job_notification_rules", 1) EXCEPT
    !.deps = {"job_categories", "job_statuses", "users", "teams"},
    !.looks = {"job_categories", "job_statuses", "users", "teams"}]
ProductCategories == [Entity("product_categories", 1) EXCEPT !.looks = {"users"}]
RequestSources == [Entity("request_sources", 1) EXCEPT !.deps = {"users"}, !.looks = {"users"}]
RequestStatuses == Entity("request_statuses", 1)
StockLocations == Entity("stock_locations", 1)
AccessRoles == [Entity("access_roles", 1) EXCEPT !.looks = {"users"}, !.parts = {RolePermissions}]
CustomerCategories == [Entity("customer_categories", 1) EXCEPT
    !.makes = {CustomerCategoryId}, !.insert = "sight"]
Skills == [Entity("skills", 1) EXCEPT !.makes = {SkillByName}, !.insert = "sight"]
CustomFieldDefs == [Entity("custom_field_definitions", 1) EXCEPT
    !.makes = {CustomFieldDefinitionId}, !.insert = "sight"]

(* -- People and time ------------------------------------------------------- *)
Users == [Entity("users", 1) EXCEPT
    !.looks = {"users"}, !.insert = "person", !.makes = {WriteRole}, !.parts = {ZuperCustomFields}]
InactiveUsers == Users
ReferencedUsers == Users
Teams == [Entity("teams", 1) EXCEPT !.deps = {"users"}, !.looks = {"users"}, !.parts = {TeamMembers}]
MasterShifts == [Entity("master_shifts", 1) EXCEPT !.deps = {"users"}, !.looks = {"users"}]
UserShifts == [Entity("user_shifts", 8) EXCEPT
    !.deps = {"users", "teams"}, !.looks = {"users", "teams"}, !.must = {"users"}]
Timesheets == [Entity("timesheets", 8) EXCEPT
    !.deps = {"users"}, !.looks = {"users"}, !.must = {"users"}]
TimesheetLocations == [Entity("timesheet_locations", 1) EXCEPT
    !.deps = {"users"}, !.looks = {"users"}, !.parts = {LocationUsers}]
TimesheetApprovals == [Entity("timesheet_approvals", 4) EXCEPT
    !.deps = {"users", "teams"}, !.looks = {"users", "teams"}, !.must = {"users"},
    !.parts = {ApprovalHistory, ApprovalPunches}]
TimeoffTypes == [Entity("timeoff_types", 1) EXCEPT !.deps = {"users"}, !.looks = {"users"}]
TimeoffRequests == [Entity("timeoff_requests", 8) EXCEPT
    !.deps = {"users", "teams", "timeoff_types"}, !.looks = {"users", "teams", "timeoff_types"},
    !.must = {"users"}]
TimeoffAvailability == [Entity("timeoff_availability", 8) EXCEPT
    !.deps = {"users", "timeoff_types"}, !.looks = {"users", "timeoff_types"},
    !.must = {"users", "timeoff_types"}]

(* -- Records ---------------------------------------------------------------- *)
Organizations == [Entity("organizations", 8) EXCEPT
    !.looks = {"users"}, !.parts = {Addresses, ZuperCustomFields, RecordFiles}]
Customers == [Entity("customers", 8) EXCEPT
    !.looks = {"users"}, !.makes = {CustomerCategoryId, OrganizationId},
    !.parts = {Addresses, ZuperCustomFields, RecordFiles, CustomerTags}]
DeletedCustomers == Customers
Products == [Entity("products", 1) EXCEPT
    !.deps = {"product_categories", "users", "stock_locations"},
    !.looks = {"product_categories", "users"}, !.parts = {ProductStock, CustomFieldValues}]
ProductTransactions == [Entity("product_transactions", 8) EXCEPT
    !.deps = {"products", "users", "stock_locations"}, !.looks = {"users"},
    !.makes = {NamedPartOnSight, StockLocationId}, !.must = {"products"}]
Assets == [Entity("assets", 8) EXCEPT
    !.deps = {"customers", "asset_categories"}, !.looks = {"assets", "users"},
    !.makes = {AssetCategoryId, CustomerId, OrganizationId},
    !.parts = {ZuperCustomFields, RecordFiles}]
AssetHistory == [Entity("asset_history", 6) EXCEPT
    !.deps = {"assets", "customers", "organizations", "properties", "products", "jobs", "users"},
    !.looks = {"jobs", "properties", "products"},
    !.makes = {CustomerId, OrganizationId, UserOnSight}]
Projects == [Entity("projects", 1) EXCEPT
    !.deps = {"users", "customers", "organizations"},
    !.looks = {"users", "customers", "organizations"}]
PurchaseOrders == [Entity("purchase_orders", 1) EXCEPT
    !.deps = {"users", "jobs"}, !.looks = {"users", "jobs"}]
Properties == [Entity("properties", 1) EXCEPT
    !.deps = {"users", "customers", "organizations", "teams"},
    !.looks = {"users", "customers", "organizations", "properties"},
    !.parts = {PropertyCustomers, PropertyAssignees, PropertyTags, Addresses, CustomFieldValues,
               ZuperFiles}]
Contracts == [Entity("contracts", 1) EXCEPT
    !.deps = {"customers", "organizations", "products", "stock_locations"}, !.looks = {"users"},
    !.makes = {CustomerId, OrganizationId, ContractPackageId, PaymentTermId, BillingPeriod},
    !.parts = {Addresses, WhenTold(LineItems), RecordFiles}]
Requests == [Entity("requests", 1) EXCEPT
    !.deps = {"customers", "organizations", "users", "assets", "request_sources"},
    !.looks = {"users", "assets"},
    !.makes = {RequestSource, CustomerId, OrganizationId, RequestStatusId},
    !.parts = {Addresses, RequestStatusHistory}]
Estimates == [Entity("estimates", 1) EXCEPT
    !.deps = {"customers", "organizations", "jobs", "users", "products"},
    !.looks = {"jobs", "users"}, !.makes = {CustomerId, OrganizationId},
    !.parts = {LineItems, DocumentAddresses, QuoteStatusHistory, CustomFieldValues, RecordFiles,
               DocumentNotes}]
Invoices == [Entity("invoices", 1) EXCEPT
    !.deps = {"customers", "organizations", "jobs", "users", "products", "estimates"},
    !.looks = {"jobs", "users", "estimates"}, !.makes = {CustomerId, OrganizationId, PaymentTermId},
    !.parts = {LineItems, DocumentAddresses, ZuperCustomFields, RecordFiles, DocumentNotes,
               InvoiceStatusHistory}]
Notes == [Entity("notes", 16) EXCEPT
    !.deps = {"jobs", "requests", "assets", "customers", "projects", "purchase_orders", "users",
              "files"},
    !.looks = {"users"}, !.must = {"jobs"}, !.insert = "find", !.parts = {ZuperFiles}]

(* -- Jobs -------------------------------------------------------------------- *)
Jobs == [Entity("jobs", 8) EXCEPT
    !.deps = {"job_categories", "job_statuses", "customers", "organizations", "users", "teams",
              "service_territories"},
    !.makes = {JobCategoryId, CustomerId, OrganizationId, JobStatusId, TerritoryId, UserOnSight},
    !.must = {"job_categories", "customers"},
    !.parts = {JobAssignments, JobHistory, ZuperCustomFields, JobTeams, JobTags, JobAssets, ZuperFiles}]
JobsOldest == Jobs
DeletedJobs == Jobs
JobDetails == [Enrichment("jobs", 6, {"customers", "organizations", "users", "assets", "teams",
                                      "service_territories"}) EXCEPT
    !.looks = {"jobs", "assets"}, !.makes = {JobCategoryId, JobStatusId, UserOnSight, TerritoryId},
    !.parts = {WhenTold(JobHistory), WhenTold(JobAssignments), ZuperCustomFields, JobTeams, JobTags,
               JobAssets}]
JobPeople == [Enrichment("jobs", 8, {"users", "teams"}) EXCEPT
    !.makes = {TerritoryId}, !.parts = {WhenTold(JobAssignments), WhenTold(JobTags)}]
JobCustomFields == [Enrichment("jobs", 8, {}) EXCEPT !.parts = {ZuperCustomFields}]
JobActivity == [Enrichment("jobs", 10, {"users", "timelogs"}) EXCEPT
    !.parts = {ZuperActivity, WhenTold(JobTimelogs)}]
JobTimelogsPass == [Enrichment("jobs", 6, {"users", "teams", "timelogs"}) EXCEPT
    !.parts = {WhenTold(JobTimelogs), JobPunches, TimelogSummaries}]

(* -- What the lists leave out ------------------------------------------------- *)
\* Who made a record, and its custom fields: read one at a time where the list has neither.
ZuperFieldPass(m, n) == [Enrichment(m, n, {"users"}) EXCEPT
    !.looks = {"users"}, !.parts = {ZuperCustomFields}]
FieldPasses == {ZuperFieldPass(m, 6) : m \in {"customers", "organizations", "users"}}
               \cup {ZuperFieldPass(m, 8) : m \in {"assets", "invoices"}}
UserDetails == [Enrichment("users", 4, {"access_roles"}) EXCEPT !.looks = {"access_roles"}]
AssetDetails == [Enrichment("assets", 6, {"customers", "users", "teams", "products",
                                          "stock_locations"}) EXCEPT
    !.looks = {"customers", "users", "teams", "products", "stock_locations"},
    !.parts = {RecordFiles}]
CustomerDetails == [Enrichment("customers", 6, {}) EXCEPT
    !.looks = {"users"}, !.makes = {CustomerCategoryId, OrganizationId},
    !.parts = {FavoriteTechnicians, RecordFiles, CustomerTags}]
CustomerTagsPass == [Enrichment("customers", 8, {}) EXCEPT !.parts = {CustomerTags}]
NoteFields == Enrichment("notes", 16, {})
RecordActivity(m, n) == [Enrichment(m, n, {"users"}) EXCEPT !.parts = {ZuperActivity}]
ActivityPasses == {RecordActivity(m, 8) : m \in {"customers", "assets", "organizations", "properties"}}
RequestActivity == RecordActivity("requests", 4)
EstimateActivity == RecordActivity("estimates", 4)

Entities ==
    {JobCategories, JobStatuses, JobCardTemplates, JobNotificationRules, ProductCategories,
     RequestSources, RequestStatuses, StockLocations, AccessRoles, CustomerCategories, Skills,
     CustomFieldDefs, Users, InactiveUsers, ReferencedUsers, Teams, MasterShifts, UserShifts,
     Timesheets, TimesheetLocations, TimesheetApprovals, TimeoffTypes, TimeoffRequests,
     TimeoffAvailability, Organizations, Customers, DeletedCustomers, Products,
     ProductTransactions, Assets, AssetHistory, Projects, PurchaseOrders, Properties, Contracts,
     Requests, Estimates, Invoices, Notes, Jobs, JobsOldest, DeletedJobs, JobDetails, JobPeople,
     JobCustomFields, JobActivity, JobTimelogsPass, UserDetails, AssetDetails, CustomerDetails,
     CustomerTagsPass, NoteFields, RequestActivity, EstimateActivity}
    \cup FieldPasses \cup ActivityPasses

\* Every maker a record of the pass may reach.
MakersOf(e) == e.makes \cup UNION {w.makes : w \in e.parts}
==============================================================================
