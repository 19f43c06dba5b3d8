------------------------------- MODULE Writers -------------------------------
(* What the importer knows how to write beside a record's own row, one        *)
(* definition per function of src/lib/migration/zuper-sync.ts: the makers of   *)
(* rows a record only names (a customer, a status, a team ...), and the        *)
(* writers of the lists that hang off a record (its assignees, line items,     *)
(* files ...). ChildRows and Import say what these tables mean.                 *)
(*                                                                             *)
(* A maker keeps its rows under one map of uids. It is told apart by how it     *)
(* finds a row that map lacks:                                                 *)
(*   "insert"  a new row; names may repeat in the table                        *)
(*   "adopt"   a new row, and the row of that name when the table refuses it   *)
(*   "find"    the row of that name if there is one, else a new row            *)
(*   "match"   the row of that name (or key), never a new one                  *)
(*   "person"  the account of that email, else a new one, if Zuper has them    *)
(* once: callers of one run that name the same record share one attempt; a     *)
(* failed one is kept for the rest of the run, unless it forgets.              *)
(*                                                                             *)
(* A writer is told apart by when it writes and by what it removes:            *)
(*   gate "always"  an absent list is an empty one                             *)
(*        "told"    only when the answer carries the list                      *)
(*        "some"    only when the list has something in it                     *)
(*   how  "replace" every row of the parent goes, then the list is inserted     *)
(*        "diff"    those not listed go, the others are updated or added         *)
(*        "keyed"   a row is found by a key of its own, updated or added          *)
(*        "mapped"  the same, but only the map of uids knows the row              *)
(*        "marks"   rows another writer made are updated, none is added           *)
(* spares: rows that did not come from Zuper are left alone.                     *)
(* kept: the first write of a record skips the removal.                         *)
(* reads: the maps of uids it looks up in; makes: the makers it calls.          *)
Maker(m, b) == [map |-> m, by |-> b, once |-> TRUE, forgets |-> FALSE]
EachAnew(m) == [m EXCEPT !.once = FALSE]
Forgetting(m) == [m EXCEPT !.forgets = TRUE]

CustomerId == Maker("customers", "insert")
OrganizationId == Maker("organizations", "insert")
JobCategoryId == Maker("job_categories", "adopt")
JobStatusId == Maker("job_statuses", "adopt")
TeamId == Maker("teams", "adopt")
TerritoryId == Maker("service_territories", "adopt")
AssetCategoryId == Maker("asset_categories", "insert")
UserOnSight == Maker("users", "person")
ProductOnSight == Maker("products", "insert")
NamedPartOnSight == Maker("products", "insert")
DocumentTaxId == Maker("taxes", "insert")
ContractPackageId == Maker("contract_packages", "find")
RequestSource == Maker("request_sources", "insert")
RequestStatusId == Maker("request_statuses", "find")
CustomerCategoryId == Maker("customer_categories", "find")
StockLocationId == Maker("stock_locations", "find")
CustomFieldDefinitionId == Maker("custom_field_definitions", "find")
SkillByName == EachAnew(Maker("skills", "find"))
RetiredChecklistForm == Forgetting(Maker("job_status_checklists", "insert"))
StatusChecklist == EachAnew(Maker("job_status_checklists", "insert"))
PaymentTermId == EachAnew(Maker("payment_terms", "match"))
BillingPeriod == EachAnew(Maker("contract_billing_periods", "match"))
WriteRole == Forgetting(Maker("roles", "match"))

Makers == {CustomerId, OrganizationId, JobCategoryId, JobStatusId, TeamId, TerritoryId,
           AssetCategoryId, UserOnSight, ProductOnSight, NamedPartOnSight, DocumentTaxId,
           ContractPackageId, RequestSource, RequestStatusId, CustomerCategoryId, StockLocationId,
           CustomFieldDefinitionId, SkillByName, RetiredChecklistForm, StatusChecklist,
           PaymentTermId, BillingPeriod, WriteRole}

Writer(t, g, h, rs, ms) ==
    [table |-> t, gate |-> g, how |-> h, kept |-> FALSE, spares |-> FALSE,
     reads |-> rs, makes |-> ms]
\* The writers that are told whether the record is new, and then have nothing to remove.
FirstKeeps(w) == [w EXCEPT !.kept = TRUE]
SparesOurs(w) == [w EXCEPT !.spares = TRUE]

TeamMembers == Writer("team_members", "always", "replace", {"users"}, {})
Addresses == FirstKeeps(Writer("addresses", "always", "replace", {}, {}))
PropertyCustomers == Writer("property_customers", "told", "replace", {"customers"}, {})
PropertyAssignees == Writer("property_assignees", "told", "replace", {"users", "teams"}, {})
PropertyTags == Writer("taggables", "told", "replace", {}, {})
JobTeams == FirstKeeps(Writer("job_team_assignments", "always", "replace", {}, {TeamId}))
CustomerTags == Writer("taggables", "told", "replace", {}, {})
JobTags == Writer("taggables", "some", "replace", {}, {})
JobAssets == Writer("job_assets", "told", "replace", {"assets"}, {})
JobAssignments == FirstKeeps(Writer("job_assignments", "always", "replace", {"users", "teams"},
                                    {UserOnSight, WriteRole}))
ChecklistResponse == Writer("form_answers", "some", "replace",
                            {"users", "checklist_responses"}, {RetiredChecklistForm})
JobHistory == FirstKeeps(Writer("job_status_history", "always", "replace",
                                {"users"} \cup ChecklistResponse.reads,
                                {JobStatusId, JobCategoryId} \cup ChecklistResponse.makes))
LineItems == FirstKeeps(Writer("line_items", "always", "replace", {"products"},
                               {DocumentTaxId, StockLocationId, ProductOnSight}))
CustomFieldValues == Writer("custom_field_values", "some", "keyed", {}, {})
ZuperCustomFields == Writer("custom_field_values", "some", "keyed", {}, {})
DocumentAddresses == Writer("addresses", "some", "keyed", {}, {})
QuoteStatusHistory == SparesOurs(Writer("quote_status_history", "some", "replace", {"users"}, {}))
RequestStatusHistory == Writer("request_status_history", "some", "replace", {"users"},
                               {RequestStatusId})
InvoiceStatusHistory == Writer("invoice_status_history", "some", "replace", {"users"}, {})
DocumentNotes == Writer("entity_comments", "told", "keyed", {"users", "notes"}, {})
FavoriteTechnicians == Writer("customer_favorite_technicians", "told", "replace", {"users"}, {})
ProductStock == Writer("product_locations", "some", "keyed", {}, {StockLocationId})
RolePermissions == Writer("access_role_permissions", "always", "replace", {}, {})
LocationUsers == Writer("timesheet_location_users", "told", "replace", {"users"}, {})
ApprovalHistory == Writer("timesheet_approval_history", "told", "diff", {"users"}, {})
ApprovalPunches == Writer("timesheets", "told", "diff", {"timesheets"}, {})
ZuperFiles == Writer("attachments", "some", "keyed", {"files"}, {})
RecordFiles == SparesOurs(Writer("attachments", "told", "diff", {"files", "users"}, {}))
ZuperActivity == SparesOurs(Writer("entity_activity", "always", "replace", {"users"}, {}))
JobTimelogs == Writer("job_timelogs", "some", "mapped", {"users", "timelogs"}, {})
JobPunches == Writer("job_timelog_punches", "told", "replace", {"users"}, {})
TimelogSummaries == Writer("job_timelogs", "some", "marks", {"users", "teams"}, {})

Writers == {TeamMembers, Addresses, PropertyCustomers, PropertyAssignees, PropertyTags, JobTeams,
            CustomerTags, JobTags, JobAssets, JobAssignments, ChecklistResponse, JobHistory,
            LineItems, CustomFieldValues, ZuperCustomFields, DocumentAddresses,
            QuoteStatusHistory, RequestStatusHistory, InvoiceStatusHistory, DocumentNotes,
            FavoriteTechnicians, ProductStock, RolePermissions, LocationUsers, ApprovalHistory,
            ApprovalPunches, ZuperFiles, RecordFiles, ZuperActivity, JobTimelogs, JobPunches,
            TimelogSummaries}
\* The same writer where the caller asks for the list first.
WhenTold(w) == [w EXCEPT !.gate = "told", !.kept = FALSE]
==============================================================================
