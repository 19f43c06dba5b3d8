---------------------------- MODULE RecordsProofs -----------------------------
(* Theorems about how records come over from Zuper (MCRecords), each about the *)
(* behaviours of its own mechanism and for every value of the constants: a pass *)
(* of the importer with any maker the Catalogue has (Import), the rows that   *)
(* hang off a record (ChildRows), the walk over a list (ZuperLists), what     *)
(* kind a field is (FieldDefinitions), a record's notes (NoteHosts) and the   *)
(* numbers of two systems (RecordNumbers); and about them side by side, with  *)
(* the deliveries that ask for them, as the runs have them.                   *)
EXTENDS MCRecords, DeliveriesProofs, FiniteSetTheorems, SequenceTheorems, WellFoundedInduction,
        NaturalsInduction, TLAPS

(* ------------------------------ A pass over records ------------------------------ *)

(* What a pass of the Catalogue may be given: every maker either looks for a row or is shared by the *)
(* records of one run, but for two that passes of one record at a time call.                          *)
Ways == {"insert", "adopt", "find", "person"}
Steady(m) == m.by = "match" \/ (m.by \in Ways /\ m.once)
Handy(w) == \A m \in w.makes : Steady(m)
Sound(e) == /\ \A w \in e.parts : Handy(w)
            /\ \A m \in e.makes : Steady(m) \/ (e.side = 1 /\ m.by \in Ways)

LEMMA MakersSteady ==
  /\ Steady(I!CustomerId) /\ Steady(I!OrganizationId) /\ Steady(I!JobCategoryId) /\ Steady(I!JobStatusId)
  /\ Steady(I!TeamId) /\ Steady(I!TerritoryId) /\ Steady(I!AssetCategoryId) /\ Steady(I!UserOnSight)
  /\ Steady(I!ProductOnSight) /\ Steady(I!NamedPartOnSight) /\ Steady(I!DocumentTaxId) /\ Steady(I!ContractPackageId)
  /\ Steady(I!RequestSource) /\ Steady(I!RequestStatusId) /\ Steady(I!CustomerCategoryId) /\ Steady(I!StockLocationId)
  /\ Steady(I!CustomFieldDefinitionId) /\ Steady(I!RetiredChecklistForm) /\ Steady(I!PaymentTermId) /\ Steady(I!BillingPeriod)
  /\ Steady(I!WriteRole)
  /\ I!SkillByName.by \in Ways /\ I!StatusChecklist.by \in Ways
BY DEF Steady, Ways, I!Maker, I!EachAnew, I!Forgetting,
       I!CustomerId, I!OrganizationId, I!JobCategoryId, I!JobStatusId, I!TeamId, I!TerritoryId,
       I!AssetCategoryId, I!UserOnSight, I!ProductOnSight, I!NamedPartOnSight, I!DocumentTaxId,
       I!ContractPackageId, I!RequestSource, I!RequestStatusId, I!CustomerCategoryId, I!StockLocationId,
       I!CustomFieldDefinitionId, I!SkillByName, I!RetiredChecklistForm, I!StatusChecklist, I!PaymentTermId,
       I!BillingPeriod, I!WriteRole

LEMMA WritersHandy ==
  /\ Handy(I!TeamMembers) /\ Handy(I!Addresses) /\ Handy(I!PropertyCustomers) /\ Handy(I!PropertyAssignees)
  /\ Handy(I!PropertyTags) /\ Handy(I!JobTeams) /\ Handy(I!CustomerTags) /\ Handy(I!JobTags)
  /\ Handy(I!JobAssets) /\ Handy(I!JobAssignments) /\ Handy(I!ChecklistResponse) /\ Handy(I!JobHistory)
  /\ Handy(I!LineItems) /\ Handy(I!CustomFieldValues) /\ Handy(I!ZuperCustomFields) /\ Handy(I!DocumentAddresses)
  /\ Handy(I!QuoteStatusHistory) /\ Handy(I!RequestStatusHistory) /\ Handy(I!InvoiceStatusHistory) /\ Handy(I!DocumentNotes)
  /\ Handy(I!FavoriteTechnicians) /\ Handy(I!ProductStock) /\ Handy(I!RolePermissions) /\ Handy(I!LocationUsers)
  /\ Handy(I!ApprovalHistory) /\ Handy(I!ApprovalPunches) /\ Handy(I!ZuperFiles) /\ Handy(I!RecordFiles)
  /\ Handy(I!ZuperActivity) /\ Handy(I!JobTimelogs) /\ Handy(I!JobPunches) /\ Handy(I!TimelogSummaries)
  /\ Handy(I!WhenTold(I!JobAssignments)) /\ Handy(I!WhenTold(I!JobHistory)) /\ Handy(I!WhenTold(I!JobTags)) /\ Handy(I!WhenTold(I!JobTimelogs))
  /\ Handy(I!WhenTold(I!LineItems))
<1> USE MakersSteady DEF Handy, I!Writer, I!FirstKeeps, I!SparesOurs, I!WhenTold
<1>1. Handy(I!TeamMembers)
  BY DEF I!TeamMembers
<1>2. Handy(I!Addresses)
  BY DEF I!Addresses
<1>3. Handy(I!PropertyCustomers)
  BY DEF I!PropertyCustomers
<1>4. Handy(I!PropertyAssignees)
  BY DEF I!PropertyAssignees
<1>5. Handy(I!PropertyTags)
  BY DEF I!PropertyTags
<1>6. Handy(I!JobTeams)
  BY DEF I!JobTeams
<1>7. Handy(I!CustomerTags)
  BY DEF I!CustomerTags
<1>8. Handy(I!JobTags) /\ Handy(I!WhenTold(I!JobTags))
  BY DEF I!JobTags
<1>9. Handy(I!JobAssets)
  BY DEF I!JobAssets
<1>10. Handy(I!JobAssignments) /\ Handy(I!WhenTold(I!JobAssignments))
  BY DEF I!JobAssignments
<1>11. Handy(I!ChecklistResponse)
  BY DEF I!ChecklistResponse
<1>12. Handy(I!JobHistory) /\ Handy(I!WhenTold(I!JobHistory))
  BY DEF I!JobHistory, I!ChecklistResponse
<1>13. Handy(I!LineItems) /\ Handy(I!WhenTold(I!LineItems))
  BY DEF I!LineItems
<1>14. Handy(I!CustomFieldValues)
  BY DEF I!CustomFieldValues
<1>15. Handy(I!ZuperCustomFields)
  BY DEF I!ZuperCustomFields
<1>16. Handy(I!DocumentAddresses)
  BY DEF I!DocumentAddresses
<1>17. Handy(I!QuoteStatusHistory)
  BY DEF I!QuoteStatusHistory
<1>18. Handy(I!RequestStatusHistory)
  BY DEF I!RequestStatusHistory
<1>19. Handy(I!InvoiceStatusHistory)
  BY DEF I!InvoiceStatusHistory
<1>20. Handy(I!DocumentNotes)
  BY DEF I!DocumentNotes
<1>21. Handy(I!FavoriteTechnicians)
  BY DEF I!FavoriteTechnicians
<1>22. Handy(I!ProductStock)
  BY DEF I!ProductStock
<1>23. Handy(I!RolePermissions)
  BY DEF I!RolePermissions
<1>24. Handy(I!LocationUsers)
  BY DEF I!LocationUsers
<1>25. Handy(I!ApprovalHistory)
  BY DEF I!ApprovalHistory
<1>26. Handy(I!ApprovalPunches)
  BY DEF I!ApprovalPunches
<1>27. Handy(I!ZuperFiles)
  BY DEF I!ZuperFiles
<1>28. Handy(I!RecordFiles)
  BY DEF I!RecordFiles
<1>29. Handy(I!ZuperActivity)
  BY DEF I!ZuperActivity
<1>30. Handy(I!JobTimelogs) /\ Handy(I!WhenTold(I!JobTimelogs))
  BY DEF I!JobTimelogs
<1>31. Handy(I!JobPunches)
  BY DEF I!JobPunches
<1>32. Handy(I!TimelogSummaries)
  BY DEF I!TimelogSummaries
<1> QED BY <1>1, <1>2, <1>3, <1>4, <1>5, <1>6, <1>7, <1>8, <1>9, <1>10, <1>11, <1>12, <1>13, <1>14,
          <1>15, <1>16, <1>17, <1>18, <1>19, <1>20, <1>21, <1>22, <1>23, <1>24, <1>25, <1>26,
          <1>27, <1>28, <1>29, <1>30, <1>31, <1>32

LEMMA EntitiesSound == \A e \in I!Entities : Sound(e)
<1> USE MakersSteady, WritersHandy DEF Sound, I!Entity, I!Enrichment
<1>1. Sound(I!JobCategories)
  BY DEF I!JobCategories
<1>2. Sound(I!JobStatuses)
  BY DEF I!JobStatuses
<1>3. Sound(I!JobCardTemplates)
  BY DEF I!JobCardTemplates
<1>4. Sound(I!JobNotificationRules)
  BY DEF I!JobNotificationRules
<1>5. Sound(I!ProductCategories)
  BY DEF I!ProductCategories
<1>6. Sound(I!RequestSources)
  BY DEF I!RequestSources
<1>7. Sound(I!RequestStatuses)
  BY DEF I!RequestStatuses
<1>8. Sound(I!StockLocations)
  BY DEF I!StockLocations
<1>9. Sound(I!AccessRoles)
  BY DEF I!AccessRoles
<1>10. Sound(I!CustomerCategories)
  BY DEF I!CustomerCategories
<1>11. Sound(I!Skills)
  BY DEF I!Skills
<1>12. Sound(I!CustomFieldDefs)
  BY DEF I!CustomFieldDefs
<1>13. Sound(I!Users)
  BY DEF I!Users
<1>14. Sound(I!InactiveUsers)
  BY DEF I!InactiveUsers, I!Users
<1>15. Sound(I!ReferencedUsers)
  BY DEF I!ReferencedUsers, I!Users
<1>16. Sound(I!Teams)
  BY DEF I!Teams
<1>17. Sound(I!MasterShifts)
  BY DEF I!MasterShifts
<1>18. Sound(I!UserShifts)
  BY DEF I!UserShifts
<1>19. Sound(I!Timesheets)
  BY DEF I!Timesheets
<1>20. Sound(I!TimesheetLocations)
  BY DEF I!TimesheetLocations
<1>21. Sound(I!TimesheetApprovals)
  BY DEF I!TimesheetApprovals
<1>22. Sound(I!TimeoffTypes)
  BY DEF I!TimeoffTypes
<1>23. Sound(I!TimeoffRequests)
  BY DEF I!TimeoffRequests
<1>24. Sound(I!TimeoffAvailability)
  BY DEF I!TimeoffAvailability
<1>25. Sound(I!Organizations)
  BY DEF I!Organizations
<1>26. Sound(I!Customers)
  BY DEF I!Customers
<1>27. Sound(I!DeletedCustomers)
  BY DEF I!DeletedCustomers, I!Customers
<1>28. Sound(I!Products)
  BY DEF I!Products
<1>29. Sound(I!ProductTransactions)
  BY DEF I!ProductTransactions
<1>30. Sound(I!Assets)
  BY DEF I!Assets
<1>31. Sound(I!AssetHistory)
  BY DEF I!AssetHistory
<1>32. Sound(I!Projects)
  BY DEF I!Projects
<1>33. Sound(I!PurchaseOrders)
  BY DEF I!PurchaseOrders
<1>34. Sound(I!Properties)
  BY DEF I!Properties
<1>35. Sound(I!Contracts)
  BY DEF I!Contracts
<1>36. Sound(I!Requests)
  BY DEF I!Requests
<1>37. Sound(I!Estimates)
  BY DEF I!Estimates
<1>38. Sound(I!Invoices)
  BY DEF I!Invoices
<1>39. Sound(I!Notes)
  BY DEF I!Notes
<1>40. Sound(I!Jobs)
  BY DEF I!Jobs
<1>41. Sound(I!JobsOldest)
  BY DEF I!JobsOldest, I!Jobs
<1>42. Sound(I!DeletedJobs)
  BY DEF I!DeletedJobs, I!Jobs
<1>43. Sound(I!JobDetails)
  BY DEF I!JobDetails
<1>44. Sound(I!JobPeople)
  BY DEF I!JobPeople
<1>45. Sound(I!JobCustomFields)
  BY DEF I!JobCustomFields
<1>46. Sound(I!JobActivity)
  BY DEF I!JobActivity
<1>47. Sound(I!JobTimelogsPass)
  BY DEF I!JobTimelogsPass
<1>48. Sound(I!UserDetails)
  BY DEF I!UserDetails
<1>49. Sound(I!AssetDetails)
  BY DEF I!AssetDetails
<1>50. Sound(I!CustomerDetails)
  BY DEF I!CustomerDetails
<1>51. Sound(I!CustomerTagsPass)
  BY DEF I!CustomerTagsPass
<1>52. Sound(I!NoteFields)
  BY DEF I!NoteFields
<1>53. Sound(I!RequestActivity)
  BY DEF I!RequestActivity, I!RecordActivity
<1>54. Sound(I!EstimateActivity)
  BY DEF I!EstimateActivity, I!RecordActivity
<1>0. \A m : Sound(I!ZuperFieldPass(m, 6)) /\ Sound(I!ZuperFieldPass(m, 8)) /\ Sound(I!RecordActivity(m, 8))
  BY DEF I!ZuperFieldPass, I!RecordActivity
<1>55. \A e \in I!FieldPasses \cup I!ActivityPasses : Sound(e)
  BY <1>0 DEF I!FieldPasses, I!ActivityPasses
<1> HIDE DEF Sound
<1> QED
  BY <1>1, <1>2, <1>3, <1>4, <1>5, <1>6, <1>7, <1>8, <1>9, <1>10, <1>11, <1>12, <1>13, <1>14,
     <1>15, <1>16, <1>17, <1>18, <1>19, <1>20, <1>21, <1>22, <1>23, <1>24, <1>25, <1>26, <1>27,
     <1>28, <1>29, <1>30, <1>31, <1>32, <1>33, <1>34, <1>35, <1>36, <1>37, <1>38, <1>39, <1>40,
     <1>41, <1>42, <1>43, <1>44, <1>45, <1>46, <1>47, <1>48, <1>49, <1>50, <1>51, <1>52, <1>53,
     <1>54, <1>55
  DEF I!Entities

LEMMA ShapesFit ==
  ASSUME NEW s \in I!Shapes
  PROVE  s.by \in Ways /\ (s.wide /\ ~s.lone => s.once) /\ s.held \in BOOLEAN
<1>1. PICK e \in I!Entities :
        \E m \in {k \in I!MakersOf(e) : k.by # "match" /\ k.map # e.map}, n \in Widths : s = I!Shape(e, m, n)
  BY DEF I!Shapes
<1>2. PICK m \in I!MakersOf(e), n \in Widths : m.by # "match" /\ s = I!Shape(e, m, n)
  BY <1>1
<1>3. Sound(e) /\ (m \in e.makes \/ \E w \in e.parts : m \in w.makes)
  BY <1>2, EntitiesSound DEF I!MakersOf
<1>4. m.by \in Ways /\ (m.once \/ e.side = 1)
  BY <1>2, <1>3 DEF Sound, Handy, Steady
<1>5. s.by = m.by /\ s.wide = (I!Width(e, n) > 1) /\ s.once = m.once /\ s.held \in BOOLEAN
      /\ s.lone = (~m.once /\ I!Width(e, n) > 1 /\ e.side = 1)
  BY <1>2 DEF I!Shape
<1> QED BY <1>4, <1>5

(* Where a record is: those that make the row they name, and those that have it. *)
Owns == {"finding", "making", "keeping", "kept"}
Served == {"writing", "unmapped", "parts", "done"}
Places == {"waiting", "loading", "looking", "failed"} \cup Owns \cup Served

PassTyped ==
  /\ named \in [Records -> NamedItems \cup {I!None}]
  /\ shape.by \in {"insert", "adopt", "find", "person"}
  /\ shape.held \in BOOLEAN
  /\ rows \in Seq(NamedItems) /\ linked \in [NamedItems -> Nat] /\ map \in [loaded : BOOLEAN, of : [NamedItems -> Nat]]
  /\ stale \in [Records -> [NamedItems -> Nat]] /\ shared \in [NamedItems -> Int] /\ at \in [Records -> Nat]
  /\ pc \in [Records -> Places] /\ own \in [Records -> Nat] /\ mapped \subseteq Records
  /\ torn \in [own : SUBSET Records, named : SUBSET (NamedItems \cup {I!None})]

(* A record has its turn when those of earlier chunks are over, and when the pass has ended all are. *)
TurnsKept ==
  /\ \A r \in Records : pc[r] # "waiting" => \A q \in Records : I!Chunk(q) < I!Chunk(r) => pc[q] \in I!Over
  /\ ended => \A r \in Records : pc[r] \in I!Over

(* What is looked up is named. *)
Looks == {"loading", "looking"} \cup Owns
Placed == \A r \in Records : pc[r] \in Looks => named[r] \in NamedItems

(* What holds of the rows that records share, where the makers of records side by side share their   *)
(* attempts. What is looked up was loaded, and a pass of one record at a time loads the map once.     *)
Ready ==
  /\ shape.wide => shape.once
  /\ \A r \in Records : pc[r] \in {"looking"} \cup Owns => map.loaded
  /\ ~shape.wide => \A r \in Records : pc[r] = "loading" => ~map.loaded
  /\ ~map.loaded => \A u \in NamedItems : map.of[u] = I!None

(* One record at a time makes the row of a uid, and the database has none for it then. *)
Sole ==
  /\ \A r, q \in Records : pc[r] \in Owns /\ pc[q] \in Owns /\ named[r] = named[q] => r = q
  /\ \A r \in Records : pc[r] \in Owns => /\ shape.once => shared[named[r]] = I!Busy
                                          /\ linked[named[r]] = I!None
  /\ \A r \in Records : pc[r] \in {"keeping", "kept"} => at[r] # I!None
  /\ \A r \in Records : pc[r] = "kept" /\ ~shape.wide => map.of[named[r]] = at[r]
  /\ \A r \in Records : pc[r] \in {"finding", "making", "keeping"} /\ ~shape.wide => map.of[named[r]] = I!None

(* What the database maps is known in memory: by the attempt, or by every copy of the map there is. *)
Knows ==
  \A u \in NamedItems : linked[u] # I!None =>
    \/ shared[u] > I!None
    \/ /\ map.loaded => map.of[u] # I!None
       /\ \A r \in Records : pc[r] = "loading" => stale[r][u] # I!None

(* Whoever has a row for a uid has the one the database maps it to, or is about to; or the one that *)
(* the run remembers, where the mapping was refused.                                                *)
Remembered(u) == IF shape.once THEN shared[u] ELSE map.of[u]
Stands(u, x) ==
  \/ x = linked[u]
  \/ linked[u] = I!None /\ \E q \in Records : pc[q] = "kept" /\ named[q] = u /\ at[q] = x
  \/ linked[u] = I!None /\ u \in torn.named /\ x = Remembered(u)
Agrees ==
  /\ \A u \in NamedItems : map.of[u] # I!None => Stands(u, map.of[u])
  /\ \A r \in Records, u \in NamedItems : stale[r][u] # I!None => stale[r][u] = linked[u]
  /\ \A u \in NamedItems : shared[u] > I!None =>
       shape.once /\ (shared[u] = linked[u] \/ (linked[u] = I!None /\ u \in torn.named))
  /\ \A r \in Records : pc[r] \in Served /\ named[r] # I!None => at[r] # I!None /\ Stands(named[r], at[r])

(* No row is made for a uid that has one, but where its mapping, or the answer, was lost. *)
HasRow(u) == \E x \in DOMAIN rows : rows[x] = u
Twins(u) == \E x, y \in DOMAIN rows : x # y /\ rows[x] = u /\ rows[y] = u
Torn(u) == shape.by = "insert" /\ u \in torn.named
RowsMade ==
  /\ \A r \in Records : pc[r] = "making" /\ shape.by # "adopt" => ~HasRow(named[r]) \/ Torn(named[r])
  /\ \A u \in NamedItems : Twins(u) => Torn(u)
  /\ shape.by = "insert" =>
       \A u \in NamedItems : HasRow(u) => \/ linked[u] # I!None \/ Torn(u)
                                          \/ \E r \in Records : pc[r] \in {"keeping", "kept"} /\ named[r] = u
  /\ shape.by = "adopt" => Len(rows) <= 1

(* A record has a row of its own, and one only, from the time it is written, but where its mapping, *)
(* or the answer, was lost.                                                                         *)
RowOfOwn ==
  \A r \in Records :
    /\ own[r] > 0 => r \in mapped \/ pc[r] = "unmapped" \/ r \in torn.own
    /\ own[r] > 1 => shape.insert = "insert" /\ r \in torn.own
    /\ r \in mapped \/ pc[r] \in {"unmapped", "parts", "done"} => own[r] > 0
    /\ pc[r] \in {"parts", "done"} => r \in mapped \/ r \in torn.own

Shared == Ready /\ Sole /\ Knows /\ Agrees /\ RowsMade

(* Whoever has a row has one that is there; and the types, turns and names above, which hold in a *)
(* pass of any shape. Where makers that share no attempt run side by side, no more is claimed.    *)
There == 0 .. Len(rows)
RowsThere ==
  /\ linked \in [NamedItems -> There] /\ map.of \in [NamedItems -> There]
  /\ stale \in [Records -> [NamedItems -> There]] /\ shared \in [NamedItems -> There \cup {I!Busy, I!Failed}]
  /\ at \in [Records -> There]
PassFits == PassTyped /\ TurnsKept /\ Placed /\ RowsThere
PassInv == PassFits /\ RowOfOwn /\ (~shape.lone => Shared)

(* In a pass that takes one record at a time no two are under way. *)
LEMMA Alone ==
  ASSUME Records \subseteq Nat, TurnsKept, ~shape.wide, NEW r \in Records, NEW q \in Records,
         pc[r] \notin {"waiting"} \cup I!Over, pc[q] \notin {"waiting"} \cup I!Over
  PROVE  r = q
<1>1. I!Chunk(r) = r /\ I!Chunk(q) = q /\ r \in Nat /\ q \in Nat
  BY DEF I!Chunk
<1>2. ~(r < q) /\ ~(q < r)
  BY <1>1 DEF TurnsKept
<1> QED BY <1>1, <1>2

(* A record goes on, and those before it stay over. *)
LEMMA TurnsStay ==
  ASSUME PassTyped, TurnsKept, NEW r \in Records, NEW to \in Places, pc' = [pc EXCEPT ![r] = to], pc[r] \notin I!Over,
         to # "waiting", pc[r] = "waiting" => I!InTurn(r), UNCHANGED <<shape, ended>>
  PROVE  /\ TurnsKept' /\ pc' \in [Records -> Places]
         /\ pc'[r] = to /\ \A q \in Records : q # r => pc'[q] = pc[q]
<1>1. /\ pc'[r] = to /\ \A q \in Records : q # r => pc'[q] = pc[q]
      /\ pc' \in [Records -> Places]
  BY DEF PassTyped
<1>2. \A q \in Records : I!Chunk(q)' = I!Chunk(q)
  BY DEF I!Chunk
<1>3. \A q \in Records : pc[q] \in I!Over => pc'[q] \in I!Over
  BY <1>1
<1>4. ASSUME NEW q \in Records, pc'[q] # "waiting", NEW p \in Records, I!Chunk(p) < I!Chunk(q) PROVE pc'[p] \in I!Over
  <2>1. CASE pc[q] # "waiting"
    BY <1>3, <1>4, <2>1 DEF TurnsKept
  <2>2. CASE pc[q] = "waiting"
    BY <1>1, <1>3, <1>4, <2>2 DEF I!InTurn
  <2> QED BY <2>1, <2>2
<1>5. ended' => \A q \in Records : pc'[q] \in I!Over
  BY <1>3 DEF TurnsKept
<1> QED BY <1>1, <1>2, <1>4, <1>5 DEF TurnsKept

(* What stands goes on standing, and nothing is learnt that did not stand. *)
LEMMA StandsStay ==
  ASSUME PassTyped', UNCHANGED <<shape, named>>,
         \A u \in NamedItems, x \in Nat : x # I!None /\ Stands(u, x) =>
           \/ x = linked'[u]
           \/ linked'[u] = I!None /\ \E q \in Records : pc'[q] = "kept" /\ named'[q] = u /\ at'[q] = x
           \/ linked'[u] = I!None /\ u \in torn'.named /\ x = IF shape'.once THEN shared'[u] ELSE map'.of[u],
         \A u \in NamedItems : map'.of[u] # I!None => Stands(u, map'.of[u]),
         \A q \in Records, u \in NamedItems : stale'[q][u] # I!None => stale'[q][u] = linked'[u],
         \A u \in NamedItems : shared'[u] > I!None =>
           shape.once /\ (shared'[u] = linked'[u] \/ (linked'[u] = I!None /\ u \in torn'.named)),
         \A q \in Records : pc'[q] \in Served /\ named[q] # I!None => at'[q] # I!None /\ Stands(named[q], at'[q])
  PROVE  Agrees'
<1>1. \A u \in NamedItems : map'.of[u] \in Nat
  BY DEF PassTyped
<1>2. \A q \in Records : at'[q] \in Nat /\ (named[q] # I!None => named[q] \in NamedItems)
  BY DEF PassTyped
<1>3. ASSUME NEW u \in NamedItems, map'.of[u] # I!None PROVE Stands(u, map.of[u])'
  BY <1>1, <1>3 DEF Stands, Remembered
<1>4. ASSUME NEW q \in Records, pc'[q] \in Served, named'[q] # I!None
      PROVE  at'[q] # I!None /\ Stands(named[q], at[q])'
  BY <1>2, <1>4 DEF Stands, Remembered
<1> QED BY <1>3, <1>4 DEF Agrees

(* The same where no mapping is learnt, and what a run remembers is not forgotten. *)
LEMMA AgreesStay ==
  ASSUME PassTyped', UNCHANGED <<shape, named, linked, torn>>,
         \A q \in Records : pc[q] = "kept" => pc'[q] = "kept" /\ at'[q] = at[q],
         \A u \in NamedItems : LET x == IF shape.once THEN shared[u] ELSE map.of[u] IN
            x > I!None => x = IF shape.once THEN shared'[u] ELSE map'.of[u],
         \A u \in NamedItems : map'.of[u] # I!None => Stands(u, map'.of[u]),
         \A q \in Records, u \in NamedItems : stale'[q][u] # I!None => stale'[q][u] = linked[u],
         \A u \in NamedItems : shared'[u] > I!None =>
           shape.once /\ (shared'[u] = linked[u] \/ (linked[u] = I!None /\ u \in torn.named)),
         \A q \in Records : pc'[q] \in Served /\ named[q] # I!None => at'[q] # I!None /\ Stands(named[q], at'[q])
  PROVE  Agrees'
<1>1. ASSUME NEW u \in NamedItems, NEW x \in Nat, x # I!None, Stands(u, x)
      PROVE  \/ x = linked'[u]
             \/ linked'[u] = I!None /\ \E q \in Records : pc'[q] = "kept" /\ named'[q] = u /\ at'[q] = x
             \/ linked'[u] = I!None /\ u \in torn'.named /\ x = IF shape'.once THEN shared'[u] ELSE map'.of[u]
  <2>1. CASE linked[u] = I!None /\ u \in torn.named /\ x = Remembered(u)
    <3>1. x > I!None
      BY <1>1 DEF I!None
    <3> QED BY <2>1, <3>1 DEF Remembered
  <2>2. CASE ~(linked[u] = I!None /\ u \in torn.named /\ x = Remembered(u))
    BY <1>1, <2>2 DEF Stands
  <2> QED BY <2>1, <2>2
<1> QED BY <1>1, StandsStay

(* A step that makes and learns nothing: a record that has what it names goes on, or is passed over. *)
LEMMA GoesOnServed ==
  ASSUME PassTyped, TurnsKept, Placed, Shared, PassTyped', NEW r \in Records, NEW to \in Places,
         pc' = [pc EXCEPT ![r] = to], pc[r] \notin I!Over \cup {"waiting", "kept"},
         to \notin {"waiting"} \cup Looks, to \in Served => pc[r] \in Served,
         pc[r] \in {"finding", "making"} => shared' = [shared EXCEPT ![named[r]] = I!None]
                                            \/ shared' = [shared EXCEPT ![named[r]] = I!Failed] \/ shared' = shared,
         pc[r] \notin {"finding", "making"} => shared' = shared, pc[r] # "keeping",
         torn.named \subseteq torn'.named,
         UNCHANGED <<shape, named, linked, map, stale, at, ended>>
  PROVE  /\ Ready' /\ Sole' /\ Knows' /\ Agrees'
         /\ \A q \in Records : pc'[q] = "making" => pc[q] = "making" /\ q # r
         /\ \A q \in Records : pc[q] \in {"keeping", "kept"} => pc'[q] \in {"keeping", "kept"}
<1>0. PassTyped /\ TurnsKept /\ Ready /\ Sole /\ Knows /\ Agrees
  BY DEF Shared
<1>1. TurnsKept' /\ pc' \in [Records -> Places] /\ pc'[r] = to /\ \A q \in Records : q # r => pc'[q] = pc[q]
  BY <1>0, TurnsStay
<1>2. /\ shared' \in [NamedItems -> Int]
      /\ \A u \in NamedItems : \/ shared'[u] = shared[u]
                               \/ /\ u = named[r] /\ pc[r] \in {"finding", "making"} /\ ~(shared'[u] > I!None)
                                  /\ linked[u] = I!None /\ (shape.once => shared[u] = I!Busy)
  <2>1. shared \in [NamedItems -> Int] /\ I!None \in Int /\ I!Failed \in Int
    BY <1>0 DEF PassTyped, I!None, I!Failed
  <2>2. CASE shared' = shared
    BY <2>1, <2>2
  <2>3. CASE pc[r] \in {"finding", "making"} /\ shared' # shared
    <3>1. named[r] \in NamedItems /\ linked[named[r]] = I!None /\ (shape.once => shared[named[r]] = I!Busy)
      BY <1>0, <2>3 DEF Placed, Looks, Sole, Owns
    <3>2. PICK x \in {I!None, I!Failed} : shared' = [shared EXCEPT ![named[r]] = x]
      BY <2>3
    <3>3. ~(x > I!None) /\ x \in Int
      BY <2>1 DEF I!None, I!Failed
    <3> QED BY <2>1, <2>3, <3>1, <3>2, <3>3
  <2> QED BY <2>2, <2>3
<1>3. Ready'
  BY <1>0, <1>1 DEF Ready, Owns, Looks
<1>4. Sole'
  <2>1. \A q \in Records : pc'[q] \in Owns => q # r /\ pc[q] \in Owns /\ pc'[q] = pc[q]
    BY <1>1 DEF Looks
  <2>2. \A q \in Records : pc'[q] \in Owns /\ shape.once => shared'[named[q]] = I!Busy
    BY <1>0, <1>2, <2>1 DEF Sole, Placed, Looks, Owns
  <2> QED BY <1>0, <2>1, <2>2 DEF Sole, Owns
<1>5. Knows'
  BY <1>0, <1>1, <1>2 DEF Knows, Looks
<1>6. Agrees'
  <2>1. ASSUME NEW u \in NamedItems, NEW x \in Nat, x # I!None, Stands(u, x)
        PROVE  \/ x = linked'[u]
               \/ linked'[u] = I!None /\ \E q \in Records : pc'[q] = "kept" /\ named'[q] = u /\ at'[q] = x
               \/ linked'[u] = I!None /\ u \in torn'.named /\ x = IF shape'.once THEN shared'[u] ELSE map'.of[u]
    <3>1. CASE linked[u] = I!None /\ u \in torn.named /\ x = Remembered(u)
      <4>1. shape.once => shared'[u] = shared[u]
        BY <1>2, <2>1, <3>1 DEF Remembered, I!Busy
      <4> QED BY <3>1, <4>1 DEF Remembered
    <3>2. CASE ~(linked[u] = I!None /\ u \in torn.named /\ x = Remembered(u))
      BY <1>1, <2>1, <3>2 DEF Stands
    <3> QED BY <3>1, <3>2
  <2> QED BY <1>0, <1>1, <1>2, <2>1, StandsStay DEF Agrees
<1>7. \A q \in Records : pc'[q] = "making" => pc[q] = "making" /\ q # r
  BY <1>1 DEF Looks, Owns
<1>8. \A q \in Records : pc[q] \in {"keeping", "kept"} => pc'[q] \in {"keeping", "kept"}
  BY <1>1
<1> QED BY <1>3, <1>4, <1>5, <1>6, <1>7, <1>8

(* Who goes on owning an attempt does so alone. *)
LEMMA SoleStays ==
  ASSUME Sole, UNCHANGED <<shape, named, linked, map>>,
         \A q \in Records : pc'[q] \in Owns => pc[q] \in Owns /\ pc'[q] = pc[q] /\ at'[q] = at[q]
                                               /\ shared'[named[q]] = shared[named[q]]
  PROVE  Sole'
<1>1. \A p, q \in Records : pc'[p] \in Owns /\ pc'[q] \in Owns /\ named'[p] = named'[q] => p = q
  BY DEF Sole
<1>2. \A q \in Records : pc'[q] \in Owns => (shape'.once => shared'[named'[q]] = I!Busy) /\ linked'[named'[q]] = I!None
  BY DEF Sole
<1>3. \A q \in Records : pc'[q] \in {"keeping", "kept"} => at'[q] # I!None
  BY DEF Sole, Owns
<1>4. \A q \in Records : pc'[q] = "kept" /\ ~shape'.wide => map'.of[named'[q]] = at'[q]
  BY DEF Sole, Owns
<1>5. \A q \in Records : pc'[q] \in {"finding", "making", "keeping"} /\ ~shape'.wide => map'.of[named'[q]] = I!None
  BY DEF Sole, Owns
<1> QED BY <1>1, <1>2, <1>3, <1>4, <1>5 DEF Sole

LEMMA RowsStay ==
  ASSUME RowsMade, UNCHANGED <<shape, named, linked, rows>>, torn'.named = torn.named,
         \A q \in Records : pc'[q] = "making" => \/ pc[q] = "making" \/ shape.by = "adopt"
                                                \/ ~HasRow(named[q]) \/ Torn(named[q]),
         \A q \in Records : pc[q] \in {"keeping", "kept"} => pc'[q] \in {"keeping", "kept"}
  PROVE  RowsMade'
<1>1. \A u : (HasRow(u)' <=> HasRow(u)) /\ (Twins(u)' <=> Twins(u)) /\ (Torn(u)' <=> Torn(u))
  BY DEF HasRow, Twins, Torn
<1>2. \A q \in Records : pc'[q] = "making" /\ shape'.by # "adopt" => ~HasRow(named[q])' \/ Torn(named[q])'
  BY <1>1 DEF RowsMade
<1>3. \A u \in NamedItems : Twins(u)' => Torn(u)'
  BY <1>1 DEF RowsMade
<1>4. ASSUME shape'.by = "insert", NEW u \in NamedItems, HasRow(u)'
      PROVE  \/ linked'[u] # I!None \/ Torn(u)'
             \/ \E r \in Records : pc'[r] \in {"keeping", "kept"} /\ named'[r] = u
  BY <1>1, <1>4 DEF RowsMade
<1>5. shape'.by = "adopt" => Len(rows') <= 1
  BY DEF RowsMade
<1>6. named' = named
  OBVIOUS
<1>7. \A q \in Records : pc'[q] = "making" /\ shape'.by # "adopt" => (~HasRow(named[q]) \/ Torn(named[q]))'
  BY <1>2, <1>6 DEF HasRow, Torn
<1> QED BY <1>3, <1>4, <1>5, <1>7 DEF RowsMade

(* A record's map is looked up, or loaded. *)
LEMMA LookStays ==
  ASSUME PassTyped, PassTyped', TurnsKept, Placed, Shared, NEW r \in Records, I!Look(r)
  PROVE  Shared'
<1>0. PassTyped /\ TurnsKept /\ Ready /\ Sole /\ Knows /\ Agrees /\ RowsMade
  BY DEF Shared
<1>1. PICK to \in {"writing", "looking", "loading"} :
        /\ pc[r] = "waiting" /\ pc' = [pc EXCEPT ![r] = to] /\ I!InTurn(r)
        /\ to = "writing" => named[r] = I!None
        /\ to # "writing" => named[r] # I!None
        /\ to = "looking" => map.loaded
        /\ to = "loading" => ~map.loaded
        /\ to = "loading" => stale' = [stale EXCEPT ![r] = linked]
        /\ to # "loading" => stale' = stale
        /\ UNCHANGED <<shape, named, linked, map, rows, shared, at, torn, own, mapped, ended>>
  BY DEF I!Look, I!Go, I!Naming, I!Same
<1>2. TurnsKept' /\ pc' \in [Records -> Places] /\ pc'[r] = to /\ \A q \in Records : q # r => pc'[q] = pc[q]
  BY <1>0, <1>1, TurnsStay DEF I!Over, Places, Served
<1>3. /\ stale' \in [Records -> [NamedItems -> Nat]]
      /\ \A q \in Records : stale'[q] = IF q = r /\ to = "loading" THEN linked ELSE stale[q]
  <2>1. CASE to = "loading"
    <3>1. stale' = [stale EXCEPT ![r] = linked] /\ stale \in [Records -> [NamedItems -> Nat]] /\ linked \in [NamedItems -> Nat]
      BY <1>0, <1>1, <2>1 DEF PassTyped
    <3> QED BY <2>1, <3>1
  <2>2. CASE to # "loading"
    BY <1>0, <1>1, <2>2 DEF PassTyped
  <2> QED BY <2>1, <2>2
<1>5. Ready'
  BY <1>0, <1>1, <1>2 DEF Ready, Owns
<1>6. \A q \in Records : pc'[q] \in Owns => q # r /\ pc[q] \in Owns /\ pc'[q] = pc[q]
  BY <1>2 DEF Owns
<1>7. Sole'
  BY <1>0, <1>1, <1>6, SoleStays
<1>8. Knows'
  BY <1>0, <1>1, <1>2, <1>3 DEF Knows
<1>9. Agrees'
  <2>1. \A q \in Records, u \in NamedItems : stale'[q][u] # I!None => stale'[q][u] = linked[u]
    BY <1>0, <1>3 DEF Agrees
  <2>2. \A q \in Records : pc[q] = "kept" => pc'[q] = "kept" /\ at'[q] = at[q]
    BY <1>1, <1>2
  <2>3. \A q \in Records : pc'[q] \in Served /\ named[q] # I!None => pc[q] \in Served
    BY <1>1, <1>2 DEF Served
  <2> QED BY <1>0, <1>1, <2>1, <2>2, <2>3, AgreesStay DEF Agrees
<1>10. RowsMade'
  BY <1>0, <1>1, <1>2, RowsStay
<1> QED BY <1>5, <1>7, <1>8, <1>9, <1>10 DEF Shared

(* A copy of the map is kept, over what was in memory: what it lacks, the attempt knows. *)
LEMMA LoadedStays ==
  ASSUME Records \subseteq Nat, PassTyped, PassTyped', TurnsKept, Placed, Shared, NEW r \in Records, I!Loaded(r)
  PROVE  Shared'
<1>0. PassTyped /\ TurnsKept /\ Ready /\ Sole /\ Knows /\ Agrees /\ RowsMade
  BY DEF Shared
<1>1. /\ pc[r] = "loading" /\ pc' = [pc EXCEPT ![r] = "looking"] /\ map' = [loaded |-> TRUE, of |-> stale[r]]
      /\ stale' = [stale EXCEPT ![r] = I!NotMapped]
      /\ UNCHANGED <<shape, named, linked, rows, shared, at, torn, own, mapped, ended>>
  BY DEF I!Loaded, I!Go, I!Naming, I!Same
<1>2. TurnsKept' /\ pc' \in [Records -> Places] /\ pc'[r] = "looking" /\ \A q \in Records : q # r => pc'[q] = pc[q]
  BY <1>0, <1>1, TurnsStay DEF I!Over, Places, Served
<1>3. /\ stale' \in [Records -> [NamedItems -> Nat]] /\ \A q \in Records : q # r => stale'[q] = stale[q]
      /\ \A u \in NamedItems : stale'[r][u] = I!None
      /\ map' \in [loaded : BOOLEAN, of : [NamedItems -> Nat]]
      /\ map'.loaded /\ map'.of = stale[r]
  BY <1>0, <1>1 DEF PassTyped, I!NotMapped, I!None
<1>5. Ready'
  <2>1. ASSUME ~shape.wide, NEW q \in Records, pc'[q] = "loading" PROVE FALSE
    BY <1>0, <1>1, <1>2, <2>1, Alone DEF I!Over
  <2> QED BY <1>0, <1>1, <1>3, <2>1 DEF Ready
<1>6. \A q \in Records : pc'[q] \in Owns => q # r /\ pc[q] \in Owns /\ pc'[q] = pc[q]
  BY <1>2 DEF Owns
<1>7. Sole'
  <2>1. ASSUME NEW q \in Records, pc'[q] \in Owns PROVE shape.wide
    BY <1>0, <1>1, <1>6, <2>1, Alone DEF I!Over, Owns
  <2> QED BY <1>0, <1>1, <1>6, <2>1 DEF Sole, Owns
<1>8. Knows'
  <2>1. linked' = linked /\ shared' = shared
    BY <1>1
  <2>2. ASSUME NEW u \in NamedItems, linked[u] # I!None, ~(shared[u] > I!None) PROVE map'.of[u] # I!None
    BY <1>0, <1>1, <1>3, <2>2 DEF Knows
  <2>3. ASSUME NEW u \in NamedItems, linked[u] # I!None, ~(shared[u] > I!None), NEW q \in Records, pc'[q] = "loading"
        PROVE  stale'[q][u] # I!None
    <3>1. q # r /\ pc[q] = "loading"
      BY <1>2, <2>3
    <3>2. stale[q][u] # I!None
      BY <1>0, <2>3, <3>1 DEF Knows
    <3> QED BY <1>3, <3>1, <3>2
  <2> QED BY <2>1, <2>2, <2>3 DEF Knows
<1>9. Agrees'
  <2>1. \A q \in Records, u \in NamedItems : stale'[q][u] # I!None => stale'[q][u] = linked[u]
    BY <1>0, <1>3 DEF Agrees
  <2>2. \A q \in Records : pc[q] = "kept" => pc'[q] = "kept" /\ at'[q] = at[q]
    BY <1>1, <1>2
  <2>3. \A q \in Records : pc'[q] \in Served => pc[q] \in Served
    BY <1>1, <1>2 DEF Served
  <2>4. \A u \in NamedItems : map'.of[u] # I!None => Stands(u, map'.of[u])
    BY <1>0, <1>3 DEF Agrees, Stands
  <2>5. ASSUME ~shape.once, NEW u \in NamedItems PROVE map.of[u] = I!None
    BY <1>0, <1>1, <2>5 DEF Ready
  <2>6. \A u \in NamedItems : LET x == IF shape.once THEN shared[u] ELSE map.of[u] IN
          x > I!None => x = IF shape.once THEN shared'[u] ELSE map'.of[u]
    BY <1>1, <2>5 DEF I!None
  <2> QED BY <1>0, <1>1, <2>1, <2>2, <2>3, <2>4, <2>6, AgreesStay DEF Agrees
<1>10. RowsMade'
  BY <1>0, <1>1, <1>2, RowsStay
<1> QED BY <1>5, <1>7, <1>8, <1>9, <1>10 DEF Shared

(* A record is told the row by the map or by another's attempt. *)
LEMMA ToldStays ==
  ASSUME PassTyped, PassTyped', TurnsKept, Placed, Shared, NEW r \in Records, I!Hit(r) \/ I!Join(r)
  PROVE  Shared'
<1>0. PassTyped /\ TurnsKept /\ Ready /\ Sole /\ Knows /\ Agrees /\ RowsMade
  BY DEF Shared
<1>1. PICK x : 
        /\ pc[r] = "looking" /\ pc' = [pc EXCEPT ![r] = "writing"] /\ at' = [at EXCEPT ![r] = x] /\ x # I!None
        /\ (x = map.of[named[r]] \/ (x = shared[named[r]] /\ shared[named[r]] > I!None))
        /\ UNCHANGED <<shape, named, linked, map, stale, rows, shared, torn, own, mapped, ended>>
  <2>1. CASE I!Hit(r)
    BY <2>1 DEF I!Hit, I!Go, I!Naming, I!Same, I!Took
  <2>2. CASE I!Join(r)
    <3>1. shared[named[r]] \in Int
      BY <1>0, <2>2 DEF I!Join, I!Go, Placed, Looks, PassTyped
    <3>2. shared[named[r]] > I!None /\ shared[named[r]] # I!None
      BY <2>2, <3>1 DEF I!Join, I!None
    <3> QED BY <2>2, <3>2 DEF I!Join, I!Go, I!Naming, I!Same, I!Took
  <2> QED BY <2>1, <2>2
<1>2. TurnsKept' /\ pc' \in [Records -> Places] /\ pc'[r] = "writing" /\ \A q \in Records : q # r => pc'[q] = pc[q]
  BY <1>0, <1>1, TurnsStay DEF I!Over, Places, Served
<1>3. named[r] \in NamedItems
  BY <1>1 DEF Placed, Looks
<1>4. x \in Nat /\ Stands(named[r], x)
  <2>1. CASE x = map.of[named[r]]
    BY <1>0, <1>1, <1>3, <2>1 DEF Agrees, PassTyped
  <2>2. CASE x = shared[named[r]] /\ shared[named[r]] > I!None
    BY <1>0, <1>3, <2>2 DEF Agrees, Stands, Remembered, PassTyped, I!None
  <2> QED BY <1>1, <2>1, <2>2
<1>5. /\ at' \in [Records -> Nat] /\ at'[r] = x /\ \A q \in Records : q # r => at'[q] = at[q]
  BY <1>0, <1>1, <1>4 DEF PassTyped
<1>7. Ready'
  BY <1>0, <1>1, <1>2 DEF Ready, Owns
<1>8. \A q \in Records : pc'[q] \in Owns => q # r /\ pc[q] \in Owns /\ pc'[q] = pc[q] /\ at'[q] = at[q]
  BY <1>2, <1>5 DEF Owns
<1>9. Sole'
  BY <1>0, <1>1, <1>8, SoleStays
<1>10. Knows'
  BY <1>0, <1>1, <1>2 DEF Knows
<1>11. Agrees'
  <2>1. \A q \in Records : pc[q] = "kept" => pc'[q] = "kept" /\ at'[q] = at[q]
    BY <1>1, <1>2, <1>5
  <2>2. \A q \in Records : pc'[q] \in Served /\ named[q] # I!None => at'[q] # I!None /\ Stands(named[q], at'[q])
    BY <1>0, <1>1, <1>2, <1>4, <1>5 DEF Agrees
  <2> QED BY <1>0, <1>1, <2>1, <2>2, AgreesStay DEF Agrees
<1>12. RowsMade'
  BY <1>0, <1>1, <1>2, RowsStay
<1> QED BY <1>7, <1>9, <1>10, <1>11, <1>12 DEF Shared

(* An attempt begins where none is under way, and where the database has no row. *)
LEMMA AttemptStays ==
  ASSUME Records \subseteq Nat, PassTyped, PassTyped', TurnsKept, Placed, Shared, NEW r \in Records, I!Attempt(r)
  PROVE  Shared'
<1>0. PassTyped /\ TurnsKept /\ Ready /\ Sole /\ Knows /\ Agrees /\ RowsMade
  BY DEF Shared
<1>1. PICK to \in {"finding", "making"} :
        /\ pc[r] = "looking" /\ pc' = [pc EXCEPT ![r] = to] /\ (to = "finding" <=> shape.by \in {"find", "person"})
        /\ map.of[named[r]] = I!None /\ shared[named[r]] = I!None
        /\ shared' = IF shape.once THEN [shared EXCEPT ![named[r]] = I!Busy] ELSE shared
        /\ UNCHANGED <<shape, named, linked, map, stale, rows, at, torn, own, mapped, ended>>
  BY DEF I!Attempt, I!Go, I!Naming, I!Same
<1>2. TurnsKept' /\ pc' \in [Records -> Places] /\ pc'[r] = to /\ \A q \in Records : q # r => pc'[q] = pc[q]
  BY <1>0, <1>1, TurnsStay DEF I!Over, Places, Owns
<1>3. named[r] \in NamedItems /\ map.loaded
  BY <1>0, <1>1 DEF Ready, Placed, Looks
<1>4. /\ shared' \in [NamedItems -> Int] /\ \A u \in NamedItems : u # named[r] => shared'[u] = shared[u]
      /\ shape.once => shared'[named[r]] = I!Busy
      /\ ~shape.once => shared'[named[r]] = I!None
  <2>1. CASE shape.once
    BY <1>0, <1>1, <1>3, <2>1 DEF PassTyped, I!Busy
  <2>2. CASE ~shape.once
    BY <1>0, <1>1, <1>3, <2>2 DEF PassTyped
  <2> QED BY <2>1, <2>2
<1>5. \A u \in NamedItems : /\ shared'[u] > I!None <=> shared[u] > I!None
                            /\ shared'[u] > I!None => shared'[u] = shared[u]
  BY <1>1, <1>3, <1>4 DEF I!Busy, I!None
<1>7. Ready'
  BY <1>0, <1>1, <1>2, <1>3 DEF Ready, Owns
<1>8. ASSUME NEW q \in Records, pc[q] \in Owns PROVE named[q] # named[r]
  <2>1. CASE shape.once
    BY <1>0, <1>1, <1>8, <2>1 DEF Sole, I!Busy, I!None
  <2>2. CASE ~shape.once
    BY <1>0, <1>1, <1>8, <2>2, Alone DEF Ready, I!Over, Owns
  <2> QED BY <2>1, <2>2
<1>9. linked[named[r]] = I!None
  <2>1. ~(shared[named[r]] > I!None)
    BY <1>1 DEF I!None
  <2> QED BY <1>0, <1>1, <1>3, <2>1 DEF Knows
<1>10. Sole'
  <2>1. \A q \in Records : pc'[q] \in Owns => q = r \/ (pc[q] \in Owns /\ pc'[q] = pc[q] /\ named[q] # named[r])
    BY <1>2, <1>8
  <2>2. \A q \in Records : pc[q] \in Owns => named[q] \in NamedItems
    BY DEF Placed, Looks
  <2>3. pc'[r] \notin {"keeping", "kept"}
    BY <1>2
  <2>4. \A p, q \in Records : pc'[p] \in Owns /\ pc'[q] \in Owns /\ named[p] = named[q] => p = q
    BY <1>0, <2>1 DEF Sole
  <2>5. \A q \in Records : pc'[q] \in Owns =>
          (shape.once => shared'[named[q]] = I!Busy) /\ linked[named[q]] = I!None
    BY <1>0, <1>4, <1>9, <2>1, <2>2 DEF Sole
  <2>6. \A q \in Records : pc'[q] \in {"keeping", "kept"} => pc[q] = pc'[q]
    BY <2>1, <2>3 DEF Owns
  <2>7. \A q \in Records : pc'[q] \in {"finding", "making", "keeping"} /\ ~shape.wide => map.of[named[q]] = I!None
    BY <1>0, <1>1, <1>2 DEF Sole
  <2> QED BY <1>0, <1>1, <2>4, <2>5, <2>6, <2>7 DEF Sole
<1>11. Knows'
  BY <1>0, <1>1, <1>2, <1>5 DEF Knows
<1>12. Agrees'
  <2>1. \A q \in Records : pc[q] = "kept" => pc'[q] = "kept" /\ at'[q] = at[q]
    BY <1>1, <1>2
  <2>2. \A q \in Records : pc'[q] \in Served => pc[q] \in Served
    BY <1>2 DEF Served
  <2>3. \A u \in NamedItems : LET x == IF shape.once THEN shared[u] ELSE map.of[u] IN
          x > I!None => x = IF shape.once THEN shared'[u] ELSE map'.of[u]
    BY <1>1, <1>5
  <2> QED BY <1>0, <1>1, <1>5, <2>1, <2>2, <2>3, AgreesStay DEF Agrees
<1>13. RowsMade'
  <2>1. to = "making" /\ shape.by # "adopt" => ~HasRow(named[r]) \/ Torn(named[r])
    <3>1. SUFFICES ASSUME to = "making", shape.by # "adopt" PROVE ~HasRow(named[r]) \/ Torn(named[r])
      OBVIOUS
    <3>2. shape.by = "insert"
      BY <1>0, <1>1, <3>1 DEF PassTyped
    <3>3. HasRow(named[r]) => \/ linked[named[r]] # I!None \/ Torn(named[r])
                              \/ \E q \in Records : pc[q] \in {"keeping", "kept"} /\ named[q] = named[r]
      BY <1>0, <1>3, <3>2 DEF RowsMade
    <3>4. ~ \E q \in Records : pc[q] \in {"keeping", "kept"} /\ named[q] = named[r]
      BY <1>8 DEF Owns
    <3> QED BY <1>9, <3>3, <3>4
  <2> QED BY <1>0, <1>1, <1>2, <2>1, RowsStay
<1> QED BY <1>7, <1>10, <1>11, <1>12, <1>13 DEF Shared

(* An attempt finds the row there is, or finds that there is none. *)
LEMMA FindStays ==
  ASSUME PassTyped, PassTyped', TurnsKept, Placed, Shared, NEW r \in Records, I!Find(r)
  PROVE  Shared'
<1>0. PassTyped /\ TurnsKept /\ Ready /\ Sole /\ Knows /\ Agrees /\ RowsMade
  BY DEF Shared
<1>1. PICK to \in {"making", "keeping"} : 
        /\ pc[r] = "finding" /\ pc' = [pc EXCEPT ![r] = to]
        /\ to = "making" => I!SameName(named[r]) = {} /\ at' = at
        /\ to = "keeping" => \E x \in I!SameName(named[r]) : at' = [at EXCEPT ![r] = x]
        /\ UNCHANGED <<shape, named, linked, map, stale, rows, shared, torn, own, mapped, ended>>
  BY DEF I!Find, I!Go, I!Naming, I!Same, I!Took
<1>2. TurnsKept' /\ pc' \in [Records -> Places] /\ pc'[r] = to /\ \A q \in Records : q # r => pc'[q] = pc[q]
  BY <1>0, <1>1, TurnsStay DEF I!Over, Places, Owns
<1>3. named[r] \in NamedItems
  BY <1>1 DEF Placed, Looks, Owns
<1>4. /\ at' \in [Records -> Nat] /\ \A q \in Records : q # r => at'[q] = at[q]
      /\ to = "keeping" => at'[r] # I!None
  <2>1. CASE to = "making"
    BY <1>0, <1>1, <2>1 DEF PassTyped
  <2>2. CASE to = "keeping"
    <3>1. PICK x \in I!SameName(named[r]) : at' = [at EXCEPT ![r] = x]
      BY <1>1, <2>2
    <3>2. rows \in Seq(NamedItems)
      BY <1>0 DEF PassTyped
    <3>3. x \in Nat /\ x # 0
      BY <3>2 DEF I!SameName
    <3> QED BY <1>0, <2>2, <3>1, <3>3 DEF PassTyped, I!None
  <2> QED BY <2>1, <2>2
<1>6. Ready'
  BY <1>0, <1>1, <1>2 DEF Ready, Owns
<1>7. Sole'
  <2>1. \A q \in Records : pc'[q] \in Owns => pc[q] \in Owns
    BY <1>1, <1>2 DEF Owns
  <2>2. \A q \in Records : pc'[q] \in {"keeping", "kept"} => at'[q] # I!None
    BY <1>0, <1>1, <1>2, <1>4 DEF Sole
  <2>3. \A q \in Records : pc'[q] = "kept" => q # r /\ pc[q] = "kept" /\ at'[q] = at[q]
    BY <1>1, <1>2, <1>4
  <2> QED BY <1>0, <1>1, <2>1, <2>2, <2>3 DEF Sole
<1>8. Knows'
  BY <1>0, <1>1, <1>2 DEF Knows
<1>9. Agrees'
  <2>1. \A q \in Records : pc[q] = "kept" => pc'[q] = "kept" /\ at'[q] = at[q]
    BY <1>1, <1>2, <1>4
  <2>2. \A q \in Records : pc'[q] \in Served => pc[q] \in Served /\ at'[q] = at[q]
    BY <1>2, <1>4 DEF Served
  <2> QED BY <1>0, <1>1, <2>1, <2>2, AgreesStay DEF Agrees
<1>10. RowsMade'
  <2>1. to = "making" => ~HasRow(named[r])
    BY <1>1 DEF I!SameName, HasRow
  <2> QED BY <1>0, <1>1, <1>2, <2>1, RowsStay
<1> QED BY <1>6, <1>7, <1>8, <1>9, <1>10 DEF Shared

(* A row is made: only the uid it is made for has one more. *)
LEMMA Appended ==
  ASSUME rows \in Seq(NamedItems), NEW r \in Records, named[r] \in NamedItems, UNCHANGED <<shape, named>>,
         rows' = Append(rows, named[r]), shape.by = "adopt" => I!SameName(named[r]) = {}
  PROVE  /\ rows' \in Seq(NamedItems) /\ HasRow(named[r])'
         /\ \A u : u # named[r] => (HasRow(u)' <=> HasRow(u)) /\ (Twins(u)' <=> Twins(u))
         /\ shape.by # "adopt" /\ Twins(named[r])' => HasRow(named[r])
         /\ shape.by = "adopt" => Len(rows') <= 1 /\ \A u : ~Twins(u)'
<1>1. /\ rows' \in Seq(NamedItems) /\ Len(rows') = Len(rows) + 1 /\ Len(rows) \in Nat
      /\ DOMAIN rows = 1 .. Len(rows) /\ DOMAIN rows' = 1 .. Len(rows) + 1
      /\ \A i \in 1 .. Len(rows) : rows'[i] = rows[i]
      /\ rows'[Len(rows) + 1] = named[r]
  BY AppendProperties
<1>2. \A u : u # named[r] => (HasRow(u)' <=> HasRow(u)) /\ (Twins(u)' <=> Twins(u))
  BY <1>1 DEF HasRow, Twins
<1>3. HasRow(named[r])'
  BY <1>1 DEF HasRow
<1>4. ASSUME Twins(named[r])' PROVE HasRow(named[r])
  <2>1. PICK x, y \in 1 .. Len(rows) + 1 : x # y /\ rows'[x] = named'[r] /\ rows'[y] = named'[r]
    BY <1>1, <1>4 DEF Twins
  <2>2. \E z \in 1 .. Len(rows) : rows'[z] = named'[r]
    BY <1>1, <2>1
  <2> QED BY <1>1, <2>2 DEF HasRow
<1>5. ASSUME shape.by = "adopt" PROVE Len(rows') <= 1 /\ \A u : ~Twins(u)'
  <2>1. I!SameName(named[r]) = {}
    BY <1>5
  <2>2. Len(rows) = 0
    BY <1>1, <1>5, <2>1 DEF I!SameName
  <2> QED BY <1>1, <2>2 DEF Twins
<1> QED BY <1>1, <1>2, <1>3, <1>4, <1>5

(* An attempt makes the row, where there is none, or adopts the one there is. *)
LEMMA MakeStays ==
  ASSUME PassTyped, PassTyped', TurnsKept, Placed, Shared, NEW r \in Records, I!Make(r)
  PROVE  Shared'
<1>0. PassTyped /\ TurnsKept /\ Ready /\ Sole /\ Knows /\ Agrees /\ RowsMade
  BY DEF Shared
<1> DEFINE adopts == shape.by = "adopt" /\ I!SameName(named[r]) # {}
<1>1. /\ pc[r] = "making" /\ pc' = [pc EXCEPT ![r] = "keeping"]
      /\ adopts => rows' = rows /\ \E x \in I!SameName(named[r]) : at' = [at EXCEPT ![r] = x]
      /\ ~adopts => rows' = Append(rows, named[r]) /\ at' = [at EXCEPT ![r] = Len(rows) + 1]
      /\ UNCHANGED <<shape, named, linked, map, stale, shared, torn, own, mapped, ended>>
  BY DEF I!Make, I!Go, I!Naming, I!Same, I!Took
<1>2. TurnsKept' /\ pc' \in [Records -> Places] /\ pc'[r] = "keeping" /\ \A q \in Records : q # r => pc'[q] = pc[q]
  BY <1>0, <1>1, TurnsStay DEF I!Over, Places, Owns
<1>3. named[r] \in NamedItems /\ rows \in Seq(NamedItems)
  BY <1>1 DEF Placed, Looks, Owns, PassTyped
<1>4. /\ at' \in [Records -> Nat] /\ \A q \in Records : q # r => at'[q] = at[q]
      /\ at'[r] # I!None
  <2>1. CASE adopts
    <3>1. PICK x \in I!SameName(named[r]) : at' = [at EXCEPT ![r] = x]
      BY <1>1, <2>1
    <3>2. x \in Nat /\ x # 0
      BY <1>3 DEF I!SameName
    <3> QED BY <1>0, <3>1, <3>2 DEF PassTyped, I!None
  <2>2. CASE ~adopts
    <3>1. Len(rows) + 1 \in Nat /\ Len(rows) + 1 # 0
      BY <1>3
    <3>2. at' = [at EXCEPT ![r] = Len(rows) + 1] /\ at \in [Records -> Nat]
      BY <1>0, <1>1, <2>2 DEF PassTyped
    <3> HIDE DEF adopts
    <3> QED BY <3>1, <3>2 DEF I!None
  <2> QED BY <2>1, <2>2
<1>5. /\ rows' \in Seq(NamedItems)
      /\ \A u : u # named[r] => (HasRow(u)' <=> HasRow(u)) /\ (Twins(u)' <=> Twins(u))
      /\ shape.by # "adopt" /\ Twins(named[r])' => HasRow(named[r])
      /\ shape.by = "adopt" => Len(rows') <= 1 /\ \A u : ~Twins(u)'
  <2>1. CASE adopts
    <3>1. rows' = rows /\ shape.by = "adopt" /\ Len(rows) <= 1 /\ Len(rows) \in Nat /\ DOMAIN rows = 1 .. Len(rows)
      BY <1>0, <1>1, <1>3, <2>1 DEF RowsMade
    <3>2. \A u : (HasRow(u)' <=> HasRow(u)) /\ (Twins(u)' <=> Twins(u))
      BY <3>1 DEF HasRow, Twins
    <3>3. \A u : ~Twins(u)
      BY <3>1 DEF Twins
    <3> QED BY <1>3, <3>1, <3>2, <3>3
  <2>2. CASE ~adopts
    <3>1. rows' = Append(rows, named[r]) /\ (shape.by = "adopt" => I!SameName(named[r]) = {})
      BY <1>1, <2>2
    <3>2. UNCHANGED <<shape, named>>
      BY <1>1
    <3> HIDE DEF adopts
    <3> QED BY <1>3, <3>1, <3>2, Appended
  <2> QED BY <2>1, <2>2
<1> HIDE DEF adopts
<1>7. Ready'
  BY <1>0, <1>1, <1>2 DEF Ready, Owns
<1>8. Sole'
  <2>1. \A q \in Records : pc'[q] \in Owns => pc[q] \in Owns
    BY <1>1, <1>2 DEF Owns
  <2>2. \A q \in Records : pc'[q] \in {"keeping", "kept"} => at'[q] # I!None
    BY <1>0, <1>1, <1>2, <1>4 DEF Sole
  <2>3. \A q \in Records : pc'[q] = "kept" => q # r /\ pc[q] = "kept" /\ at'[q] = at[q]
    BY <1>1, <1>2, <1>4
  <2> QED BY <1>0, <1>1, <2>1, <2>2, <2>3 DEF Sole
<1>9. Knows'
  BY <1>0, <1>1, <1>2 DEF Knows
<1>10. Agrees'
  <2>1. \A q \in Records : pc[q] = "kept" => pc'[q] = "kept" /\ at'[q] = at[q]
    BY <1>1, <1>2, <1>4
  <2>2. \A q \in Records : pc'[q] \in Served => pc[q] \in Served /\ at'[q] = at[q]
    BY <1>2, <1>4 DEF Served
  <2> QED BY <1>0, <1>1, <2>1, <2>2, AgreesStay DEF Agrees
<1>11. RowsMade'
  <2>1. \A u : Torn(u)' <=> Torn(u)
    BY <1>1 DEF Torn
  <2>2. shape.by # "adopt" /\ HasRow(named[r]) => Torn(named[r])
    BY <1>0, <1>1 DEF RowsMade
  <2>3. ASSUME NEW q \in Records, pc'[q] = "making", shape.by # "adopt" PROVE ~HasRow(named[q])' \/ Torn(named[q])'
    <3>1. q # r /\ pc[q] = "making" /\ named[q] # named[r]
      BY <1>0, <1>1, <1>2, <2>3 DEF Sole, Owns
    <3>2. ~HasRow(named[q]) \/ Torn(named[q])
      BY <1>0, <2>3, <3>1 DEF RowsMade
    <3>3. (HasRow(named[q])' <=> HasRow(named[q])) /\ (Torn(named[q])' <=> Torn(named[q]))
      <4>1. named' = named
        BY <1>1
      <4>2. PICK u : u = named[q]
        OBVIOUS
      <4>3. (HasRow(u)' <=> HasRow(u)) /\ (Torn(u)' <=> Torn(u))
        BY <1>5, <2>1, <3>1, <4>2
      <4> QED BY <4>1, <4>2, <4>3 DEF HasRow, Torn
    <3> QED BY <3>2, <3>3
  <2>4. ASSUME NEW u \in NamedItems, Twins(u)' PROVE Torn(u)'
    <3>1. CASE u # named[r]
      BY <1>0, <1>5, <2>1, <2>4, <3>1 DEF RowsMade
    <3>2. CASE u = named[r]
      <4>1. shape.by # "adopt" /\ Twins(named[r])'
        BY <1>1, <1>5, <2>4, <3>2 DEF Twins
      <4> QED BY <1>5, <2>1, <2>2, <3>2, <4>1
    <3> QED BY <3>1, <3>2
  <2>5. ASSUME shape.by = "insert", NEW u \in NamedItems, HasRow(u)'
        PROVE  linked[u] # I!None \/ Torn(u) \/ \E q \in Records : pc'[q] \in {"keeping", "kept"} /\ named[q] = u
    <3>1. CASE u = named[r]
      BY <1>2, <3>1
    <3>2. CASE u # named[r]
      <4>1. linked[u] # I!None \/ Torn(u) \/ \E q \in Records : pc[q] \in {"keeping", "kept"} /\ named[q] = u
        BY <1>0, <1>5, <2>5, <3>2 DEF RowsMade
      <4> QED BY <1>1, <1>2, <4>1
    <3> QED BY <3>1, <3>2
  <2> QED BY <1>1, <1>5, <2>1, <2>3, <2>4, <2>5 DEF RowsMade
<1> QED BY <1>7, <1>8, <1>9, <1>10, <1>11 DEF Shared

(* Who has a row to be mapped and who stands by it stand by the same. *)
LEMMA OneStands ==
  ASSUME Shared, NEW r \in Records, pc[r] = "kept", NEW x \in Nat, x # I!None, Stands(named[r], x)
  PROVE  x = at[r]
<1>1. Sole /\ linked[named[r]] = I!None
  BY DEF Shared, Sole, Owns
<1>2. CASE x = Remembered(named[r])
  <2>1. ~shape.once /\ ~shape.wide
    BY <1>1, <1>2 DEF Remembered, Sole, Owns, I!Busy, Shared, Ready
  <2> QED BY <1>1, <1>2, <2>1 DEF Remembered, Sole
<1>3. CASE \E q \in Records : pc[q] = "kept" /\ named[q] = named[r] /\ at[q] = x
  <2>1. PICK q \in Records : pc[q] = "kept" /\ named[q] = named[r] /\ at[q] = x
    BY <1>3
  <2>2. q = r
    BY <1>1, <2>1 DEF Sole, Owns
  <2> QED BY <2>1, <2>2
<1> QED BY <1>1, <1>2, <1>3 DEF Stands

(* The mapping is kept in memory. *)
LEMMA KeepStays ==
  ASSUME Records \subseteq Nat, PassTyped, PassTyped', TurnsKept, Placed, Shared, NEW r \in Records, I!Keep(r)
  PROVE  Shared'
<1>0. PassTyped /\ TurnsKept /\ Ready /\ Sole /\ Knows /\ Agrees /\ RowsMade
  BY DEF Shared
<1>1. /\ pc[r] = "keeping" /\ pc' = [pc EXCEPT ![r] = "kept"]
      /\ map' = [map EXCEPT !.of[named[r]] = at[r]]
      /\ UNCHANGED <<shape, named, linked, stale, rows, shared, at, torn, own, mapped, ended>>
  BY DEF I!Keep, I!Go, I!Naming, I!Same
<1>2. TurnsKept' /\ pc' \in [Records -> Places] /\ pc'[r] = "kept" /\ \A q \in Records : q # r => pc'[q] = pc[q]
  BY <1>0, <1>1, TurnsStay DEF I!Over, Places, Owns
<1>3. named[r] \in NamedItems /\ at[r] \in Nat /\ at[r] # I!None /\ linked[named[r]] = I!None
  BY <1>0, <1>1 DEF Placed, Looks, Owns, PassTyped, Sole
<1>4. /\ map' \in [loaded : BOOLEAN, of : [NamedItems -> Nat]] /\ map'.loaded = map.loaded
      /\ \A u \in NamedItems : map'.of[u] = IF u = named[r] THEN at[r] ELSE map.of[u]
  BY <1>0, <1>1, <1>3 DEF PassTyped
<1>6. Ready'
  BY <1>0, <1>1, <1>2, <1>4 DEF Ready, Owns
<1>7. Sole'
  <2>1. \A q \in Records : pc'[q] \in Owns => pc[q] \in Owns
    BY <1>1, <1>2 DEF Owns
  <2>2. \A q \in Records : pc'[q] \in {"keeping", "kept"} => at[q] # I!None
    BY <1>0, <1>2, <1>3 DEF Sole
  <2>3. ASSUME NEW q \in Records, pc'[q] = "kept", ~shape.wide PROVE map'.of[named[q]] = at[q]
    <3>1. CASE q = r
      BY <1>3, <1>4, <3>1
    <3>2. CASE q # r
      BY <1>0, <1>1, <1>2, <2>3, <3>2, Alone DEF I!Over
    <3> QED BY <3>1, <3>2
  <2>4. ASSUME NEW q \in Records, pc'[q] \in {"finding", "making", "keeping"}, ~shape.wide PROVE FALSE
    BY <1>1, <1>2, <2>4, Alone DEF I!Over
  <2> QED BY <1>0, <1>1, <2>1, <2>2, <2>3, <2>4 DEF Sole
<1>8. Knows'
  BY <1>0, <1>1, <1>2, <1>3, <1>4 DEF Knows
<1>9. Agrees'
  <2>1. \A q \in Records : pc[q] = "kept" => pc'[q] = "kept" /\ at'[q] = at[q]
    BY <1>1, <1>2
  <2>2. \A q \in Records : pc'[q] \in Served => pc[q] \in Served
    BY <1>2 DEF Served
  <2>3. ASSUME NEW u \in NamedItems, NEW x \in Nat, x # I!None, Stands(u, x) PROVE Stands(u, x)'
    <3>1. CASE x = Remembered(u)
      <4>1. ~shape.once => ~shape.wide /\ u # named[r]
        BY <1>0, <1>1, <2>3, <3>1 DEF Ready, Sole, Remembered
      <4>2. IF shape.once THEN shared'[u] = shared[u] ELSE map'.of[u] = map.of[u]
        BY <1>1, <1>4, <4>1
      <4> QED BY <1>1, <2>1, <2>3, <4>2 DEF Stands, Remembered
    <3>2. CASE x # Remembered(u)
      BY <1>1, <2>1, <2>3, <3>2 DEF Stands
    <3> QED BY <3>1, <3>2
  <2>4. ASSUME NEW u \in NamedItems, map'.of[u] # I!None PROVE Stands(u, map.of[u])'
    <3>1. CASE u = named[r]
      BY <1>1, <1>2, <1>3, <1>4, <3>1 DEF Stands
    <3>2. CASE u # named[r]
      <4>1. map'.of[u] = map.of[u] /\ Stands(u, map.of[u]) /\ map.of[u] \in Nat
        BY <1>0, <1>4, <2>4, <3>2 DEF Agrees, PassTyped
      <4>2. PICK x \in Nat : x = map.of[u]
        BY <4>1
      <4>3. Stands(u, x)'
        BY <2>3, <2>4, <4>1, <4>2
      <4> QED BY <4>1, <4>2, <4>3 DEF Stands
    <3> QED BY <3>1, <3>2
  <2>5. ASSUME NEW q \in Records, pc'[q] \in Served, named[q] # I!None PROVE at[q] # I!None /\ Stands(named[q], at[q])'
    <3>1. at[q] # I!None /\ Stands(named[q], at[q]) /\ at[q] \in Nat /\ named[q] \in NamedItems
      BY <1>0, <2>2, <2>5 DEF Agrees, PassTyped
    <3>2. PICK u \in NamedItems, x \in Nat : u = named[q] /\ x = at[q]
      BY <3>1
    <3>3. Stands(u, x)'
      BY <2>3, <3>1, <3>2
    <3>4. u = named'[q] /\ x = at'[q]
      BY <1>1, <3>2
    <3> QED BY <3>1, <3>3, <3>4 DEF Stands
  <2>6. \A q \in Records, u \in NamedItems : stale'[q][u] # I!None => stale'[q][u] = linked'[u]
    BY <1>0, <1>1 DEF Agrees
  <2>7. shared' = shared /\ linked' = linked /\ torn' = torn /\ shape' = shape /\ at' = at /\ named' = named
    BY <1>1
  <2>8. \A u \in NamedItems : shared'[u] > I!None =>
          shape'.once /\ (shared'[u] = linked'[u] \/ (linked'[u] = I!None /\ u \in torn'.named))
    BY <1>0, <2>7 DEF Agrees
  <2> QED BY <2>4, <2>5, <2>6, <2>7, <2>8 DEF Agrees
<1>10. RowsMade'
  BY <1>0, <1>1, <1>2, RowsStay
<1> QED BY <1>6, <1>7, <1>8, <1>9, <1>10 DEF Shared

(* The database has answered: the mapping stands, and those who waited are told. *)
LEMMA KeptStays ==
  ASSUME Records \subseteq Nat, PassTyped, PassTyped', TurnsKept, Placed, Shared, NEW r \in Records, I!Kept(r)
  PROVE  Shared'
<1>0. PassTyped /\ TurnsKept /\ Ready /\ Sole /\ Knows /\ Agrees /\ RowsMade
  BY DEF Shared
<1>1. /\ pc[r] = "kept" /\ pc' = [pc EXCEPT ![r] = "writing"]
      /\ linked' = [linked EXCEPT ![named[r]] = at[r]]
      /\ shared' = IF shape.once THEN [shared EXCEPT ![named[r]] = at[r]] ELSE shared
      /\ UNCHANGED <<shape, named, map, stale, rows, at, torn, own, mapped, ended>>
  BY DEF I!Kept, I!Go, I!Naming, I!Same
<1>2. TurnsKept' /\ pc' \in [Records -> Places] /\ pc'[r] = "writing" /\ \A q \in Records : q # r => pc'[q] = pc[q]
  BY <1>0, <1>1, TurnsStay DEF I!Over, Places, Served
<1>3. named[r] \in NamedItems /\ at[r] \in Nat /\ at[r] # I!None /\ linked[named[r]] = I!None
      /\ (~shape.wide => map.of[named[r]] = at[r])
  BY <1>0, <1>1 DEF Placed, Looks, Owns, PassTyped, Sole
<1>4. /\ linked' \in [NamedItems -> Nat] /\ shared' \in [NamedItems -> Int]
      /\ linked'[named[r]] = at[r]
      /\ \A u \in NamedItems : u # named[r] => linked'[u] = linked[u] /\ shared'[u] = shared[u]
      /\ shape.once => shared'[named[r]] = at[r]
      /\ ~shape.once => shared' = shared
  <2>1. linked' \in [NamedItems -> Nat] /\ linked'[named[r]] = at[r] /\ \A u \in NamedItems : u # named[r] => linked'[u] = linked[u]
    BY <1>0, <1>1, <1>3 DEF PassTyped
  <2>2. CASE shape.once
    <3>1. shared' = [shared EXCEPT ![named[r]] = at[r]] /\ shared \in [NamedItems -> Int] /\ at[r] \in Int
      BY <1>0, <1>1, <1>3, <2>2 DEF PassTyped
    <3> QED BY <1>3, <2>1, <2>2, <3>1
  <2>3. CASE ~shape.once
    BY <1>0, <1>1, <2>1, <2>3 DEF PassTyped
  <2> QED BY <2>2, <2>3
<1>6. Ready'
  BY <1>0, <1>1, <1>2 DEF Ready, Owns
<1>7. \A q \in Records : pc'[q] \in Owns => q # r /\ pc[q] \in Owns /\ pc'[q] = pc[q] /\ named[q] # named[r]
                                            /\ named[q] \in NamedItems
  BY <1>0, <1>1, <1>2 DEF Sole, Placed, Looks, Owns
<1>8. Sole'
  <2>1. \A q \in Records : pc'[q] \in Owns =>
          linked'[named[q]] = linked[named[q]] /\ shared'[named[q]] = shared[named[q]]
    BY <1>4, <1>7
  <2>2. \A p, q \in Records : pc'[p] \in Owns /\ pc'[q] \in Owns /\ named[p] = named[q] => p = q
    BY <1>0, <1>7 DEF Sole
  <2>3. \A q \in Records : pc'[q] \in Owns => (shape.once => shared'[named[q]] = I!Busy) /\ linked'[named[q]] = I!None
    BY <1>0, <1>7, <2>1 DEF Sole
  <2>4. \A q \in Records : pc'[q] \in {"keeping", "kept"} => pc[q] = pc'[q]
    BY <1>7 DEF Owns
  <2> QED BY <1>0, <1>1, <2>2, <2>3, <2>4 DEF Sole
<1>9. Knows'
  <2>1. ASSUME NEW u \in NamedItems, linked'[u] # I!None
        PROVE  \/ shared'[u] > I!None
               \/ /\ map'.loaded => map'.of[u] # I!None
                  /\ \A q \in Records : pc'[q] = "loading" => stale'[q][u] # I!None
    <3>1. CASE u # named[r]
      <4>1. \A q \in Records : pc'[q] = "loading" => pc[q] = "loading"
        BY <1>1, <1>2
      <4> QED BY <1>0, <1>1, <1>4, <2>1, <3>1, <4>1 DEF Knows
    <3>2. CASE u = named[r] /\ shape.once
      BY <1>3, <1>4, <3>2 DEF I!None
    <3>3. CASE u = named[r] /\ ~shape.once
      <4>1. ~shape.wide
        BY <1>0, <3>3 DEF Ready
      <4>2. \A q \in Records : pc'[q] # "loading"
        BY <1>0, <1>1, <1>2, <4>1, Alone DEF I!Over
      <4> QED BY <1>1, <1>3, <3>3, <4>1, <4>2
    <3> QED BY <3>1, <3>2, <3>3
  <2> QED BY <2>1 DEF Knows
<1>10. Agrees'
  <2>1. ASSUME NEW u \in NamedItems, NEW x \in Nat, x # I!None, Stands(u, x)
        PROVE  \/ x = linked'[u]
               \/ linked'[u] = I!None /\ \E q \in Records : pc'[q] = "kept" /\ named'[q] = u /\ at'[q] = x
               \/ linked'[u] = I!None /\ u \in torn'.named /\ x = IF shape'.once THEN shared'[u] ELSE map'.of[u]
    <3>1. CASE u = named[r]
      BY <1>1, <1>4, <2>1, <3>1, OneStands
    <3>2. CASE u # named[r]
      <4>1. \/ x = linked[u]
            \/ linked[u] = I!None /\ \E q \in Records : q # r /\ pc[q] = "kept" /\ named[q] = u /\ at[q] = x
            \/ linked[u] = I!None /\ u \in torn.named /\ x = IF shape.once THEN shared[u] ELSE map.of[u]
        BY <2>1, <3>2 DEF Stands, Remembered
      <4> QED BY <1>1, <1>2, <1>4, <3>2, <4>1
    <3> QED BY <3>1, <3>2
  <2>2. \A u \in NamedItems : map'.of[u] # I!None => Stands(u, map'.of[u])
    BY <1>0, <1>1 DEF Agrees
  <2>3. \A q \in Records, u \in NamedItems : stale'[q][u] # I!None => stale'[q][u] = linked'[u]
    <3>1. ASSUME NEW q \in Records, NEW u \in NamedItems, stale[q][u] # I!None PROVE stale[q][u] = linked[u] /\ u # named[r]
      BY <1>0, <1>3, <3>1 DEF Agrees
    <3> QED BY <1>1, <1>4, <3>1
  <2>4. ASSUME NEW u \in NamedItems, shared'[u] > I!None
        PROVE  shape.once /\ (shared'[u] = linked'[u] \/ (linked'[u] = I!None /\ u \in torn'.named))
    <3>1. CASE u # named[r]
      BY <1>0, <1>1, <1>4, <2>4, <3>1 DEF Agrees
    <3>2. CASE u = named[r]
      BY <1>0, <1>4, <2>4, <3>2 DEF Agrees
    <3> QED BY <3>1, <3>2
  <2>5. ASSUME NEW q \in Records, pc'[q] \in Served, named[q] # I!None
        PROVE  at'[q] # I!None /\ Stands(named[q], at'[q])
    <3>1. CASE q = r
      BY <1>0, <1>1, <1>3, <3>1 DEF Stands
    <3>2. CASE q # r
      BY <1>0, <1>1, <1>2, <2>5, <3>2 DEF Agrees
    <3> QED BY <3>1, <3>2
  <2>6. shape' = shape /\ named' = named
    BY <1>1
  <2> QED BY <2>1, <2>2, <2>3, <2>4, <2>5, <2>6, StandsStay
<1>11. RowsMade'
  <2>1. \A u : (HasRow(u)' <=> HasRow(u)) /\ (Twins(u)' <=> Twins(u)) /\ (Torn(u)' <=> Torn(u))
    BY <1>1 DEF HasRow, Twins, Torn
  <2>2. ASSUME NEW q \in Records, pc'[q] = "making", shape'.by # "adopt" PROVE (~HasRow(named[q]) \/ Torn(named[q]))'
    <3>1. ~HasRow(named[q]) \/ Torn(named[q])
      BY <1>0, <1>1, <1>2, <2>2 DEF RowsMade
    <3> QED BY <1>1, <3>1 DEF HasRow, Torn
  <2>3. \A u \in NamedItems : Twins(u)' => Torn(u)'
    BY <1>0, <2>1 DEF RowsMade
  <2>4. ASSUME shape'.by = "insert", NEW u \in NamedItems, HasRow(u)'
        PROVE  \/ linked'[u] # I!None \/ Torn(u)'
               \/ \E q \in Records : pc'[q] \in {"keeping", "kept"} /\ named'[q] = u
    <3>1. CASE u = named[r]
      BY <1>3, <1>4, <3>1
    <3>2. CASE u # named[r]
      <4>1. linked[u] # I!None \/ Torn(u) \/ \E q \in Records : pc[q] \in {"keeping", "kept"} /\ named[q] = u
        BY <1>0, <1>1, <2>1, <2>4 DEF RowsMade
      <4> QED BY <1>1, <1>2, <1>4, <2>1, <3>2, <4>1
    <3> QED BY <3>1, <3>2
  <2>5. shape'.by = "adopt" => Len(rows') <= 1
    BY <1>0, <1>1 DEF RowsMade
  <2> QED BY <2>2, <2>3, <2>4, <2>5 DEF RowsMade
<1> QED BY <1>6, <1>8, <1>9, <1>10, <1>11 DEF Shared

(* The mapping was refused: the run remembers the row, and those who waited are told. *)
LEMMA KeptNowhereStays ==
  ASSUME Records \subseteq Nat, PassTyped, PassTyped', TurnsKept, Placed, Shared, NEW r \in Records, I!KeptNowhere(r)
  PROVE  Shared'
<1>0. PassTyped /\ TurnsKept /\ Ready /\ Sole /\ Knows /\ Agrees /\ RowsMade
  BY DEF Shared
<1>1. /\ pc[r] = "kept" /\ pc' = [pc EXCEPT ![r] = "writing"]
      /\ torn' = [torn EXCEPT !.named = @ \cup {named[r]}]
      /\ shared' = IF shape.once THEN [shared EXCEPT ![named[r]] = at[r]] ELSE shared
      /\ UNCHANGED <<shape, named, linked, map, stale, rows, at, own, mapped, ended>>
  BY DEF I!KeptNowhere, I!Go, I!Same
<1>2. TurnsKept' /\ pc' \in [Records -> Places] /\ pc'[r] = "writing" /\ \A q \in Records : q # r => pc'[q] = pc[q]
  BY <1>0, <1>1, TurnsStay DEF I!Over, Places, Served
<1>3. named[r] \in NamedItems /\ at[r] \in Nat /\ at[r] # I!None /\ linked[named[r]] = I!None
      /\ (~shape.once => map.of[named[r]] = at[r])
  BY <1>0, <1>1 DEF Placed, Looks, Owns, PassTyped, Sole, Ready
<1>4. /\ \A u \in NamedItems : u # named[r] => shared'[u] = shared[u]
      /\ shape.once => shared'[named[r]] = at[r]
      /\ ~shape.once => shared' = shared
  BY <1>0, <1>1, <1>3 DEF PassTyped
<1>5. torn'.named = torn.named \cup {named[r]}
  BY <1>0, <1>1 DEF PassTyped
<1>6. Ready'
  BY <1>0, <1>1, <1>2 DEF Ready, Owns
<1>7. Sole'
  <2>1. \A q \in Records : pc'[q] \in Owns => q # r /\ pc[q] \in Owns /\ pc'[q] = pc[q] /\ named[q] # named[r]
                                              /\ named[q] \in NamedItems
    BY <1>0, <1>1, <1>2 DEF Sole, Placed, Looks, Owns
  <2>2. \A q \in Records : pc'[q] \in Owns => shared'[named[q]] = shared[named[q]]
    BY <1>4, <2>1
  <2> QED BY <1>0, <1>1, <2>1, <2>2, SoleStays
<1>8. Knows'
  <2>1. \A u \in NamedItems : shared[u] > I!None => shared'[u] > I!None
    BY <1>3, <1>4 DEF I!None
  <2>2. \A q \in Records : pc'[q] = "loading" => pc[q] = "loading"
    BY <1>2
  <2> QED BY <1>0, <1>1, <2>1, <2>2 DEF Knows
<1>9. Agrees'
  <2>1. ASSUME NEW u \in NamedItems, NEW x \in Nat, x # I!None, Stands(u, x)
        PROVE  \/ x = linked'[u]
               \/ linked'[u] = I!None /\ \E q \in Records : pc'[q] = "kept" /\ named'[q] = u /\ at'[q] = x
               \/ linked'[u] = I!None /\ u \in torn'.named /\ x = IF shape'.once THEN shared'[u] ELSE map'.of[u]
    <3>1. CASE u = named[r]
      <4>1. x = at[r]
        BY <1>1, <2>1, <3>1, OneStands
      <4> QED BY <1>1, <1>3, <1>4, <1>5, <3>1, <4>1
    <3>2. CASE u # named[r]
      <4>1. \/ x = linked[u]
            \/ linked[u] = I!None /\ \E q \in Records : q # r /\ pc[q] = "kept" /\ named[q] = u /\ at[q] = x
            \/ linked[u] = I!None /\ u \in torn.named /\ x = IF shape.once THEN shared[u] ELSE map.of[u]
        BY <2>1, <3>2 DEF Stands, Remembered
      <4> QED BY <1>1, <1>2, <1>4, <1>5, <3>2, <4>1
    <3> QED BY <3>1, <3>2
  <2>2. \A u \in NamedItems : map'.of[u] # I!None => Stands(u, map'.of[u])
    BY <1>0, <1>1 DEF Agrees
  <2>3. \A q \in Records, u \in NamedItems : stale'[q][u] # I!None => stale'[q][u] = linked'[u]
    BY <1>0, <1>1 DEF Agrees
  <2>4. ASSUME NEW u \in NamedItems, shared'[u] > I!None
        PROVE  shape.once /\ (shared'[u] = linked'[u] \/ (linked'[u] = I!None /\ u \in torn'.named))
    <3>1. CASE u # named[r] \/ ~shape.once
      BY <1>0, <1>1, <1>4, <1>5, <2>4, <3>1 DEF Agrees
    <3>2. CASE u = named[r] /\ shape.once
      BY <1>1, <1>3, <1>5, <3>2
    <3> QED BY <3>1, <3>2
  <2>5. ASSUME NEW q \in Records, pc'[q] \in Served, named[q] # I!None
        PROVE  at'[q] # I!None /\ Stands(named[q], at'[q])
    <3>1. CASE q = r
      BY <1>0, <1>1, <1>3, <3>1 DEF Stands
    <3>2. CASE q # r
      BY <1>0, <1>1, <1>2, <2>5, <3>2 DEF Agrees
    <3> QED BY <3>1, <3>2
  <2>6. shape' = shape /\ named' = named
    BY <1>1
  <2> QED BY <2>1, <2>2, <2>3, <2>4, <2>5, <2>6, StandsStay
<1>10. RowsMade'
  <2>1. \A u : (HasRow(u)' <=> HasRow(u)) /\ (Twins(u)' <=> Twins(u)) /\ (Torn(u) => Torn(u)')
    BY <1>1, <1>5 DEF HasRow, Twins, Torn
  <2>2. ASSUME NEW q \in Records, pc'[q] = "making", shape'.by # "adopt" PROVE (~HasRow(named[q]) \/ Torn(named[q]))'
    <3>1. ~HasRow(named[q]) \/ Torn(named[q])
      BY <1>0, <1>1, <1>2, <2>2 DEF RowsMade
    <3> QED BY <1>1, <1>5, <3>1 DEF HasRow, Torn
  <2>3. \A u \in NamedItems : Twins(u)' => Torn(u)'
    BY <1>0, <2>1 DEF RowsMade
  <2>4. ASSUME shape'.by = "insert", NEW u \in NamedItems, HasRow(u)'
        PROVE  \/ linked'[u] # I!None \/ Torn(u)'
               \/ \E q \in Records : pc'[q] \in {"keeping", "kept"} /\ named'[q] = u
    <3>1. CASE u = named[r]
      BY <1>1, <1>5, <2>4, <3>1 DEF Torn
    <3>2. CASE u # named[r]
      <4>1. linked[u] # I!None \/ Torn(u) \/ \E q \in Records : pc[q] \in {"keeping", "kept"} /\ named[q] = u
        BY <1>0, <1>1, <2>1, <2>4 DEF RowsMade
      <4> QED BY <1>1, <1>2, <2>1, <3>2, <4>1
    <3> QED BY <3>1, <3>2
  <2>5. shape'.by = "adopt" => Len(rows') <= 1
    BY <1>0, <1>1 DEF RowsMade
  <2> QED BY <2>2, <2>3, <2>4, <2>5 DEF RowsMade
<1> QED BY <1>6, <1>7, <1>8, <1>9, <1>10 DEF Shared

(* A record that has what it names, or nothing, goes on or is passed over: no row is made for it. *)
LEMMA NothingMade ==
  ASSUME PassTyped, PassTyped', TurnsKept, Placed, Shared, NEW r \in Records, NEW to \in Places,
         pc' = [pc EXCEPT ![r] = to], pc[r] \notin I!Over \cup {"waiting", "kept"},
         to \notin {"waiting"} \cup Looks, to \in Served => pc[r] \in Served,
         pc[r] \in {"finding", "making"} => shared' = [shared EXCEPT ![named[r]] = I!None]
                                            \/ shared' = [shared EXCEPT ![named[r]] = I!Failed] \/ shared' = shared,
         pc[r] \notin {"finding", "making"} => shared' = shared, pc[r] # "keeping",
         torn'.named = torn.named,
         UNCHANGED <<shape, named, linked, map, stale, rows, at, ended>>
  PROVE  Shared'
<1>1. /\ Ready' /\ Sole' /\ Knows' /\ Agrees'
      /\ \A q \in Records : pc'[q] = "making" => pc[q] = "making"
      /\ \A q \in Records : pc[q] \in {"keeping", "kept"} => pc'[q] \in {"keeping", "kept"}
  BY GoesOnServed
<1>2. RowsMade'
  BY <1>1, RowsStay DEF Shared
<1> QED BY <1>1, <1>2 DEF Shared

(* What follows what it names: its own row, and the end of its work. *)
LEMMA WritesStay ==
  ASSUME PassTyped, PassTyped', TurnsKept, Placed, Shared, NEW r \in Records,
         I!Update(r) \/ I!Insert(r) \/ I!MapOwn(r) \/ I!OwnKeptNowhere(r) \/ I!Wrote(r)
  PROVE  Shared'
<1>1. PICK to \in {"parts", "unmapped", "done"} :
        /\ pc[r] \in {"writing", "unmapped", "parts"} /\ pc' = [pc EXCEPT ![r] = to]
        /\ torn' = torn \/ torn' = [torn EXCEPT !.own = @ \cup {r}]
        /\ UNCHANGED <<shape, named, linked, map, stale, rows, shared, at, ended>>
  BY DEF I!Update, I!Insert, I!MapOwn, I!OwnKeptNowhere, I!Wrote, I!Go, I!Rest, I!Same
<1>2. torn'.named = torn.named
  BY <1>1 DEF PassTyped
<1>3. to \in Places /\ to \in Served /\ pc[r] \in Served /\ pc[r] \notin I!Over \cup {"waiting", "kept", "keeping"}
      /\ pc[r] \notin {"finding", "making"} /\ to \notin {"waiting"} \cup Looks
  BY <1>1 DEF Places, Served, I!Over, Owns, Looks
<1> QED BY <1>1, <1>2, <1>3, NothingMade

(* A record that is passed over leaves the rest as they are, and lets go of its attempt. *)
LEMMA PassedIs ==
  ASSUME NEW r \in Records, NEW from \in {"loading", "looking", "finding", "making", "writing", "parts"},
         I!Passed(r, from)
  PROVE  /\ pc[r] = from /\ pc' = [pc EXCEPT ![r] = "failed"] /\ count' = [count EXCEPT !.failed = @ + 1]
         /\ pc[r] \in {"finding", "making"} => \/ shared' = [shared EXCEPT ![named[r]] = I!None]
                                              \/ shared' = [shared EXCEPT ![named[r]] = I!Failed]
                                              \/ shared' = shared
         /\ pc[r] \notin {"finding", "making"} => shared' = shared
         /\ UNCHANGED <<shape, named, linked, map, stale, mapped, at, run, ended>>
         /\ "failed" \in Places /\ "failed" \notin Served /\ pc[r] \notin I!Over \cup {"waiting", "kept", "keeping"}
         /\ "failed" \notin {"waiting"} \cup Looks
<1>1. "failed" \in Places /\ "failed" \notin Served /\ from \notin I!Over \cup {"waiting", "kept", "keeping"}
      /\ "failed" \notin {"waiting"} \cup Looks
  BY DEF Places, Served, I!Over, Owns, Looks
<1> QED BY <1>1 DEF I!Passed, I!Go, I!Same

LEMMA FailsStay ==
  ASSUME PassTyped, PassTyped', TurnsKept, Placed, Shared, NEW r \in Records,
         NEW from \in {"loading", "looking", "finding", "making", "writing", "parts"},
         I!Fails(r, from) \/ (I!InsertUnheard(r) /\ from = "writing")
  PROVE  Shared'
<1>1. I!Passed(r, from) /\ UNCHANGED rows
  BY DEF I!Fails, I!InsertUnheard
<1>2. torn'.named = torn.named
  BY DEF I!Fails, I!InsertUnheard, PassTyped
<1> QED BY <1>1, <1>2, PassedIs, NothingMade

(* A row is made and the answer lost: nobody has it, and its uid is known as torn. *)
LEMMA MadeUnheardStays ==
  ASSUME PassTyped, PassTyped', TurnsKept, Placed, Shared, NEW r \in Records, I!MadeUnheard(r)
  PROVE  Shared'
<1>1. /\ I!Passed(r, "making") /\ rows' = Append(rows, named[r])
      /\ shape.by = "adopt" => I!SameName(named[r]) = {}
      /\ torn' = [torn EXCEPT !.named = @ \cup {named[r]}]
  BY DEF I!MadeUnheard
<1>2. torn'.named = torn.named \cup {named[r]}
  BY <1>1 DEF PassTyped
<1>3. /\ pc[r] = "making" /\ UNCHANGED <<shape, named, linked>>
      /\ Ready' /\ Sole' /\ Knows' /\ Agrees'
      /\ \A q \in Records : pc'[q] = "making" => pc[q] = "making" /\ q # r
      /\ \A q \in Records : pc[q] \in {"keeping", "kept"} => pc'[q] \in {"keeping", "kept"}
  BY <1>1, <1>2, PassedIs, GoesOnServed
<1>4. RowsMade'
  <2>0. Sole /\ RowsMade /\ named[r] \in NamedItems /\ rows \in Seq(NamedItems)
    BY <1>3 DEF Shared, Placed, Looks, Owns, PassTyped
  <2>1. /\ HasRow(named[r])'
        /\ \A u : u # named[r] => (HasRow(u)' <=> HasRow(u)) /\ (Twins(u)' <=> Twins(u))
        /\ shape.by # "adopt" /\ Twins(named[r])' => HasRow(named[r])
        /\ shape.by = "adopt" => Len(rows') <= 1 /\ \A u : ~Twins(u)'
    BY <1>1, <1>3, <2>0, Appended
  <2>2. \A u : Torn(u) => Torn(u)'
    BY <1>2, <1>3 DEF Torn
  <2>3. ASSUME NEW q \in Records, pc'[q] = "making", shape'.by # "adopt" PROVE (~HasRow(named[q]) \/ Torn(named[q]))'
    <3>1. q # r /\ pc[q] = "making" /\ named[q] # named[r]
      BY <1>3, <2>0, <2>3 DEF Sole, Owns
    <3>2. ~HasRow(named[q]) \/ Torn(named[q])
      BY <1>3, <2>0, <2>3, <3>1 DEF RowsMade
    <3>3. PICK u : u = named[q]
      OBVIOUS
    <3>4. (HasRow(u)' <=> HasRow(u)) /\ (Torn(u) => Torn(u)')
      BY <2>1, <2>2, <3>1, <3>3
    <3>5. named' = named
      BY <1>3
    <3> QED BY <3>2, <3>3, <3>4, <3>5 DEF HasRow, Torn
  <2>4. ASSUME NEW u \in NamedItems, Twins(u)' PROVE Torn(u)'
    <3>1. CASE u # named[r]
      BY <2>0, <2>1, <2>2, <2>4, <3>1 DEF RowsMade
    <3>2. CASE u = named[r]
      <4>1. shape.by # "adopt" /\ Twins(named[r])'
        BY <1>3, <2>1, <2>4, <3>2 DEF Twins
      <4>2. Torn(named[r])
        BY <1>3, <2>0, <2>1, <4>1 DEF RowsMade
      <4> QED BY <2>2, <3>2, <4>2
    <3> QED BY <3>1, <3>2
  <2>5. ASSUME shape'.by = "insert", NEW u \in NamedItems, HasRow(u)'
        PROVE  \/ linked'[u] # I!None \/ Torn(u)'
               \/ \E q \in Records : pc'[q] \in {"keeping", "kept"} /\ named'[q] = u
    <3>1. CASE u = named[r]
      BY <1>2, <2>5, <3>1 DEF Torn
    <3>2. CASE u # named[r]
      <4>1. linked[u] # I!None \/ Torn(u) \/ \E q \in Records : pc[q] \in {"keeping", "kept"} /\ named[q] = u
        BY <1>3, <2>0, <2>1, <2>5, <3>2 DEF RowsMade
      <4> QED BY <1>3, <2>2, <4>1
    <3> QED BY <3>1, <3>2
  <2> QED BY <1>3, <2>1, <2>3, <2>4, <2>5 DEF RowsMade
<1> QED BY <1>3, <1>4 DEF Shared

(* The next run begins with what the database has. *)
LEMMA AgainStays ==
  ASSUME PassTyped, PassTyped', Shared, NEW cut \in [own : SUBSET Records, named : SUBSET (NamedItems \cup {I!None})], I!Again(cut),
         \A r \in Records : pc[r] \in {"keeping", "kept"} => named[r] \in cut.named
  PROVE  Shared'
<1>0. PassTyped /\ Ready /\ Knows /\ RowsMade
  BY DEF Shared
<1>1. /\ map' = [loaded |-> shape.held, of |-> IF shape.held THEN linked ELSE I!NotMapped]
      /\ shared' = I!NotMapped /\ stale' = [r \in Records |-> I!NotMapped]
      /\ at' = [r \in Records |-> I!None] /\ ended' = FALSE
      /\ pc' = [r \in Records |-> "waiting"]
      /\ torn' = [own |-> torn.own \cup cut.own, named |-> torn.named \cup cut.named]
      /\ UNCHANGED <<shape, named, linked, rows, own, mapped>>
  BY DEF I!Again
<1>2. I!NotMapped \in [NamedItems -> Nat] /\ I!NotMapped \in [NamedItems -> Int] /\ \A u \in NamedItems : I!NotMapped[u] = I!None
  BY DEF I!NotMapped, I!None
<1>3. /\ \A q \in Records : pc'[q] = "waiting" /\ stale'[q] = I!NotMapped
      /\ pc' \in [Records -> Places] /\ stale' \in [Records -> [NamedItems -> Nat]] /\ at' \in [Records -> Nat]
      /\ torn' \in [own : SUBSET Records, named : SUBSET (NamedItems \cup {I!None})]
      /\ \A u \in torn.named \cup cut.named : u \in torn'.named
  BY <1>0, <1>1, <1>2 DEF Places, PassTyped, I!None
<1>5. Ready' /\ Sole'
  BY <1>0, <1>1, <1>2, <1>3 DEF Ready, Sole, Owns
<1>6. Knows'
  BY <1>0, <1>1, <1>3 DEF Knows
<1>7. Agrees'
  <2>1. \A u \in NamedItems : map'.of[u] # I!None => map'.of[u] = linked'[u]
    BY <1>1, <1>2
  <2>2. \A u \in NamedItems : shared'[u] = I!None /\ ~(shared'[u] > I!None)
    BY <1>1, <1>2 DEF I!None
  <2> QED BY <1>1, <1>2, <1>3, <2>1, <2>2 DEF Agrees, Stands, Served
<1>8. RowsMade'
  <2>1. \A u : (HasRow(u)' <=> HasRow(u)) /\ (Twins(u)' <=> Twins(u)) /\ (Torn(u) => Torn(u)')
    BY <1>1, <1>3 DEF HasRow, Twins, Torn
  <2>2. ASSUME shape.by = "insert", NEW u \in NamedItems, HasRow(u)' PROVE linked'[u] # I!None \/ Torn(u)'
    <3>1. linked[u] # I!None \/ Torn(u) \/ \E q \in Records : pc[q] \in {"keeping", "kept"} /\ named[q] = u
      BY <1>0, <2>1, <2>2 DEF RowsMade
    <3>2. (\E q \in Records : pc[q] \in {"keeping", "kept"} /\ named[q] = u) => u \in torn'.named
      BY <1>3
    <3> QED BY <1>1, <2>1, <2>2, <3>1, <3>2 DEF Torn
  <2>3. \A q \in Records : pc'[q] # "making"
    BY <1>3
  <2>4. \A u \in NamedItems : Twins(u)' => Torn(u)'
    BY <1>0, <2>1 DEF RowsMade
  <2> QED BY <1>0, <1>1, <2>2, <2>3, <2>4 DEF RowsMade
<1> QED BY <1>5, <1>6, <1>7, <1>8 DEF Shared

(* What a stopped run leaves half done is known: rows that are made and not mapped. *)
LEMMA RunsAgain ==
  ASSUME PassTyped, TurnsKept, I!RunAgain
  PROVE  \E cut \in [own : SUBSET Records, named : SUBSET (NamedItems \cup {I!None})] :
           /\ I!Again(cut)
           /\ \A r \in Records : /\ pc[r] = "unmapped" => r \in cut.own
                                 /\ pc[r] \in {"keeping", "kept"} => named[r] \in cut.named
<1>1. [own |-> {}, named |-> {}] \in [own : SUBSET Records, named : SUBSET (NamedItems \cup {I!None})]
  OBVIOUS
<1>2. I!Again([own |-> {}, named |-> {}]) /\ \A r \in Records : pc[r] \in I!Over
  BY DEF I!RunAgain, TurnsKept
<1>3. \A r \in Records : pc[r] \notin {"unmapped", "keeping", "kept"}
  BY <1>2 DEF I!Over
<1> QED BY <1>1, <1>2, <1>3

LEMMA StopsAndRuns ==
  ASSUME PassTyped, I!Stop
  PROVE  \E cut \in [own : SUBSET Records, named : SUBSET (NamedItems \cup {I!None})] :
           /\ I!Again(cut)
           /\ \A r \in Records : /\ pc[r] = "unmapped" => r \in cut.own
                                 /\ pc[r] \in {"keeping", "kept"} => named[r] \in cut.named
<1> DEFINE cut == [own |-> {r \in Records : pc[r] = "unmapped"},
                   named |-> {named[r] : r \in {q \in Records : pc[q] \in {"keeping", "kept"}}}]
<1>1. cut \in [own : SUBSET Records, named : SUBSET (NamedItems \cup {I!None})]
  BY DEF PassTyped
<1>2. I!Again(cut)
  BY DEF I!Stop
<1>3. \A r \in Records : /\ pc[r] = "unmapped" => r \in cut.own
                         /\ pc[r] \in {"keeping", "kept"} => named[r] \in cut.named
  OBVIOUS
<1> HIDE DEF cut
<1> QED BY <1>1, <1>2, <1>3

(* Types, turns and names: what a step that lets one record go on does to them. *)
LEMMA FitsGoOn ==
  ASSUME PassFits, NEW r \in Records, NEW to \in Places, pc' = [pc EXCEPT ![r] = to], pc[r] \notin I!Over, to # "waiting",
         pc[r] = "waiting" => I!InTurn(r), to \in Looks => named[r] \in NamedItems,
         UNCHANGED <<shape, named, ended>>,
         rows' = rows \/ (named[r] \in NamedItems /\ rows' = Append(rows, named[r])),
         at' = at \/ \E x \in There' : at' = [at EXCEPT ![r] = x],
         linked' = linked \/ linked' = [linked EXCEPT ![named[r]] = at[r]],
         map' = map \/ map' = [loaded |-> TRUE, of |-> stale[r]] \/ map' = [map EXCEPT !.of[named[r]] = at[r]],
         \E new \in [NamedItems -> There] : stale' = stale \/ stale' = [stale EXCEPT ![r] = new],
         shared' = shared \/ \E x \in There \cup {I!Busy, I!Failed} : shared' = [shared EXCEPT ![named[r]] = x],
         own' \in [Records -> Nat], mapped' \subseteq Records,
         torn' \in [own : SUBSET Records, named : SUBSET (NamedItems \cup {I!None})]
  PROVE  PassFits'
<1>0. PassTyped /\ TurnsKept /\ Placed /\ RowsThere
  BY DEF PassFits
<1>1. TurnsKept' /\ pc' \in [Records -> Places] /\ pc'[r] = to /\ \A q \in Records : q # r => pc'[q] = pc[q]
  BY <1>0, TurnsStay
<1>2. rows' \in Seq(NamedItems) /\ There \subseteq There' /\ There' \subseteq Nat
  <2>1. rows \in Seq(NamedItems) /\ Len(rows) \in Nat
    BY <1>0 DEF PassTyped
  <2>2. rows' \in Seq(NamedItems) /\ (Len(rows') = Len(rows) \/ Len(rows') = Len(rows) + 1)
    <3>1. CASE rows' = rows
      BY <2>1, <3>1
    <3>2. CASE named[r] \in NamedItems /\ rows' = Append(rows, named[r])
      BY <2>1, <3>2, AppendProperties
    <3> QED BY <3>1, <3>2
  <2> QED BY <2>1, <2>2 DEF There
<1>3. at \in [Records -> There] /\ at[r] \in There
  BY <1>0 DEF RowsThere
<1>4. at' \in [Records -> There']
  BY <1>2, <1>3
<1>5. linked' \in [NamedItems -> There']
  BY <1>0, <1>2, <1>3 DEF RowsThere
<1>6. map'.of \in [NamedItems -> There'] /\ map'.loaded \in BOOLEAN /\ map' \in [loaded : BOOLEAN, of : [NamedItems -> Nat]]
  <2>1. map \in [loaded : BOOLEAN, of : [NamedItems -> There]] /\ stale[r] \in [NamedItems -> There]
    BY <1>0 DEF RowsThere, PassTyped
  <2>2. map' \in [loaded : BOOLEAN, of : [NamedItems -> There]]
    <3>1. CASE map' = map
      BY <2>1, <3>1
    <3>2. CASE map' = [loaded |-> TRUE, of |-> stale[r]]
      BY <2>1, <3>2
    <3>3. CASE map' = [map EXCEPT !.of[named[r]] = at[r]]
      BY <1>3, <2>1, <3>3
    <3> QED BY <3>1, <3>2, <3>3
  <2> QED BY <1>2, <2>2
<1>7. stale' \in [Records -> [NamedItems -> There']]
  <2>1. stale' \in [Records -> [NamedItems -> There]]
    BY <1>0 DEF RowsThere
  <2> QED BY <1>2, <2>1
<1>8. shared' \in [NamedItems -> There' \cup {I!Busy, I!Failed}]
  BY <1>0, <1>2 DEF RowsThere
<1>9. RowsThere'
  BY <1>4, <1>5, <1>6, <1>7, <1>8 DEF RowsThere
<1>10. PassTyped'
  <2>1. /\ at' \in [Records -> Nat] /\ linked' \in [NamedItems -> Nat] /\ stale' \in [Records -> [NamedItems -> Nat]]
        /\ shared' \in [NamedItems -> Int]
    <3>1. at' \in [Records -> Nat] /\ linked' \in [NamedItems -> Nat]
      BY <1>2, <1>4, <1>5
    <3>2. stale' \in [Records -> [NamedItems -> Nat]]
      BY <1>2, <1>7
    <3>3. There' \cup {I!Busy, I!Failed} \subseteq Int
      BY <1>2 DEF I!Busy, I!Failed
    <3> QED BY <1>8, <3>1, <3>2, <3>3
  <2> QED BY <1>0, <1>1, <1>2, <1>6, <2>1 DEF PassTyped
<1>11. Placed'
  BY <1>0, <1>1 DEF Placed
<1> QED BY <1>1, <1>9, <1>10, <1>11 DEF PassFits

LEMMA InsertsNat ==
  ASSUME NEW r \in Records, own \in [Records -> Nat], I!Inserts(r)
  PROVE  own' \in [Records -> Nat]
<1>1. (IF shape.insert = "insert" \/ own[r] = 0 THEN own[r] + 1 ELSE own[r]) \in Nat
  OBVIOUS
<1> QED BY <1>1 DEF I!Inserts

LEMMA PassedFits ==
  ASSUME PassFits, NEW r \in Records, NEW from \in {"loading", "looking", "finding", "making", "writing", "parts"},
         I!Passed(r, from), rows' = rows \/ (named[r] \in NamedItems /\ rows' = Append(rows, named[r])),
         own' \in [Records -> Nat],
         torn' \in [own : SUBSET Records, named : SUBSET (NamedItems \cup {I!None})]
  PROVE  PassFits'
<1>1. /\ pc[r] = from /\ pc' = [pc EXCEPT ![r] = "failed"]
      /\ \/ shared' = [shared EXCEPT ![named[r]] = I!None]
         \/ shared' = [shared EXCEPT ![named[r]] = I!Failed]
         \/ shared' = shared
      /\ UNCHANGED <<shape, named, linked, map, stale, mapped, at, ended>>
      /\ "failed" \in Places /\ pc[r] \notin I!Over \cup {"waiting"} /\ "failed" \notin {"waiting"} \cup Looks
  BY PassedIs
<1>2. I!None \in There \cup {I!Busy, I!Failed} /\ linked \in [NamedItems -> There] /\ mapped \subseteq Records
  BY DEF PassFits, PassTyped, RowsThere, There, I!None
<1>3. \E x \in There \cup {I!Busy, I!Failed} : shared' = shared \/ shared' = [shared EXCEPT ![named[r]] = x]
  BY <1>1, <1>2
<1> QED BY <1>1, <1>2, <1>3, FitsGoOn

LEMMA FitsAtStep ==
  ASSUME PassFits, NEW r \in Records, I!Step(r)
  PROVE  PassFits'
<1>0. /\ PassTyped /\ Placed /\ RowsThere /\ 0 \in There /\ rows \in Seq(NamedItems)
      /\ I!NotMapped \in [NamedItems -> There] /\ linked \in [NamedItems -> There]
      /\ at[r] \in There /\ own \in [Records -> Nat] /\ mapped \subseteq Records
      /\ torn \in [own : SUBSET Records, named : SUBSET (NamedItems \cup {I!None})]
      /\ named[r] # I!None => named[r] \in NamedItems
  <2>1. PassTyped /\ Placed /\ RowsThere /\ rows \in Seq(NamedItems)
    BY DEF PassFits, PassTyped
  <2>2. Len(rows) \in Nat /\ 0 \in There
    BY <2>1 DEF There
  <2> QED BY <2>1, <2>2 DEF PassTyped, RowsThere, I!NotMapped, I!None
<1>1. ASSUME I!Look(r) PROVE PassFits'
  <2>1. PICK to \in {"writing", "looking", "loading"} :
          /\ pc[r] = "waiting" /\ pc' = [pc EXCEPT ![r] = to] /\ I!InTurn(r)
          /\ to # "writing" => named[r] # I!None
          /\ stale' = stale \/ stale' = [stale EXCEPT ![r] = linked]
          /\ UNCHANGED <<shape, named, linked, map, rows, shared, at, torn, own, mapped, ended>>
    BY <1>1 DEF I!Look, I!Go, I!Naming, I!Same
  <2>2. to \in Places /\ to # "waiting" /\ pc[r] \notin I!Over /\ (to \in Looks => named[r] \in NamedItems)
    BY <1>0, <2>1 DEF Places, Looks, Owns, Served, I!Over
  <2> QED BY <1>0, <2>1, <2>2, FitsGoOn
<1>2. ASSUME I!Loaded(r) PROVE PassFits'
  <2>1. /\ pc[r] = "loading" /\ pc' = [pc EXCEPT ![r] = "looking"] /\ map' = [loaded |-> TRUE, of |-> stale[r]]
        /\ stale' = [stale EXCEPT ![r] = I!NotMapped]
        /\ UNCHANGED <<shape, named, linked, rows, shared, at, torn, own, mapped, ended>>
    BY <1>2 DEF I!Loaded, I!Go, I!Naming, I!Same
  <2>2. "looking" \in Places /\ pc[r] \notin I!Over /\ named[r] \in NamedItems
    BY <1>0, <2>1 DEF Places, Looks, Owns, Served, I!Over, Placed
  <2> QED BY <1>0, <2>1, <2>2, FitsGoOn
<1>3. ASSUME I!Hit(r) \/ I!Join(r) PROVE PassFits'
  <2>1. PICK x :
          /\ pc[r] = "looking" /\ pc' = [pc EXCEPT ![r] = "writing"] /\ at' = [at EXCEPT ![r] = x]
          /\ x = map.of[named[r]] \/ (x = shared[named[r]] /\ shared[named[r]] > I!None)
          /\ UNCHANGED <<shape, named, linked, map, stale, rows, shared, torn, own, mapped, ended>>
    BY <1>3 DEF I!Hit, I!Join, I!Go, I!Took, I!Naming, I!Same
  <2>2. named[r] \in NamedItems /\ "writing" \in Places /\ pc[r] \notin I!Over /\ "writing" \notin Looks
    BY <1>0, <2>1 DEF Places, Looks, Owns, Served, I!Over, Placed
  <2>3. x \in There
    <3>1. map.of[named[r]] \in There /\ shared[named[r]] \in There \cup {I!Busy, I!Failed}
      BY <1>0, <2>2 DEF RowsThere
    <3> QED BY <2>1, <3>1 DEF I!Busy, I!Failed, I!None
  <2>4. There' = There
    BY <2>1 DEF There
  <2> QED BY <1>0, <2>1, <2>2, <2>3, <2>4, FitsGoOn
<1>4. ASSUME I!Attempt(r) PROVE PassFits'
  <2>1. PICK to \in {"finding", "making"} :
          /\ pc[r] = "looking" /\ pc' = [pc EXCEPT ![r] = to]
          /\ shared' = shared \/ shared' = [shared EXCEPT ![named[r]] = I!Busy]
          /\ UNCHANGED <<shape, named, linked, map, stale, rows, at, torn, own, mapped, ended>>
    BY <1>4 DEF I!Attempt, I!Go, I!Naming, I!Same
  <2>2. to \in Places /\ to # "waiting" /\ pc[r] \notin I!Over /\ named[r] \in NamedItems
    BY <1>0, <2>1 DEF Places, Looks, Owns, Served, I!Over, Placed
  <2> QED BY <1>0, <2>1, <2>2, FitsGoOn
<1>5. ASSUME I!Find(r) PROVE PassFits'
  <2>1. PICK to \in {"making", "keeping"} :
          /\ pc[r] = "finding" /\ pc' = [pc EXCEPT ![r] = to]
          /\ at' = at \/ \E x \in DOMAIN rows : at' = [at EXCEPT ![r] = x]
          /\ UNCHANGED <<shape, named, linked, map, stale, rows, shared, torn, own, mapped, ended>>
    BY <1>5 DEF I!Find, I!Go, I!Took, I!SameName, I!Naming, I!Same
  <2>2. to \in Places /\ to # "waiting" /\ pc[r] \notin I!Over /\ named[r] \in NamedItems
    BY <1>0, <2>1 DEF Places, Looks, Owns, Served, I!Over, Placed
  <2>3. There' = There /\ DOMAIN rows \subseteq There
    BY <1>0, <2>1 DEF There
  <2> QED BY <1>0, <2>1, <2>2, <2>3, FitsGoOn
<1>6. ASSUME I!Make(r) PROVE PassFits'
  <2>1. /\ pc[r] = "making" /\ pc' = [pc EXCEPT ![r] = "keeping"]
        /\ \/ rows' = rows /\ \E x \in DOMAIN rows : at' = [at EXCEPT ![r] = x]
           \/ rows' = Append(rows, named[r]) /\ at' = [at EXCEPT ![r] = Len(rows) + 1]
        /\ UNCHANGED <<shape, named, linked, map, stale, shared, torn, own, mapped, ended>>
    BY <1>6 DEF I!Make, I!Go, I!Took, I!SameName, I!Naming, I!Same
  <2>2. "keeping" \in Places /\ pc[r] \notin I!Over /\ named[r] \in NamedItems
    BY <1>0, <2>1 DEF Places, Looks, Owns, Served, I!Over, Placed
  <2>3. \E x \in There' : at' = [at EXCEPT ![r] = x]
    <3>1. CASE rows' = rows /\ \E x \in DOMAIN rows : at' = [at EXCEPT ![r] = x]
      <4>1. DOMAIN rows \subseteq There'
        BY <1>0, <3>1 DEF There
      <4> QED BY <3>1, <4>1
    <3>2. CASE rows' = Append(rows, named[r]) /\ at' = [at EXCEPT ![r] = Len(rows) + 1]
      <4>1. Len(rows') = Len(rows) + 1 /\ Len(rows) \in Nat
        BY <1>0, <2>2, <3>2, AppendProperties
      <4>2. Len(rows) + 1 \in There'
        BY <4>1 DEF There
      <4> QED BY <3>2, <4>2
    <3> QED BY <2>1, <3>1, <3>2
  <2> QED BY <1>0, <2>1, <2>2, <2>3, FitsGoOn
<1>7. ASSUME I!Keep(r) \/ I!Kept(r) PROVE PassFits'
  <2>1. PICK to \in {"kept", "writing"} :
          /\ pc[r] \in {"keeping", "kept"} /\ pc' = [pc EXCEPT ![r] = to]
          /\ map' = map \/ map' = [map EXCEPT !.of[named[r]] = at[r]]
          /\ linked' = linked \/ linked' = [linked EXCEPT ![named[r]] = at[r]]
          /\ shared' = shared \/ shared' = [shared EXCEPT ![named[r]] = at[r]]
          /\ UNCHANGED <<shape, named, stale, rows, at, torn, own, mapped, ended>>
    BY <1>7 DEF I!Keep, I!Kept, I!Go, I!Naming, I!Same
  <2>2. to \in Places /\ to # "waiting" /\ pc[r] \notin I!Over /\ named[r] \in NamedItems
    BY <1>0, <2>1 DEF Places, Looks, Owns, Served, I!Over, Placed
  <2> QED BY <1>0, <2>1, <2>2, FitsGoOn
<1>8. ASSUME I!Update(r) \/ I!Insert(r) \/ I!MapOwn(r) \/ I!Wrote(r) PROVE PassFits'
  <2>1. PICK to \in {"parts", "unmapped", "done"} :
          /\ pc[r] \in {"writing", "unmapped", "parts"} /\ pc' = [pc EXCEPT ![r] = to]
          /\ own' = own \/ I!Inserts(r)
          /\ mapped' \in {mapped, mapped \cup {r}}
          /\ UNCHANGED <<shape, named, linked, map, stale, rows, shared, torn, at, ended>>
    BY <1>8 DEF I!Update, I!Insert, I!MapOwn, I!Wrote, I!Go, I!Rest
  <2>2. to \in Places /\ to # "waiting" /\ pc[r] \notin I!Over /\ to \notin Looks /\ pc[r] # "waiting"
    BY <2>1 DEF Places, Looks, Owns, Served, I!Over
  <2>3. own' \in [Records -> Nat] /\ mapped' \subseteq Records
    BY <1>0, <2>1, InsertsNat
  <2> QED BY <1>0, <2>1, <2>2, <2>3, FitsGoOn
<1>9. ASSUME I!Refuse(r) \/ I!JoinFailed(r) PROVE PassFits'
  <2>1. PICK from \in {"writing", "looking"} : I!Passed(r, from) /\ UNCHANGED <<rows, own, torn>>
    BY <1>9 DEF I!Refuse, I!JoinFailed, I!Fails
  <2> QED BY <1>0, <2>1, PassedFits
<1> QED BY <1>1, <1>2, <1>3, <1>4, <1>5, <1>6, <1>7, <1>8, <1>9 DEF I!Step

LEMMA FitsStay ==
  ASSUME PassFits, [I!Next]_(I!vars)
  PROVE  PassFits'
<1>0. /\ PassTyped /\ TurnsKept /\ Placed /\ RowsThere /\ rows \in Seq(NamedItems)
      /\ own \in [Records -> Nat] /\ mapped \subseteq Records
      /\ torn \in [own : SUBSET Records, named : SUBSET (NamedItems \cup {I!None})]
  BY DEF PassFits, PassTyped
<1>1. ASSUME NEW r \in Records, I!KeptNowhere(r) PROVE PassFits'
  <2>1. /\ pc[r] = "kept" /\ pc' = [pc EXCEPT ![r] = "writing"]
        /\ torn' = [torn EXCEPT !.named = @ \cup {named[r]}]
        /\ shared' = shared \/ shared' = [shared EXCEPT ![named[r]] = at[r]]
        /\ UNCHANGED <<shape, named, linked, map, stale, rows, at, own, mapped, ended>>
    BY <1>1 DEF I!KeptNowhere, I!Go, I!Same
  <2>2. named[r] \in NamedItems /\ at[r] \in There /\ linked \in [NamedItems -> There]
    BY <1>0, <2>1 DEF Placed, Looks, Owns, RowsThere
  <2>3. "writing" \in Places /\ "writing" \notin Looks /\ pc[r] \notin I!Over
    BY <2>1 DEF Places, Looks, Owns, Served, I!Over
  <2>4. torn' \in [own : SUBSET Records, named : SUBSET (NamedItems \cup {I!None})]
    BY <1>0, <2>1, <2>2
  <2> QED BY <1>0, <2>1, <2>2, <2>3, <2>4, FitsGoOn
<1>2. ASSUME NEW r \in Records, I!OwnKeptNowhere(r) PROVE PassFits'
  <2>1. /\ pc[r] = "unmapped" /\ pc' = [pc EXCEPT ![r] = "parts"]
        /\ torn' = [torn EXCEPT !.own = @ \cup {r}]
        /\ UNCHANGED <<shape, named, linked, map, stale, rows, shared, at, own, mapped, ended>>
    BY <1>2 DEF I!OwnKeptNowhere, I!Go, I!Same
  <2>2. "parts" \in Places /\ "parts" \notin Looks /\ pc[r] \notin I!Over /\ linked \in [NamedItems -> There]
    BY <1>0, <2>1 DEF Places, Looks, Owns, Served, I!Over, RowsThere
  <2>3. torn' \in [own : SUBSET Records, named : SUBSET (NamedItems \cup {I!None})]
    BY <1>0, <2>1
  <2> QED BY <1>0, <2>1, <2>2, <2>3, FitsGoOn
<1>3. ASSUME NEW r \in Records, I!MadeUnheard(r) PROVE PassFits'
  <2>1. /\ I!Passed(r, "making") /\ own' = own /\ rows' = Append(rows, named[r])
        /\ torn' = [torn EXCEPT !.named = @ \cup {named[r]}]
    BY <1>3 DEF I!MadeUnheard
  <2>2. named[r] \in NamedItems
    BY <1>0, <2>1 DEF I!Passed, I!Go, Placed, Looks, Owns
  <2>3. torn' \in [own : SUBSET Records, named : SUBSET (NamedItems \cup {I!None})]
    BY <1>0, <2>1, <2>2
  <2> QED BY <1>0, <2>1, <2>2, <2>3, PassedFits
<1>4. ASSUME NEW r \in Records, I!InsertUnheard(r) PROVE PassFits'
  <2>1. I!Passed(r, "writing") /\ rows' = rows /\ I!Inserts(r) /\ torn' = [torn EXCEPT !.own = @ \cup {r}]
    BY <1>4 DEF I!InsertUnheard
  <2>2. torn' \in [own : SUBSET Records, named : SUBSET (NamedItems \cup {I!None})]
    BY <1>0, <2>1
  <2> QED BY <1>0, <2>1, <2>2, InsertsNat, PassedFits
<1>5. ASSUME NEW r \in Records, I!CallFails(r) PROVE PassFits'
  BY <1>0, <1>5, PassedFits DEF I!CallFails, I!Fails
<1>6. CASE I!RunAgain \/ I!Stop
  <2>1. PICK cut \in [own : SUBSET Records, named : SUBSET (NamedItems \cup {I!None})] : I!Again(cut)
    BY <1>0, <1>6, RunsAgain, StopsAndRuns
  <2>2. /\ map' = [loaded |-> shape.held, of |-> IF shape.held THEN linked ELSE I!NotMapped]
        /\ shared' = I!NotMapped /\ stale' = [r \in Records |-> I!NotMapped]
        /\ at' = [r \in Records |-> I!None] /\ ended' = FALSE
        /\ pc' = [r \in Records |-> "waiting"]
        /\ torn' = [own |-> torn.own \cup cut.own, named |-> torn.named \cup cut.named]
        /\ UNCHANGED <<shape, named, linked, rows, own, mapped>>
    BY <2>1 DEF I!Again
  <2>3. There' = There /\ There \subseteq Nat /\ I!None \in There
    BY <1>0, <2>2 DEF There, I!None
  <2>4. /\ I!NotMapped \in [NamedItems -> There] /\ I!NotMapped \in [NamedItems -> There \cup {I!Busy, I!Failed}]
        /\ I!NotMapped \in [NamedItems -> Int] /\ I!NotMapped \in [NamedItems -> Nat]
    BY <2>3 DEF I!NotMapped, I!None
  <2>5. RowsThere'
    <3>1. map'.of \in [NamedItems -> There]
      BY <1>0, <2>2, <2>4 DEF RowsThere
    <3> QED BY <1>0, <2>2, <2>3, <2>4, <3>1 DEF RowsThere
  <2>6. PassTyped'
    <3>1. map' \in [loaded : BOOLEAN, of : [NamedItems -> Nat]]
      BY <1>0, <2>2, <2>4 DEF PassTyped
    <3>2. torn' \in [own : SUBSET Records, named : SUBSET (NamedItems \cup {I!None})]
      BY <1>0, <2>2
    <3>3. pc' \in [Records -> Places] /\ at' \in [Records -> Nat] /\ stale' \in [Records -> [NamedItems -> Nat]]
      BY <2>2, <2>4 DEF Places, I!None
    <3> QED BY <1>0, <2>2, <2>4, <3>1, <3>2, <3>3 DEF PassTyped
  <2>7. TurnsKept' /\ Placed'
    BY <2>2 DEF TurnsKept, Placed, Looks, Owns
  <2> QED BY <2>5, <2>6, <2>7 DEF PassFits
<1>7. CASE I!End
  <2>1. /\ UNCHANGED <<shape, named, linked, map, stale, rows, shared, own, mapped, torn, pc, at>>
        /\ \A r \in Records : pc[r] \in I!Over
    BY <1>7 DEF I!End
  <2> QED BY <1>0, <2>1 DEF PassFits, PassTyped, TurnsKept, I!Chunk, Placed, RowsThere, There
<1>8. CASE UNCHANGED I!vars
  BY <1>0, <1>8 DEF I!vars, PassFits, PassTyped, TurnsKept, I!Chunk, Placed, RowsThere, There
<1> QED BY <1>1, <1>2, <1>3, <1>4, <1>5, <1>6, <1>7, <1>8, FitsAtStep DEF I!Next, I!Work, I!Trouble

(* A step that is not about a record's own row leaves it alone. *)
LEMMA OwnKept ==
  ASSUME PassTyped, RowOfOwn, NEW r \in Records, NEW from, NEW to, I!Go(r, from, to), from # "unmapped",
         to \in {"unmapped", "parts", "done"} => from = "parts" /\ to = "done",
         torn'.own = torn.own, UNCHANGED <<shape, own, mapped>>
  PROVE  RowOfOwn'
<1>1. pc \in [Records -> Places] /\ pc[r] = from /\ pc' = [pc EXCEPT ![r] = to]
  BY DEF PassTyped, I!Go
<1>2. pc'[r] = to /\ \A q \in Records : q # r => pc'[q] = pc[q]
  BY <1>1
<1>3. \A q \in Records : /\ pc'[q] = "unmapped" <=> pc[q] = "unmapped"
                         /\ pc'[q] \in {"parts", "done"} => pc[q] \in {"parts", "done"}
  BY <1>1, <1>2
<1> QED BY <1>3 DEF RowOfOwn

(* A row of its own is inserted: heard of, or not. *)
LEMMA OwnInserted ==
  ASSUME PassTyped, RowOfOwn, NEW r \in Records, pc[r] = "writing", r \notin mapped, I!Inserts(r),
         UNCHANGED <<shape, mapped>>, torn.own \subseteq torn'.own,
         \/ pc' = [pc EXCEPT ![r] = "unmapped"]
         \/ pc' = [pc EXCEPT ![r] = "failed"] /\ r \in torn'.own
  PROVE  RowOfOwn'
<1>1. /\ pc'[r] = "unmapped" \/ (pc'[r] = "failed" /\ r \in torn'.own)
      /\ (\A q \in Records : q # r => pc'[q] = pc[q] /\ own'[q] = own[q]) /\ own[r] \in Nat
      /\ own'[r] = IF shape.insert = "insert" \/ own[r] = 0 THEN own[r] + 1 ELSE own[r]
  BY DEF PassTyped, I!Inserts
<1>2. own'[r] > 0 /\ (own'[r] > 1 => own[r] > 0) /\ (own'[r] > 1 => shape.insert = "insert" \/ own[r] > 1)
  BY <1>1
<1>3. own[r] > 0 => r \in torn'.own
  BY DEF RowOfOwn
<1>4. own'[r] > 1 => shape.insert = "insert" /\ r \in torn'.own
  BY <1>2, <1>3 DEF RowOfOwn
<1>5. ASSUME NEW q \in Records, q # r
      PROVE  /\ own'[q] > 0 => q \in mapped' \/ pc'[q] = "unmapped" \/ q \in torn'.own
             /\ own'[q] > 1 => shape'.insert = "insert" /\ q \in torn'.own
             /\ q \in mapped' \/ pc'[q] \in {"unmapped", "parts", "done"} => own'[q] > 0
             /\ pc'[q] \in {"parts", "done"} => q \in mapped' \/ q \in torn'.own
  BY <1>1, <1>5 DEF RowOfOwn
<1> QED BY <1>1, <1>2, <1>4, <1>5 DEF RowOfOwn

LEMMA OwnStays ==
  ASSUME PassTyped, RowOfOwn, TurnsKept, [I!Next]_(I!vars)
  PROVE  RowOfOwn'
<1> USE DEF I!Naming, I!Same, I!Rest
<1>1. ASSUME NEW r \in Records, I!Step(r) PROVE RowOfOwn'
  <2>1. CASE I!Look(r)
    BY <2>1, OwnKept DEF I!Look
  <2>2. CASE I!Loaded(r) \/ I!Hit(r) \/ I!Join(r)
    BY <2>2, OwnKept DEF I!Loaded, I!Hit, I!Join
  <2>3. CASE I!Attempt(r)
    BY <2>3, OwnKept DEF I!Attempt
  <2>4. CASE I!Find(r) \/ I!Make(r)
    BY <2>4, OwnKept DEF I!Find, I!Make
  <2>5. CASE I!Keep(r) \/ I!Kept(r) \/ I!Wrote(r)
    BY <2>5, OwnKept DEF I!Keep, I!Kept, I!Wrote
  <2>6. CASE I!Refuse(r) \/ I!JoinFailed(r)
    BY <2>6, OwnKept DEF I!Refuse, I!JoinFailed, I!Fails, I!Passed
  <2>7. CASE I!Update(r) \/ I!MapOwn(r)
    <3>1. PICK from \in {"writing", "unmapped"} : pc[r] = from /\ pc' = [pc EXCEPT ![r] = "parts"]
      BY <2>7 DEF I!Update, I!MapOwn, I!Go
    <3>2. pc'[r] = "parts" /\ \A q \in Records : q # r => pc'[q] = pc[q]
      BY <3>1 DEF PassTyped
    <3>3. own' = own /\ shape' = shape /\ torn' = torn /\ (from = "writing" => r \in mapped) /\ mapped' = mapped \cup {r}
      BY <2>7, <3>1 DEF I!Update, I!MapOwn, I!Go
    <3> QED BY <3>1, <3>2, <3>3 DEF RowOfOwn
  <2>8. CASE I!Insert(r)
    BY <2>8, OwnInserted DEF I!Insert, I!Go
  <2> QED BY <1>1, <2>1, <2>2, <2>3, <2>4, <2>5, <2>6, <2>7, <2>8 DEF I!Step
<1>2. ASSUME NEW r \in Records, I!CallFails(r) \/ I!KeptNowhere(r) \/ I!MadeUnheard(r) PROVE RowOfOwn'
  <2>1. CASE I!CallFails(r)
    BY <2>1, OwnKept DEF I!CallFails, I!Fails, I!Passed
  <2>2. CASE I!KeptNowhere(r)
    <3>1. torn'.own = torn.own
      BY <2>2 DEF I!KeptNowhere, PassTyped
    <3> QED BY <2>2, <3>1, OwnKept DEF I!KeptNowhere
  <2>3. CASE I!MadeUnheard(r)
    <3>1. torn'.own = torn.own
      BY <2>3 DEF I!MadeUnheard, PassTyped
    <3> QED BY <2>3, <3>1, OwnKept DEF I!MadeUnheard, I!Passed
  <2> QED BY <1>2, <2>1, <2>2, <2>3
<1>3. ASSUME NEW cut \in [own : SUBSET Records, named : SUBSET (NamedItems \cup {I!None})], I!Again(cut),
             \A r \in Records : pc[r] = "unmapped" => r \in cut.own
      PROVE  RowOfOwn'
  <2>1. \A r \in Records : pc'[r] = "waiting"
    BY <1>3 DEF I!Again
  <2>2. shape' = shape /\ own' = own /\ mapped' = mapped
    BY <1>3 DEF I!Again
  <2>3. torn'.own = torn.own \cup cut.own
    BY <1>3 DEF I!Again
  <2>4. \A r \in Records : r \in torn.own \/ pc[r] = "unmapped" => r \in torn'.own
    BY <1>3, <2>3
  <2> QED BY <2>1, <2>2, <2>4 DEF RowOfOwn
<1>4. CASE I!RunAgain
  BY <1>3, <1>4, RunsAgain
<1>5. CASE I!Stop
  BY <1>3, <1>5, StopsAndRuns
<1>6. CASE I!End \/ UNCHANGED I!vars
  BY <1>6 DEF I!End, I!vars, RowOfOwn
<1>7. ASSUME NEW r \in Records, I!OwnKeptNowhere(r) PROVE RowOfOwn'
  <2>1. /\ pc[r] = "unmapped" /\ pc' = [pc EXCEPT ![r] = "parts"] /\ torn' = [torn EXCEPT !.own = @ \cup {r}]
        /\ UNCHANGED <<shape, own, mapped>>
    BY <1>7 DEF I!OwnKeptNowhere, I!Go
  <2>2. pc'[r] = "parts" /\ (\A q \in Records : q # r => pc'[q] = pc[q]) /\ torn'.own = torn.own \cup {r}
    BY <2>1 DEF PassTyped
  <2> QED BY <2>1, <2>2 DEF RowOfOwn
<1>8. ASSUME NEW r \in Records, I!InsertUnheard(r) PROVE RowOfOwn'
  <2>1. /\ pc[r] = "writing" /\ pc' = [pc EXCEPT ![r] = "failed"] /\ torn' = [torn EXCEPT !.own = @ \cup {r}]
        /\ r \notin mapped /\ I!Inserts(r) /\ UNCHANGED <<shape, mapped>>
    BY <1>8 DEF I!InsertUnheard, I!Passed, I!Go
  <2>2. torn'.own = torn.own \cup {r}
    BY <2>1 DEF PassTyped
  <2> QED BY <2>1, <2>2, OwnInserted
<1> QED BY <1>1, <1>2, <1>4, <1>5, <1>6, <1>7, <1>8 DEF I!Next, I!Work, I!Trouble

LEMMA SharedStays ==
  ASSUME Records \subseteq Nat, PassFits, PassFits', Shared, [I!Next]_(I!vars)
  PROVE  Shared'
<1>0. PassTyped /\ PassTyped' /\ TurnsKept /\ Placed
  BY DEF PassFits
<1>1. ASSUME NEW r \in Records, I!Step(r) PROVE Shared'
  <2>1. CASE I!Look(r) \/ I!Loaded(r) \/ I!Hit(r) \/ I!Join(r) \/ I!Attempt(r)
    BY <1>0, <2>1, LookStays, LoadedStays, ToldStays, AttemptStays
  <2>2. CASE I!Find(r) \/ I!Make(r) \/ I!Keep(r) \/ I!Kept(r)
    BY <1>0, <2>2, FindStays, MakeStays, KeepStays, KeptStays
  <2>3. CASE I!Update(r) \/ I!Insert(r) \/ I!MapOwn(r) \/ I!Wrote(r)
    BY <1>0, <2>3, WritesStay
  <2>4. CASE I!Refuse(r) \/ I!JoinFailed(r)
    BY <1>0, <2>4, FailsStay DEF I!Refuse, I!JoinFailed
  <2> QED BY <1>1, <2>1, <2>2, <2>3, <2>4 DEF I!Step
<1>2. ASSUME NEW r \in Records, I!Trouble(r) PROVE Shared'
  <2>1. CASE I!CallFails(r) \/ I!InsertUnheard(r)
    BY <1>0, <2>1, FailsStay DEF I!CallFails
  <2>2. CASE I!KeptNowhere(r) \/ I!OwnKeptNowhere(r) \/ I!MadeUnheard(r)
    BY <1>0, <2>2, KeptNowhereStays, WritesStay, MadeUnheardStays
  <2> QED BY <1>2, <2>1, <2>2 DEF I!Trouble
<1>3. CASE I!RunAgain \/ I!Stop
  <2>1. PICK cut \in [own : SUBSET Records, named : SUBSET (NamedItems \cup {I!None})] :
          I!Again(cut) /\ \A r \in Records : pc[r] \in {"keeping", "kept"} => named[r] \in cut.named
    BY <1>0, <1>3, RunsAgain, StopsAndRuns
  <2> QED BY <1>0, <2>1, AgainStays
<1>4. CASE I!End \/ UNCHANGED I!vars
  <2>1. UNCHANGED <<shape, named, linked, map, stale, rows, shared, own, mapped, torn, pc, at>>
    BY <1>4 DEF I!End, I!vars
  <2> QED BY <2>1 DEF Shared, Ready, Sole, Knows, Agrees, Stands, Remembered, RowsMade, HasRow, Twins, Torn
<1> QED BY <1>1, <1>2, <1>3, <1>4 DEF I!Next, I!Work

LEMMA ShapeStays ==
  ASSUME [I!Next]_(I!vars)
  PROVE  shape' = shape
<1> USE DEF I!Naming, I!Same, I!Rest
<1>1. ASSUME NEW r \in Records, I!Step(r) PROVE shape' = shape
  BY <1>1 DEF I!Step, I!Look, I!Loaded, I!Hit, I!Join, I!Attempt, I!Find, I!Make, I!Keep, I!Kept, I!Update, I!Insert,
              I!MapOwn, I!Wrote, I!Refuse, I!JoinFailed, I!Fails, I!Passed
<1>2. ASSUME NEW r \in Records, I!Trouble(r) PROVE shape' = shape
  BY <1>2 DEF I!Trouble, I!KeptNowhere, I!OwnKeptNowhere, I!MadeUnheard, I!InsertUnheard, I!CallFails, I!Fails, I!Passed
<1>3. CASE I!RunAgain \/ I!Stop \/ I!End \/ UNCHANGED I!vars
  BY <1>3 DEF I!RunAgain, I!Stop, I!Again, I!End, I!vars
<1> QED BY <1>1, <1>2, <1>3 DEF I!Next, I!Work

LEMMA PassBegins ==
  ASSUME I!Init
  PROVE  PassInv
<1>1. /\ shape.by \in Ways /\ (shape.wide /\ ~shape.lone => shape.once) /\ shape.held \in BOOLEAN
  BY ShapesFit DEF I!Init
<1>2. /\ \A r \in Records : pc[r] = "waiting" /\ at[r] = I!None /\ stale[r] = I!NotMapped
                            /\ own[r] = IF r \in mapped THEN 1 ELSE 0
      /\ pc \in [Records -> Places] /\ at \in [Records -> Nat] /\ own \in [Records -> Nat]
      /\ mapped \subseteq Records
  BY DEF I!Init, Places, I!None
<1>3. /\ I!NotMapped \in [NamedItems -> Nat] /\ I!NotMapped \in [NamedItems -> Int] /\ \A u \in NamedItems : I!NotMapped[u] = I!None
  BY DEF I!NotMapped, I!None
<1>4. PassTyped
  BY <1>1, <1>2, <1>3 DEF I!Init, PassTyped, Ways
<1>5. TurnsKept /\ Placed /\ Sole
  BY <1>2 DEF I!Init, TurnsKept, Placed, Looks, Sole, Owns
<1>6. RowsThere
  <2>1. I!None \in There
    BY DEF I!Init, There, I!None
  <2>2. I!NotMapped \in [NamedItems -> There] /\ I!NotMapped \in [NamedItems -> There \cup {I!Busy, I!Failed}]
    BY <2>1 DEF I!NotMapped
  <2> QED BY <2>1, <2>2 DEF I!Init, RowsThere
<1>7. ~shape.lone => Ready
  BY <1>1, <1>2, <1>3 DEF I!Init, Ready, Owns
<1>8. Knows /\ Agrees
  BY <1>2, <1>3 DEF I!Init, Knows, Agrees, Served, I!None
<1>9. RowsMade
  BY <1>2 DEF I!Init, RowsMade, HasRow, Twins
<1>10. RowOfOwn
  BY <1>2 DEF RowOfOwn
<1> QED BY <1>4, <1>5, <1>6, <1>7, <1>8, <1>9, <1>10 DEF PassInv, PassFits, Shared

LEMMA PassKeeps ==
  ASSUME Records \subseteq Nat, PassInv, [I!Next]_(I!vars)
  PROVE  PassInv'
<1>1. PassFits'
  BY FitsStay DEF PassInv
<1>2. RowOfOwn'
  BY OwnStays DEF PassInv, PassFits
<1>3. ~shape'.lone => Shared'
  BY <1>1, SharedStays, ShapeStays DEF PassInv
<1> QED BY <1>1, <1>2, <1>3 DEF PassInv

(* Counting means the same there as here. *)
LEMMA CountIs == \A some : I!Cardinality(some) = Cardinality(some)
  BY DEF I!Cardinality, Cardinality

(* Two rows of one uid are twins. *)
LEMMA CopiesAre ==
  ASSUME PassTyped, NEW u, ~Twins(u)
  PROVE  ~(I!Copies(u) > 1)
<1> DEFINE all == {x \in DOMAIN rows : rows[x] = u}
<1>0. I!Copies(u) = Cardinality(all)
  BY CountIs DEF I!Copies
<1>1. CASE all = {}
  BY <1>0, <1>1, FS_EmptySet
<1>2. CASE all # {}
  <2>1. PICK x \in all : TRUE
    BY <1>2
  <2>2. all = {x}
    BY <2>1 DEF Twins
  <2>3. Cardinality(all) = 1
    BY <2>2, FS_Singleton
  <2> QED BY <1>0, <2>3
<1> QED BY <1>1, <1>2

(* What holds of a pass gives no second row, and what it has counted as written is linked. *)
LEMMA PassStands ==
  ASSUME PassInv
  PROVE  I!NoTwin /\ I!WrittenIsLinked
<1>0. PassTyped /\ TurnsKept /\ RowOfOwn
  BY DEF PassInv, PassFits
<1>1. I!NoTwin
  <2>1. ASSUME ~shape.lone, NEW u \in NamedItems, I!Copies(u) > 1 PROVE Torn(u)
    BY <1>0, <2>1, CopiesAre DEF PassInv, Shared, RowsMade
  <2>2. ~shape.lone /\ shape.by = "adopt" => Len(rows) <= 1
    BY DEF PassInv, Shared, RowsMade
  <2> QED BY <1>0, <2>1, <2>2 DEF I!NoTwin, RowOfOwn, Torn
<1>2. I!WrittenIsLinked
  <2> SUFFICES ASSUME ended, NEW r \in Records, pc[r] = "done"
               PROVE  /\ own[r] >= 1 /\ (r \in mapped \/ r \in torn.own)
                      /\ named[r] # I!None /\ ~shape.lone =>
                           /\ at[r] # I!None
                           /\ at[r] = linked[named[r]] \/ (linked[named[r]] = I!None /\ named[r] \in torn.named)
    BY DEF I!WrittenIsLinked
  <2>1. \A q \in Records : pc[q] # "kept"
    BY <1>0 DEF TurnsKept, I!Over
  <2>2. own[r] >= 1 /\ (r \in mapped \/ r \in torn.own)
    BY <1>0 DEF RowOfOwn, PassTyped
  <2>3. ASSUME named[r] # I!None, ~shape.lone
        PROVE  at[r] # I!None /\ (at[r] = linked[named[r]] \/ (linked[named[r]] = I!None /\ named[r] \in torn.named))
    BY <2>1, <2>3 DEF PassInv, Shared, Agrees, Stands, Served
  <2> QED BY <2>2, <2>3
<1> QED BY <1>1, <1>2

(* Each record that is over has been counted. *)
AreOver == {r \in Records : pc[r] \in I!Over}
CountFits ==
  /\ shape \in I!Shapes /\ count \in [upserted : Nat, failed : Nat]
  /\ count.upserted + count.failed = Cardinality(AreOver)
ImportInv == PassInv /\ CountFits

LEMMA ImportBegins ==
  ASSUME I!Init
  PROVE  ImportInv
<1>1. shape \in I!Shapes /\ count = [upserted |-> 0, failed |-> 0] /\ pc = [r \in Records |-> "waiting"]
  BY DEF I!Init, I!Counted
<1>2. AreOver = {}
  BY <1>1 DEF AreOver, I!Over
<1> QED BY <1>1, <1>2, FS_EmptySet, PassBegins DEF ImportInv, CountFits

(* A record goes on, or is over, and is counted once. *)
LEMMA CountGoesOn ==
  ASSUME IsFiniteSet(Records), PassTyped, CountFits, shape' = shape, NEW r \in Records, pc[r] \notin I!Over,
         NEW to \in Places, pc' = [pc EXCEPT ![r] = to],
         IF to \in I!Over THEN \/ count' = [count EXCEPT !.upserted = @ + 1]
                               \/ count' = [count EXCEPT !.failed = @ + 1]
         ELSE count' = count
  PROVE  CountFits'
<1>0. pc'[r] = to /\ \A q \in Records : q # r => pc'[q] = pc[q]
  BY DEF PassTyped
<1>1. IsFiniteSet(AreOver) /\ Cardinality(AreOver) \in Nat
  <2>1. AreOver \in SUBSET Records
    BY DEF AreOver
  <2>2. IsFiniteSet(AreOver)
    BY <2>1, FS_Subset
  <2> QED BY <2>2, FS_CardinalityType
<1>2. CASE to \notin I!Over
  <2>1. AreOver' = AreOver
    BY <1>0, <1>2 DEF AreOver
  <2> QED BY <1>2, <2>1 DEF CountFits
<1>3. CASE to \in I!Over
  <2>1. AreOver' = AreOver \cup {r} /\ r \notin AreOver
    BY <1>0, <1>3 DEF AreOver
  <2>2. Cardinality(AreOver') = Cardinality(AreOver) + 1
    BY <1>1, <2>1, FS_AddElement
  <2>3. count'.upserted \in Nat /\ count'.failed \in Nat /\ count' \in [upserted : Nat, failed : Nat]
        /\ count'.upserted + count'.failed = count.upserted + count.failed + 1
    BY <1>3 DEF CountFits
  <2> QED BY <2>2, <2>3 DEF CountFits
<1> QED BY <1>2, <1>3

LEMMA CountStays ==
  ASSUME IsFiniteSet(Records), PassInv, CountFits, [I!Next]_(I!vars)
  PROVE  CountFits'
<1>0. PassTyped
  BY DEF PassInv, PassFits
<1>1. ASSUME NEW r \in Records, I!Step(r) \/ I!Trouble(r)
      PROVE  /\ shape' = shape /\ pc[r] \notin I!Over
             /\ \E to \in Places :
                  /\ pc' = [pc EXCEPT ![r] = to]
                  /\ IF to \in I!Over THEN \/ count' = [count EXCEPT !.upserted = @ + 1]
                                           \/ count' = [count EXCEPT !.failed = @ + 1]
                     ELSE count' = count
  <2>1. CASE I!Look(r) \/ I!Loaded(r) \/ I!Hit(r) \/ I!Join(r) \/ I!Attempt(r)
    <3>1. /\ shape' = shape /\ count' = count /\ pc[r] \in {"waiting", "loading", "looking"}
          /\ \E to \in {"writing", "looking", "loading", "finding", "making"} : pc' = [pc EXCEPT ![r] = to]
      BY <2>1 DEF I!Look, I!Loaded, I!Hit, I!Join, I!Attempt, I!Go, I!Naming, I!Same
    <3> QED BY <3>1 DEF Places, Owns, Served, I!Over
  <2>2. CASE I!Find(r) \/ I!Make(r) \/ I!Keep(r) \/ I!Kept(r)
    <3>1. /\ shape' = shape /\ count' = count /\ pc[r] \in {"finding", "making", "keeping", "kept"}
          /\ \E to \in {"making", "keeping", "kept", "writing"} : pc' = [pc EXCEPT ![r] = to]
      BY <2>2 DEF I!Find, I!Make, I!Keep, I!Kept, I!Go, I!Naming, I!Same
    <3> QED BY <3>1 DEF Places, Owns, Served, I!Over
  <2>3. CASE I!Update(r) \/ I!Insert(r) \/ I!MapOwn(r)
    <3>1. /\ shape' = shape /\ count' = count /\ pc[r] \in {"writing", "unmapped"}
          /\ \E to \in {"parts", "unmapped"} : pc' = [pc EXCEPT ![r] = to]
      BY <2>3 DEF I!Update, I!Insert, I!MapOwn, I!Go, I!Rest
    <3> QED BY <3>1 DEF Places, Owns, Served, I!Over
  <2>4. CASE I!Wrote(r)
    <3>1. /\ shape' = shape /\ pc[r] = "parts" /\ pc' = [pc EXCEPT ![r] = "done"]
          /\ count' = [count EXCEPT !.upserted = @ + 1]
      BY <2>4 DEF I!Wrote, I!Go, I!Rest
    <3> QED BY <3>1 DEF Places, Owns, Served, I!Over
  <2>5. CASE I!Refuse(r) \/ I!JoinFailed(r) \/ I!CallFails(r) \/ I!MadeUnheard(r) \/ I!InsertUnheard(r)
    <3>1. /\ shape' = shape /\ pc[r] \in {"writing", "looking", "loading", "finding", "making", "parts"}
          /\ pc' = [pc EXCEPT ![r] = "failed"] /\ count' = [count EXCEPT !.failed = @ + 1]
      BY <2>5 DEF I!Refuse, I!JoinFailed, I!CallFails, I!MadeUnheard, I!InsertUnheard, I!Fails, I!Passed, I!Go, I!Same
    <3> QED BY <3>1 DEF Places, Owns, Served, I!Over
  <2>6. CASE I!KeptNowhere(r) \/ I!OwnKeptNowhere(r)
    <3>1. /\ shape' = shape /\ count' = count /\ pc[r] \in {"kept", "unmapped"}
          /\ \E to \in {"writing", "parts"} : pc' = [pc EXCEPT ![r] = to]
      BY <2>6 DEF I!KeptNowhere, I!OwnKeptNowhere, I!Go, I!Same
    <3> QED BY <3>1 DEF Places, Owns, Served, I!Over
  <2> QED BY <1>1, <2>1, <2>2, <2>3, <2>4, <2>5, <2>6 DEF I!Step, I!Trouble
<1>2. CASE I!RunAgain \/ I!Stop
  <2>1. pc' = [r \in Records |-> "waiting"] /\ count' = [upserted |-> 0, failed |-> 0] /\ shape' = shape
    BY <1>2 DEF I!RunAgain, I!Stop, I!Again, I!Counted
  <2>2. AreOver' = {}
    BY <2>1 DEF AreOver, I!Over
  <2> QED BY <2>1, <2>2, FS_EmptySet DEF CountFits
<1>3. CASE I!End \/ UNCHANGED I!vars
  BY <1>3 DEF I!End, I!vars, CountFits, AreOver
<1>4. ASSUME NEW r \in Records, I!Step(r) \/ I!Trouble(r) PROVE CountFits'
  <2>1. PICK to \in Places :
          /\ pc' = [pc EXCEPT ![r] = to]
          /\ IF to \in I!Over THEN \/ count' = [count EXCEPT !.upserted = @ + 1]
                                   \/ count' = [count EXCEPT !.failed = @ + 1]
             ELSE count' = count
    BY <1>1, <1>4
  <2>2. shape' = shape /\ pc[r] \notin I!Over
    BY <1>1, <1>4
  <2> QED BY <1>0, <2>1, <2>2, CountGoesOn
<1> QED BY <1>2, <1>3, <1>4 DEF I!Next, I!Work

LEMMA ImportsAre ==
  ASSUME ImportInv
  PROVE  I!TypeOK
<1>1. rows \in Seq(NamedItems) /\ at \in [Records -> There] /\ linked \in [NamedItems -> There]
  BY DEF ImportInv, PassInv, PassFits, PassTyped, RowsThere
<1>2. DOMAIN rows \cup {I!None} = There
  BY <1>1 DEF I!None, There
<1>3. count.upserted + count.failed = I!Cardinality({r \in Records : pc[r] \in I!Over})
  BY CountIs DEF ImportInv, CountFits, AreOver
<1> QED BY <1>1, <1>2, <1>3 DEF I!TypeOK, ImportInv, CountFits

(* ------------------------- The rows that hang off a record ------------------------ *)

(* Which statement is next says how the writer writes, and rows are only added where none is: what *)
(* is replaced was cleared, what is kept of a first writing had nothing before it.                  *)
RowInv ==
  /\ held \in [Items -> Nat] /\ listed \subseteq Items /\ answer.list \subseteq Items
  /\ deleted \subseteq Items /\ unknown \subseteq Items /\ (deleted # {} => kind.how = "diff")
  /\ first => step = "idle" /\ \A i \in Items : held[i] = 0
  /\ step = "clear" => kind.how = "replace"
  /\ step = "prune" => kind.how = "diff"
  /\ step = "insert" => \/ kind.how = "diff"
                        \/ kind.how = "replace" /\ \A i \in Items : held[i] = 0
  /\ step = "each" => kind.how # "replace"
  /\ step \in {"idle", "clear", "insert", "prune", "each"}
  /\ \A i \in Items : /\ held[i] > 1 => kind.how = "mapped" /\ i \in untold
                      /\ kind.how = "mapped" /\ held[i] > 0 => i \in known \cup untold
  /\ kept = "gone" => C!Removes /\ ~kind.spares

LEMMA RowsGoOn ==
  ASSUME RowInv, [C!Next]_(C!childVars)
  PROVE  RowInv'
<1>1. CASE C!Read
  <2>1. UNCHANGED <<kind, held, deleted, kept, known, untold, listed>> /\ step = "idle" /\ first' = FALSE
    BY <1>1 DEF C!Read, C!Outside
  <2>4. answer'.list \subseteq Items /\ unknown' \subseteq Items
    <3>1. PICK said \in BOOLEAN :
             /\ IF said THEN unknown' \in SUBSET listed ELSE UNCHANGED unknown
             /\ answer' = [told |-> said, list |-> IF said THEN listed \ unknown' ELSE {}]
      BY <1>1 DEF C!Read
    <3>2. answer'.list = IF said THEN listed \ unknown' ELSE {}
      BY <3>1
    <3> QED BY <3>1, <3>2 DEF RowInv
  <2>2. step' \in {"idle", C!Begin}
    BY <1>1 DEF C!Read
  <2>3. \/ step' = "idle"
        \/ kind.how = "replace" /\ (step' = "clear" \/ (step' = "insert" /\ first))
        \/ kind.how = "diff" /\ step' = "prune"
        \/ kind.how # "replace" /\ step' = "each"
    BY <2>2 DEF C!Begin
  <2> QED BY <2>1, <2>3, <2>4 DEF RowInv, C!Removes
<1>2. CASE C!Clear
  <2>1. step = "clear" /\ kind' = kind /\ step' \in {"insert", "idle"}
        /\ UNCHANGED <<deleted, unknown, known, untold, first, listed, answer>>
        /\ held' = [i \in Items |-> 0] /\ (kept' = kept \/ (kept' = "gone" /\ ~kind.spares))
    BY <1>2 DEF C!Clear, C!Outside, C!OursGoes, C!Then
  <2> QED BY <2>1 DEF RowInv, C!Removes
<1>3. CASE C!Insert
  <2>1. step = "insert" /\ kind' = kind /\ step' = "idle"
        /\ UNCHANGED <<deleted, unknown, kept, known, untold, first, listed, answer>>
        /\ held' = [i \in Items |-> IF i \in answer.list /\ (kind.how = "replace" \/ held[i] = 0) THEN held[i] + 1
                                    ELSE held[i]]
    BY <1>3 DEF C!Insert, C!Outside, C!Then
  <2>2. kind.how \in {"replace", "diff"} /\ ~first
    BY <2>1 DEF RowInv
  <2>3. held' \in [Items -> Nat] /\ \A i \in Items : held[i] \in Nat /\ held[i] <= 1 /\ held'[i] <= 1
    BY <2>1, <2>2 DEF RowInv
  <2>4. \A i \in Items : ~(held'[i] > 1)
    BY <2>3
  <2> QED BY <2>1, <2>2, <2>3, <2>4 DEF RowInv, C!Removes
<1>4. CASE C!Prune
  <2>1. step = "prune" /\ kind' = kind /\ step' \in {"idle", "insert"}
        /\ UNCHANGED <<unknown, known, untold, first, listed, answer>>
        /\ (held' = held \/ held' = [i \in Items |-> IF i \in answer.list THEN held[i] ELSE 0])
        /\ (deleted' = deleted \/ deleted' = deleted \cup (C!HasRows \ answer.list))
        /\ (kept' = kept \/ (kept' = "gone" /\ ~kind.spares))
    BY <1>4 DEF C!Prune, C!Outside, C!OursGoes, C!Then
  <2>2. kind.how = "diff" /\ ~first
    BY <2>1 DEF RowInv
  <2>3. held' \in [Items -> Nat] /\ \A i \in Items : held'[i] > 1 => held[i] > 1
    BY <2>1 DEF RowInv
  <2>4. deleted' \subseteq Items
    BY <2>1 DEF RowInv, C!HasRows
  <2> QED BY <2>1, <2>2, <2>3, <2>4 DEF RowInv, C!Removes
<1>5. CASE C!Each
  <2>1. PICK i \in Items : /\ step = "each" /\ ~C!There(i) /\ held' = [held EXCEPT ![i] = @ + 1]
                           /\ \/ known' = known \cup {i} /\ untold' = untold /\ step' = step
                              \/ untold' = untold \cup {i} /\ known' = known /\ step' = "idle"
                           /\ UNCHANGED <<kind, deleted, unknown, kept, first, listed, answer>>
    <3>1. PICK i \in answer.list : /\ step = "each" /\ ~C!There(i) /\ held' = [held EXCEPT ![i] = @ + 1]
                                   /\ \/ known' = known \cup {i} /\ untold' = untold /\ step' = step
                                      \/ untold' = untold \cup {i} /\ known' = known /\ step' = "idle"
                                   /\ UNCHANGED <<kind, deleted, unknown, kept, first, listed, answer>>
      BY <1>5 DEF C!Each, C!Outside
    <3>2. i \in Items
      BY DEF RowInv
    <3> QED BY <3>1, <3>2
  <2>2. ~first /\ held[i] \in Nat /\ kind.how # "replace"
    BY <2>1 DEF RowInv
  <2>3. held' \in [Items -> Nat] /\ held'[i] = held[i] + 1 /\ \A j \in Items : j # i => held'[j] = held[j]
    BY <2>1 DEF RowInv
  <2>4. CASE kind.how = "mapped"
    <3>1. i \notin known /\ (held[i] > 0 => i \in untold)
      BY <2>1, <2>4 DEF C!There, RowInv
    <3>2. held'[i] > 1 => held[i] > 0
      BY <2>2, <2>3
    <3>3. \A j \in Items : held'[j] > 1 => j \in untold'
      BY <2>1, <2>3, <2>4, <3>1, <3>2 DEF RowInv
    <3>4. \A j \in Items : held'[j] > 0 => j \in known' \cup untold'
      BY <2>1, <2>3, <2>4 DEF RowInv
    <3> QED BY <2>1, <2>2, <2>3, <2>4, <3>3, <3>4 DEF RowInv, C!Removes
  <2>5. CASE kind.how # "mapped"
    <3>1. held[i] = 0
      BY <2>1, <2>2, <2>5 DEF C!There
    <3>2. \A j \in Items : ~(held'[j] > 1)
      BY <2>3, <2>5, <3>1 DEF RowInv
    <3> QED BY <2>1, <2>2, <2>3, <2>5, <3>2 DEF RowInv, C!Removes
  <2> QED BY <2>4, <2>5
<1>6. CASE C!Change \/ C!MadeInTuper \/ C!Fails \/ UNCHANGED C!childVars
  <2>1. UNCHANGED <<kind, held, deleted, unknown, known, untold, first, answer>>
        /\ step' \in {step, "idle"} /\ listed' \subseteq Items
        /\ (kept' = kept \/ kept' = "there")
    BY <1>6 DEF C!Change, C!MadeInTuper, C!Fails, C!Outside, C!childVars, RowInv
  <2> QED BY <2>1 DEF RowInv, C!Removes
<1>7. CASE C!AllThere
  <2>1. UNCHANGED <<kind, held, deleted, unknown, known, untold, first, kept, listed, answer>> /\ step = "each"
        /\ step' = IF kind.how = "diff" THEN "prune" ELSE "idle"
    BY <1>7 DEF C!AllThere, C!Outside
  <2> QED BY <2>1 DEF RowInv, C!Removes
<1> QED BY <1>1, <1>2, <1>3, <1>4, <1>5, <1>6, <1>7 DEF C!Next, C!Write

LEMMA RowsBegin == C!Init => RowInv
BY DEF C!Init, RowInv, C!NoAnswer

LEMMA RowsKept == RowInv => C!RowsStand
BY DEF RowInv, C!RowsStand

(* What the map of uids knows has a row, where the writer never removes any. *)
KnownHere == kind \in C!Kinds /\ (known \subseteq C!HasRows \/ C!Removes)
LEMMA KnownStays ==
  ASSUME RowInv, KnownHere, [C!Next]_(C!childVars)
  PROVE  KnownHere'
<1>0. held \in [Items -> Nat] /\ answer.list \subseteq Items /\ kind' = kind /\ (C!Removes' <=> C!Removes)
  BY DEF RowInv, C!Next, C!Write, C!Read, C!Clear, C!Insert, C!Prune, C!Each, C!AllThere, C!Change, C!MadeInTuper, C!Fails,
         C!Outside, C!childVars, C!Removes
<1>1. CASE C!Removes
  BY <1>0, <1>1 DEF KnownHere
<1>2. CASE ~C!Removes
  <2>1. step # "clear" /\ step # "prune" /\ deleted = {}
    BY <1>2 DEF RowInv, C!Removes
  <2>5. deleted' = {}
    BY <2>1 DEF C!Next, C!Write, C!Read, C!Clear, C!Insert, C!Prune, C!Each, C!AllThere, C!Change, C!MadeInTuper,
         C!Fails, C!Outside, C!childVars
  <2>2. CASE C!Each
    <3>1. PICK i \in Items : held' = [held EXCEPT ![i] = @ + 1] /\ known' \subseteq known \cup {i}
      BY <1>0, <2>2 DEF C!Each
    <3>2. held'[i] > 0 /\ \A j \in Items : held[j] > 0 => held'[j] > 0
      BY <1>0, <3>1
    <3> QED BY <1>0, <1>2, <2>1, <2>5, <3>1, <3>2 DEF KnownHere, C!HasRows
  <2>3. CASE C!Insert
    <3>1. /\ held' = [i \in Items |-> IF i \in answer.list /\ (kind.how = "replace" \/ held[i] = 0) THEN held[i] + 1
                                      ELSE held[i]]
          /\ known' = known
      BY <2>3 DEF C!Insert
    <3>2. \A j \in Items : held[j] > 0 => held'[j] > 0
      BY <1>0, <3>1
    <3> QED BY <1>0, <1>2, <2>1, <2>5, <3>1, <3>2 DEF KnownHere, C!HasRows
  <2>4. CASE ~C!Each /\ ~C!Insert
    <3>1. UNCHANGED <<held, known>>
      BY <2>1, <2>4 DEF C!Next, C!Write, C!Read, C!Clear, C!Prune, C!AllThere, C!Change, C!MadeInTuper, C!Fails,
         C!Outside, C!childVars
    <3> QED BY <1>0, <2>1, <2>5, <3>1 DEF KnownHere, C!HasRows
  <2> QED BY <2>2, <2>3, <2>4
<1> QED BY <1>1, <1>2

LEMMA KnownBegins == C!Init => KnownHere
BY DEF C!Init, KnownHere

LEMMA KnownAre ==
  ASSUME RowInv, KnownHere
  PROVE  C!TypeOK
BY DEF RowInv, KnownHere, C!TypeOK

(* ------------------------------ A walk over a list ------------------------------- *)

(* The rows the walk has behind it. *)
Behind == (page - 1) * size + (IF rec = 0 THEN 0 ELSE rec - 1)
Asked == IF rec = 0 THEN size ELSE 1

WalkTyped ==
  /\ way \in {"filter", "list", "map"} /\ size \in Nat \ {0} /\ Cap <= size
  /\ list \in Seq(Nat) /\ grown \in Nat /\ grown <= MaxGrow /\ Len(list) <= MaxLen + grown
  /\ page \in Nat \ {0} /\ page <= L!LastPage /\ rec \in 0 .. size /\ (way # "filter" => rec = 0)
  /\ number \in Nat

(* Every record is in the list once, and those made meanwhile have higher numbers. *)
Distinct == \A i \in 1 .. Len(list) : /\ list[i] \in 1 .. MaxLen + grown
                                      /\ \A j \in 1 .. Len(list) : list[i] = list[j] => i = j

(* What was there from the start and is behind the walk has been read or skipped: a list that grows *)
(* moves its records on, and never back behind it.                                                   *)
Passed ==
  walk = "on" => \A j \in 1 .. Len(list) : j <= Behind /\ list[j] <= MaxLen => list[j] \in got \cup skipped

(* A plain list has answered no more rows than its pages hold, and the first row of the page before *)
(* has moved on by no more than the list has grown.                                                  *)
Plain ==
  way = "list" /\ walk = "on" =>
    /\ number <= (page - 1) * size
    /\ before # 0 => \E j \in 1 .. Len(list) : list[j] = before /\ j <= (page - 2) * size + 1 + grown

WalkInv == WalkTyped /\ Distinct /\ Passed /\ Plain /\ L!NothingMissed

Sizes == MaxLen \in Nat /\ MaxGrow \in Nat /\ Cap \in Nat \ {0} /\ PageSize \in Nat /\ Cap <= PageSize

(* Where the pages are, and that the last one is empty. *)
LEMMA PagesAre ==
  ASSUME Sizes, WalkTyped
  PROVE  /\ L!LastPage \in Nat /\ L!LastPage > 1 /\ (L!LastPage - 1) * size > MaxLen + MaxGrow
         /\ (page - 1) * size \in Nat /\ page * size = (page - 1) * size + size
         /\ Behind \in Nat /\ Asked \in Nat \ {0}
         /\ L!Onward(page) \in {page, page + 1} /\ L!Onward(page) <= L!LastPage
<1> DEFINE M == MaxLen + MaxGrow
           q == M \div Cap
<1>1. M \in Nat /\ Cap \in Nat /\ Cap > 0 /\ size \in Nat /\ Cap <= size
  BY DEF Sizes, WalkTyped
<1>2. M = Cap * (M \div Cap) + (M % Cap) /\ M % Cap < Cap /\ M % Cap \in Nat /\ M \div Cap \in Nat
  BY <1>1
<1>3. q \in Nat /\ L!LastPage = q + 2
  BY <1>2 DEF L!LastPage
<1>4. (q + 1) * Cap = Cap * q + Cap
  BY <1>1, <1>3
<1>5. (q + 1) * Cap > M
  BY <1>1, <1>2, <1>4
<1>6. (q + 1) * Cap <= (q + 1) * size
  <2> HIDE DEF q
  <2> QED BY <1>1, <1>3
<1>7. (q + 1) * size \in Nat /\ (q + 1) * Cap \in Nat
  BY <1>1, <1>3
<1>8. (L!LastPage - 1) * size > M
  <2>1. L!LastPage - 1 = q + 1
    BY <1>3
  <2> HIDE DEF q, M
  <2> QED BY <1>1, <1>5, <1>6, <1>7, <2>1
<1>9. L!LastPage \in Nat /\ L!LastPage > 1
  BY <1>3
<1>10. page \in Nat /\ page >= 1 /\ page - 1 \in Nat /\ page <= L!LastPage /\ rec \in 0 .. size
  BY DEF WalkTyped
<1>11. (page - 1) * size \in Nat /\ page * size = (page - 1) * size + size
  BY <1>1, <1>10
<1>12. Behind \in Nat /\ Asked \in Nat \ {0}
  BY <1>1, <1>10, <1>11 DEF Behind, Asked, WalkTyped
<1>13. L!Onward(page) \in {page, page + 1} /\ L!Onward(page) <= L!LastPage
  BY <1>9, <1>10 DEF L!Onward
<1> QED BY <1>8, <1>9, <1>11, <1>12, <1>13

(* What an answer holds: the rows after those behind. *)
LEMMA AnswerIs ==
  ASSUME Sizes, WalkTyped
  PROVE  /\ L!Answer \in Seq(Nat)
         /\ Len(L!Answer) = IF Behind >= Len(list) THEN 0
                          ELSE IF Behind + Asked <= Len(list) THEN Asked ELSE Len(list) - Behind
         /\ \A i \in 1 .. Len(L!Answer) : L!Answer[i] = list[Behind + i] /\ Behind + i \in 1 .. Len(list)
<1> DEFINE b == Behind
           n == Asked
           last == IF b + n > Len(list) THEN Len(list) ELSE b + n
<1>1. b \in Nat /\ n \in Nat \ {0} /\ Len(list) \in Nat /\ list \in Seq(Nat) /\ page \in Nat \ {0} /\ size \in Nat
      /\ (page - 1) * size \in Nat /\ rec \in 0 .. size
  BY PagesAre DEF WalkTyped
<1>2. L!Answer = SubSeq(list, b + 1, last)
  <2>1. CASE rec = 0
    <3>1. b = (page - 1) * size /\ n = size
      BY <1>1, <2>1 DEF Behind, Asked
    <3>2. L!Answer = L!Rows(b + 1, n)
      BY <2>1, <3>1 DEF L!Answer
    <3> HIDE DEF b, n
    <3> QED BY <1>1, <3>2 DEF L!Rows
  <2>2. CASE rec # 0
    <3>1. b + 1 = (page - 1) * size + rec /\ n = 1
      BY <1>1, <2>2 DEF Behind, Asked
    <3>2. L!Answer = L!Rows(b + 1, n)
      BY <2>2, <3>1 DEF L!Answer
    <3> HIDE DEF b, n
    <3> QED BY <1>1, <3>2 DEF L!Rows
  <2> QED BY <2>1, <2>2
<1>3. last \in Int /\ last <= Len(list) /\ last <= b + n
  BY <1>1
<1>4. \A i \in b + 1 .. last : list[i] \in Nat
  BY <1>1, <1>3
<1> HIDE DEF b, n, last
<1>5. /\ SubSeq(list, b + 1, last) \in Seq(Nat)
      /\ Len(SubSeq(list, b + 1, last)) = IF b + 1 <= last THEN last - (b + 1) + 1 ELSE 0
      /\ \A i \in 1 .. last - (b + 1) + 1 : SubSeq(list, b + 1, last)[i] = list[b + 1 + i - 1]
  BY <1>1, <1>3, <1>4, SubSeqProperties
<1>6. last = IF b + n > Len(list) THEN Len(list) ELSE b + n
  BY DEF last
<1>7. Len(L!Answer) = IF b >= Len(list) THEN 0 ELSE IF b + n <= Len(list) THEN n ELSE Len(list) - b
  <2> DEFINE all == Len(list)
             some == Len(L!Answer)
  <2>1. some = IF b + 1 <= last THEN last - (b + 1) + 1 ELSE 0
    BY <1>2, <1>5
  <2>2. b \in Nat /\ n \in Nat \ {0} /\ all \in Nat /\ last \in Int
    BY <1>1, <1>3
  <2>3. last = IF b + n > all THEN all ELSE b + n
    BY <1>6
  <2> HIDE DEF all, some
  <2>4. some = IF b >= all THEN 0 ELSE IF b + n <= all THEN n ELSE all - b
    BY <2>1, <2>2, <2>3
  <2> QED BY <2>4 DEF all, some
<1>8. ASSUME NEW i \in 1 .. Len(L!Answer) PROVE L!Answer[i] = list[b + i] /\ b + i \in 1 .. Len(list)
  <2>1. i \in 1 .. last - (b + 1) + 1 /\ b + i \in 1 .. Len(list) /\ b + 1 + i - 1 = b + i
    BY <1>1, <1>2, <1>3, <1>5, <1>6
  <2> QED BY <1>2, <1>5, <2>1
<1> QED BY <1>2, <1>5, <1>7, <1>8 DEF b, n

LEMMA Holds ==
  ASSUME Sizes, WalkTyped
  PROVE  /\ \A j \in 1 .. Len(list) : j > Behind /\ j <= Behind + Asked => list[j] \in L!ToSet(L!Answer)
         /\ L!Answer = <<>> <=> Behind >= Len(list)
         /\ L!Answer # <<>> => Head(L!Answer) = list[Behind + 1] /\ Behind + 1 \in 1 .. Len(list)
<1>1. Behind \in Nat /\ Asked \in Nat \ {0} /\ Len(list) \in Nat /\ DOMAIN L!Answer = 1 .. Len(L!Answer)
      /\ Len(L!Answer) \in Nat /\ L!Answer \in Seq(Nat)
  BY PagesAre, AnswerIs DEF WalkTyped
<1>2. ASSUME NEW j \in 1 .. Len(list), j > Behind, j <= Behind + Asked PROVE list[j] \in L!ToSet(L!Answer)
  <2>0. Len(L!Answer) = IF Behind >= Len(list) THEN 0
                      ELSE IF Behind + Asked <= Len(list) THEN Asked ELSE Len(list) - Behind
    BY AnswerIs
  <2>1. j - Behind \in 1 .. Len(L!Answer) /\ Behind + (j - Behind) = j
    BY <1>1, <1>2, <2>0
  <2>2. L!Answer[j - Behind] = list[j]
    BY <2>1, AnswerIs
  <2> QED BY <1>1, <2>1, <2>2 DEF L!ToSet
<1>3. Len(L!Answer) = 0 <=> Behind >= Len(list)
  BY <1>1, AnswerIs
<1>4. L!Answer = <<>> <=> Len(L!Answer) = 0
  BY <1>1
<1>5. ASSUME L!Answer # <<>> PROVE Head(L!Answer) = list[Behind + 1] /\ Behind + 1 \in 1 .. Len(list)
  <2>1. 1 \in 1 .. Len(L!Answer)
    BY <1>1, <1>4, <1>5
  <2>2. Head(L!Answer) = L!Answer[1]
    BY <1>1, <1>5
  <2> QED BY <2>1, <2>2, AnswerIs
<1> QED BY <1>2, <1>3, <1>4, <1>5

(* A walk that moves on by what it has read or skipped leaves nothing behind it. *)
LEMMA MovesOn ==
  ASSUME Sizes, WalkTyped, Passed, walk = "on", list' = list, got \cup skipped \cup L!ToSet(L!Answer) \subseteq got' \cup skipped',
         Behind' \in Nat, Behind' <= Behind + Asked
  PROVE  Passed'
<1>1. Behind \in Nat /\ Asked \in Nat
  BY PagesAre
<1>2. ASSUME NEW j \in 1 .. Len(list), j <= Behind', list[j] <= MaxLen PROVE list[j] \in got' \cup skipped'
  <2>1. CASE j <= Behind
    <3>1. \A k \in 1 .. Len(list) : k <= Behind /\ list[k] <= MaxLen => list[k] \in got \cup skipped
      BY DEF Passed
    <3>2. list[j] \in got \cup skipped
      BY <1>2, <2>1, <3>1
    <3> QED BY <3>2
  <2>2. CASE j > Behind
    <3>1. j <= Behind + Asked
      BY <1>1, <1>2
    <3>2. list[j] \in L!ToSet(L!Answer)
      BY <1>2, <2>2, <3>1, Holds
    <3> QED BY <3>2
  <2> QED BY <1>1, <2>1, <2>2
<1> QED BY <1>2 DEF Passed

(* A walk goes on to the page after this one, or to the record after this one. *)
LEMMA GoesBy ==
  ASSUME Sizes, WalkTyped, size' = size
  PROVE  /\ rec = 0 /\ page' = L!Onward(page) /\ rec' = rec =>
              Behind' \in Nat /\ Behind' <= Behind + Asked /\ page' \in Nat \ {0} /\ page' <= L!LastPage
         /\ rec > 0 /\ L!NextRecord =>
              /\ Behind' \in Nat /\ Behind' <= Behind + Asked /\ page' \in Nat \ {0} /\ page' <= L!LastPage
              /\ rec' \in 0 .. size
<1> DEFINE here == (page - 1) * size
<1>1. /\ size \in Nat \ {0} /\ page \in Nat \ {0} /\ page <= L!LastPage /\ L!LastPage \in Nat /\ rec \in 0 .. size
      /\ here \in Nat /\ page * size = here + size
      /\ L!Onward(page) \in {page, page + 1} /\ L!Onward(page) <= L!LastPage
  BY PagesAre DEF WalkTyped
<1>2. L!Onward(page) \in Nat \ {0} /\ (L!Onward(page) - 1) * size \in {here, here + size}
  <2>1. CASE L!Onward(page) = page
    BY <1>1, <2>1
  <2>2. CASE L!Onward(page) = page + 1
    <3>1. (page + 1) - 1 = page
      BY <1>1
    <3> QED BY <1>1, <2>2, <3>1
  <2> QED BY <1>1, <2>1, <2>2
<1>3. Behind = here + (IF rec = 0 THEN 0 ELSE rec - 1) /\ Asked = IF rec = 0 THEN size ELSE 1
  BY DEF Behind, Asked
<1>4. Behind' = (page' - 1) * size + (IF rec' = 0 THEN 0 ELSE rec' - 1)
  BY DEF Behind
<1>5. ASSUME rec = 0, page' = L!Onward(page), rec' = rec
      PROVE  Behind' \in Nat /\ Behind' <= Behind + Asked /\ page' \in Nat \ {0} /\ page' <= L!LastPage
  <2>1. Behind' \in {here, here + size} /\ Behind = here /\ Asked = size
    <3>1. (page' - 1) * size \in {here, here + size}
      BY <1>2, <1>5
    <3> QED BY <1>1, <1>3, <1>4, <1>5, <3>1
  <2> HIDE DEF here
  <2> QED BY <1>1, <1>2, <1>5, <2>1
<1>6. ASSUME rec > 0, L!NextRecord
      PROVE  /\ Behind' \in Nat /\ Behind' <= Behind + Asked /\ page' \in Nat \ {0} /\ page' <= L!LastPage
             /\ rec' \in 0 .. size
  <2>1. Behind = here + rec - 1 /\ Asked = 1
    BY <1>1, <1>3, <1>6
  <2>2. CASE rec = size
    <3>1. page' = L!Onward(page) /\ rec' = 0
      BY <1>6, <2>2 DEF L!NextRecord
    <3>2. Behind' \in {here, here + size}
      <4>1. (page' - 1) * size \in {here, here + size}
        BY <1>2, <3>1
      <4> QED BY <1>1, <1>4, <3>1, <4>1
    <3> HIDE DEF here
    <3> QED BY <1>1, <1>2, <2>1, <2>2, <3>1, <3>2
  <2>3. CASE rec # size
    <3>1. page' = page /\ rec' = rec + 1
      BY <1>6, <2>3 DEF L!NextRecord
    <3>2. Behind' = here + (IF rec' = 0 THEN 0 ELSE rec' - 1)
      BY <1>4, <3>1
    <3>3. Behind' = here + rec
      BY <1>1, <3>1, <3>2
    <3> HIDE DEF here
    <3> QED BY <1>1, <1>6, <2>1, <2>3, <3>1, <3>3
  <2> QED BY <2>2, <2>3
<1> QED BY <1>5, <1>6

(* The page or the record after the last: all there is has been read or skipped. *)
LEMMA AllPassed ==
  ASSUME Sizes, WalkTyped, Distinct, Passed, walk = "on", Behind + Asked >= Len(list)
  PROVE  \A i \in L!ToSet(list) : i <= MaxLen => i \in got \cup skipped \cup L!ToSet(L!Answer)
<1> SUFFICES ASSUME NEW i \in L!ToSet(list), i <= MaxLen PROVE i \in got \cup skipped \cup L!ToSet(L!Answer)
  OBVIOUS
<1>1. Behind \in Nat /\ Asked \in Nat /\ list \in Seq(Nat) /\ Len(list) \in Nat /\ DOMAIN list = 1 .. Len(list)
  BY PagesAre DEF WalkTyped
<1>2. PICK j \in 1 .. Len(list) : list[j] = i
  BY <1>1 DEF L!ToSet
<1>3. CASE j <= Behind
  <2>1. list[j] \in got \cup skipped
    BY <1>2, <1>3 DEF Passed
  <2> QED BY <1>2, <2>1
<1>4. CASE j > Behind
  <2>1. list[j] \in L!ToSet(L!Answer)
    BY <1>1, <1>2, <1>4, Holds
  <2> QED BY <1>2, <2>1
<1> QED BY <1>1, <1>3, <1>4

(* A page that is answered. *)
LEMMA PageStays ==
  ASSUME Sizes, WalkInv, L!Page
  PROVE  WalkInv'
<1>0. WalkTyped /\ Distinct /\ Passed /\ Plain
  BY DEF WalkInv
<1>1. /\ walk = "on" /\ rec = 0 /\ rec' = 0
      /\ UNCHANGED <<way, size, list, grown, skipped>>
      /\ \/ L!Over /\ walk' = "ended" /\ UNCHANGED <<page, before, number, got>>
         \/ /\ ~L!Over /\ got' = got \cup L!ToSet(L!Answer) /\ number' = number + Len(L!Answer)
            /\ before' = IF L!Answer = <<>> THEN before ELSE Head(L!Answer)
            /\ walk' = IF L!More THEN "on" ELSE "ended"
            /\ page' = IF L!More THEN L!Onward(page) ELSE page
  BY DEF L!Page, L!World, L!Fixed
<1> DEFINE here == (page - 1) * size
<1>2. /\ here \in Nat /\ page * size = here + size /\ Behind = here /\ Asked = size
      /\ Len(list) \in Nat /\ size \in Nat \ {0} /\ grown \in Nat /\ number \in Nat /\ Len(L!Answer) \in Nat
      /\ page \in Nat \ {0} /\ page <= L!LastPage /\ L!LastPage \in Nat
  BY <1>0, <1>1, PagesAre, AnswerIs DEF WalkTyped, Behind, Asked
<1>3. Len(L!Answer) = IF here >= Len(list) THEN 0 ELSE IF here + size <= Len(list) THEN size ELSE Len(list) - here
  BY <1>0, <1>2, AnswerIs
<1>4. Distinct'
  BY <1>0, <1>1 DEF Distinct
<1>5. CASE L!Over
  <2>1. walk' = "ended" /\ UNCHANGED <<page, before, number, got>> /\ way = "list"
        /\ (L!Answer = <<>> \/ Head(L!Answer) = before)
    BY <1>1, <1>5 DEF L!Over
  <2>2. WalkTyped'
    BY <1>0, <1>1, <2>1 DEF WalkTyped, L!LastPage
  <2>3. Passed' /\ Plain'
    BY <2>1 DEF Passed, Plain
  <2>4. CASE L!Answer = <<>>
    <3>1. here >= Len(list)
      BY <1>0, <1>2, <2>4, Holds
    <3>2. Behind + Asked >= Len(list)
      BY <1>2, <3>1
    <3>3. L!ToSet(L!Answer) = {}
      BY <2>4 DEF L!ToSet
    <3>4. \A i \in L!ToSet(list) : i <= MaxLen => i \in got \cup skipped
      BY <1>0, <1>1, <3>2, <3>3, AllPassed
    <3>5. L!NothingMissed'
      BY <1>1, <2>1, <3>4 DEF L!NothingMissed
    <3> QED BY <1>4, <2>2, <2>3, <3>5 DEF WalkInv
  <2>5. CASE L!Answer # <<>>
    <3>1. Head(L!Answer) = list[here + 1] /\ here + 1 \in 1 .. Len(list)
      BY <1>0, <1>2, <2>5, Holds
    <3>2. before = list[here + 1] /\ before # 0
      <4>1. list[here + 1] \in 1 .. MaxLen + grown
        BY <1>0, <3>1 DEF Distinct
      <4> QED BY <1>2, <2>1, <2>5, <3>1, <4>1 DEF Sizes
    <3>3. PICK j \in 1 .. Len(list) : list[j] = before /\ j <= (page - 2) * size + 1 + grown
      BY <1>0, <1>1, <2>1, <3>2 DEF Plain
    <3>4. j = here + 1
      BY <1>0, <3>1, <3>2, <3>3 DEF Distinct
    <3>5. (page - 2) * size = here - size
      BY <1>2
    <3>6. grown >= size
      <4> HIDE DEF here
      <4> QED BY <1>2, <3>3, <3>4, <3>5
    <3>7. L!NothingMissed'
      BY <1>1, <2>1, <3>6 DEF L!NothingMissed
    <3> QED BY <1>4, <2>2, <2>3, <3>7 DEF WalkInv
  <2> QED BY <2>4, <2>5
<1>6. CASE ~L!Over /\ ~L!More
  <2>1. walk' = "ended" /\ page' = page /\ got' = got \cup L!ToSet(L!Answer) /\ number' = number + Len(L!Answer)
    BY <1>1, <1>6
  <2>2. WalkTyped'
    BY <1>0, <1>1, <1>2, <2>1 DEF WalkTyped, L!LastPage
  <2>3. Passed' /\ Plain'
    BY <2>1 DEF Passed, Plain
  <2>4. Behind + Asked >= Len(list)
    <3>1. CASE way \in {"filter", "map"}
      <4>1. Len(L!Answer) # size
        BY <1>6, <3>1 DEF L!More
      <4> HIDE DEF here
      <4> QED BY <1>2, <1>3, <4>1
    <3>2. CASE way = "list"
      <4>1. number + Len(L!Answer) >= Len(list)
        BY <1>6, <3>2 DEF L!More
      <4>2. number <= here
        BY <1>0, <1>1, <3>2 DEF Plain
      <4> HIDE DEF here
      <4> QED BY <1>2, <1>3, <4>1, <4>2
    <3> QED BY <1>0, <3>1, <3>2 DEF WalkTyped
  <2>5. \A i \in L!ToSet(list) : i <= MaxLen => i \in got \cup skipped \cup L!ToSet(L!Answer)
    BY <1>0, <1>1, <2>4, AllPassed
  <2>6. L!NothingMissed'
    BY <1>1, <2>1, <2>5 DEF L!NothingMissed
  <2> QED BY <1>4, <2>2, <2>3, <2>6 DEF WalkInv
<1>7. CASE ~L!Over /\ L!More
  <2>1. /\ walk' = "on" /\ page' = L!Onward(page) /\ got' = got \cup L!ToSet(L!Answer) /\ number' = number + Len(L!Answer)
        /\ before' = IF L!Answer = <<>> THEN before ELSE Head(L!Answer)
    BY <1>1, <1>7
  <2>2. /\ Behind' \in Nat /\ Behind' <= Behind + Asked /\ page' \in Nat \ {0} /\ page' <= L!LastPage
    BY <1>0, <1>1, <2>1, GoesBy
  <2>3. WalkTyped'
    BY <1>0, <1>1, <1>2, <2>1, <2>2 DEF WalkTyped, L!LastPage
  <2>4. Passed'
    BY <1>0, <1>1, <2>1, <2>2, MovesOn
  <2>5. L!NothingMissed'
    BY <2>1 DEF L!NothingMissed
  <2>6. ASSUME way = "list"
        PROVE  /\ number' <= (page' - 1) * size
               /\ before' # 0 => \E j \in 1 .. Len(list) : list[j] = before' /\ j <= (page' - 2) * size + 1 + grown
    <3>1. L!Answer # <<>> /\ Head(L!Answer) = list[here + 1] /\ here + 1 \in 1 .. Len(list)
      BY <1>0, <1>2, <1>7, <2>6, Holds DEF L!Over
    <3>2. page' = page + 1
      <4>1. (L!LastPage - 1) * size > MaxLen + MaxGrow /\ Len(list) <= MaxLen + grown /\ grown <= MaxGrow
        BY <1>0, PagesAre DEF WalkTyped
      <4>2. page # L!LastPage
        <5>1. here < Len(list)
          BY <1>2, <3>1
        <5>2. ASSUME page = L!LastPage PROVE FALSE
          <6>1. here > MaxLen + MaxGrow
            BY <4>1, <5>2
          <6> HIDE DEF here
          <6> QED BY <1>2, <4>1, <5>1, <6>1 DEF Sizes
        <5> QED BY <5>2
      <4> QED BY <1>2, <2>1, <4>2 DEF L!Onward
    <3>3. (page' - 1) * size = here + size /\ (page' - 2) * size = here
      BY <1>2, <3>2
    <3>4. number <= here /\ Len(L!Answer) <= size
      <4>1. number <= here
        BY <1>0, <1>1, <2>6 DEF Plain
      <4> HIDE DEF here
      <4> QED BY <1>2, <1>3, <4>1
    <3>5. number' <= (page' - 1) * size
      <4> HIDE DEF here
      <4> QED BY <1>2, <2>1, <3>3, <3>4
    <3>6. before' = list[here + 1] /\ here + 1 <= (page' - 2) * size + 1 + grown
      <4>1. before' = list[here + 1]
        BY <2>1, <3>1
      <4> HIDE DEF here
      <4> QED BY <1>2, <3>3, <4>1
    <3> QED BY <3>1, <3>5, <3>6
  <2>7. Plain'
    BY <1>1, <2>6 DEF Plain
  <2> QED BY <1>4, <2>3, <2>4, <2>5, <2>7 DEF WalkInv
<1> QED BY <1>5, <1>6, <1>7

(* A record of a failed page that is answered. *)
LEMMA RecordStays ==
  ASSUME Sizes, WalkInv, L!Record
  PROVE  WalkInv'
<1>0. WalkTyped /\ Distinct /\ Passed /\ Plain /\ way = "filter"
  BY DEF WalkInv, WalkTyped, L!Record
<1>1. /\ walk = "on" /\ rec > 0 /\ UNCHANGED <<way, size, list, grown, skipped, before, number>>
      /\ \/ L!Answer = <<>> /\ walk' = "ended" /\ UNCHANGED <<page, rec, got>>
         \/ got' = got \cup L!ToSet(L!Answer) /\ L!NextRecord /\ walk' = "on"
  BY DEF L!Record, L!World, L!Fixed
<1>2. Distinct' /\ Plain'
  BY <1>0, <1>1 DEF Distinct, Plain
<1>3. CASE L!Answer = <<>> /\ walk' = "ended" /\ UNCHANGED <<page, rec, got>>
  <2>1. WalkTyped' /\ Passed'
    BY <1>0, <1>1, <1>3 DEF WalkTyped, L!LastPage, Passed
  <2>2. Behind >= Len(list) /\ Behind \in Nat /\ Asked \in Nat /\ Len(list) \in Nat
    BY <1>0, <1>3, Holds, PagesAre DEF WalkTyped
  <2>3. L!ToSet(L!Answer) = {}
    BY <1>3 DEF L!ToSet
  <2>4. \A i \in L!ToSet(list) : i <= MaxLen => i \in got \cup skipped
    BY <1>0, <1>1, <2>2, <2>3, AllPassed
  <2>5. L!NothingMissed'
    BY <1>1, <1>3, <2>4 DEF L!NothingMissed
  <2> QED BY <1>2, <2>1, <2>5 DEF WalkInv
<1>4. CASE got' = got \cup L!ToSet(L!Answer) /\ L!NextRecord /\ walk' = "on"
  <2>1. /\ Behind' \in Nat /\ Behind' <= Behind + Asked /\ page' \in Nat \ {0} /\ page' <= L!LastPage
        /\ rec' \in 0 .. size
    BY <1>0, <1>1, <1>4, GoesBy
  <2>2. WalkTyped'
    BY <1>0, <1>1, <2>1 DEF WalkTyped, L!LastPage
  <2>3. Passed'
    BY <1>0, <1>1, <1>4, <2>1, MovesOn
  <2>4. L!NothingMissed'
    BY <1>4 DEF L!NothingMissed
  <2> QED BY <1>2, <2>2, <2>3, <2>4 DEF WalkInv
<1> QED BY <1>1, <1>3, <1>4

(* A call that fails is made again, its page is read record by record, its record is skipped, or the *)
(* walk is given up.                                                                                  *)
LEMMA FailureStays ==
  ASSUME Sizes, WalkInv, walk = "on", UNCHANGED <<way, size, list, grown>>, L!Again \/ L!Failed
  PROVE  WalkInv'
<1>0. WalkTyped /\ Distinct /\ Passed /\ Plain
  BY DEF WalkInv
<1>1. UNCHANGED <<before, number, got>>
  BY DEF L!Again, L!Failed
<1>2. Distinct'
  BY <1>0 DEF Distinct
<1>3. \/ walk' = walk /\ UNCHANGED <<page, rec, skipped>>
      \/ walk' = "threw" /\ UNCHANGED <<page, rec, skipped>>
      \/ way = "filter" /\ rec = 0 /\ rec' = 1 /\ UNCHANGED <<page, skipped, walk>>
      \/ way = "filter" /\ rec > 0 /\ skipped' = skipped \cup L!ToSet(L!Answer) /\ L!NextRecord /\ UNCHANGED walk
  BY DEF L!Again, L!Failed, L!GiveUpOn
<1>4. CASE walk' = walk /\ UNCHANGED <<page, rec, skipped>>
  <2>1. WalkTyped' /\ Passed' /\ Plain' /\ L!NothingMissed'
    BY <1>0, <1>1, <1>4 DEF WalkTyped, L!LastPage, Passed, Behind, Plain, L!NothingMissed
  <2> QED BY <1>2, <2>1 DEF WalkInv
<1>5. CASE walk' = "threw" /\ UNCHANGED <<page, rec, skipped>>
  <2>1. WalkTyped' /\ Passed' /\ Plain' /\ L!NothingMissed'
    BY <1>0, <1>1, <1>5 DEF WalkTyped, L!LastPage, Passed, Plain, L!NothingMissed
  <2> QED BY <1>2, <2>1 DEF WalkInv
<1>6. CASE way = "filter" /\ rec = 0 /\ rec' = 1 /\ UNCHANGED <<page, skipped, walk>>
  <2>1. WalkTyped' /\ Plain' /\ L!NothingMissed'
    BY <1>0, <1>1, <1>6 DEF WalkTyped, L!LastPage, Plain, L!NothingMissed
  <2>2. Behind' = Behind
    BY <1>6 DEF Behind
  <2>3. Passed'
    BY <1>0, <1>1, <1>6, <2>2 DEF Passed
  <2> QED BY <1>2, <2>1, <2>3 DEF WalkInv
<1>7. CASE way = "filter" /\ rec > 0 /\ skipped' = skipped \cup L!ToSet(L!Answer) /\ L!NextRecord /\ UNCHANGED walk
  <2>1. /\ Behind' \in Nat /\ Behind' <= Behind + Asked /\ page' \in Nat \ {0} /\ page' <= L!LastPage
        /\ rec' \in 0 .. size
    BY <1>0, <1>7, GoesBy
  <2>2. WalkTyped'
    BY <1>0, <1>1, <1>7, <2>1 DEF WalkTyped, L!LastPage
  <2>3. Passed'
    BY <1>0, <1>1, <1>7, <2>1, MovesOn
  <2>4. L!NothingMissed' /\ Plain'
    BY <1>7 DEF L!NothingMissed, Plain
  <2> QED BY <1>2, <2>2, <2>3, <2>4 DEF WalkInv
<1> QED BY <1>3, <1>4, <1>5, <1>6, <1>7

(* What is put into a sequence stands there, and those from there on one further. *)
Put(xs, i, new) == (SubSeq(xs, 1, i - 1) \o <<new>>) \o SubSeq(xs, i, Len(xs))
LEMMA PutIn ==
  ASSUME NEW xs \in Seq(Nat), NEW i \in 1 .. Len(xs) + 1, NEW new \in Nat
  PROVE  /\ Put(xs, i, new) \in Seq(Nat) /\ Len(Put(xs, i, new)) = Len(xs) + 1
         /\ \A j \in 1 .. Len(xs) + 1 : /\ j < i => Put(xs, i, new)[j] = xs[j]
                                        /\ j = i => Put(xs, i, new)[j] = new
                                        /\ j > i => Put(xs, i, new)[j] = xs[j - 1]
<1>0. Len(xs) \in Nat
  OBVIOUS
<1> DEFINE a == SubSeq(xs, 1, i - 1)
           z == SubSeq(xs, i, Len(xs))
<1>1. Put(xs, i, new) = (a \o <<new>>) \o z
  BY DEF Put
<1>2. a \in Seq(Nat) /\ Len(a) = i - 1 /\ \A j \in 1 .. i - 1 : a[j] = xs[j]
  BY <1>0
<1>3. z \in Seq(Nat) /\ Len(z) = Len(xs) - i + 1 /\ \A j \in 1 .. Len(xs) - i + 1 : z[j] = xs[i + j - 1]
  <2>1. i \in Int /\ 1 <= i /\ i <= Len(xs) + 1
    BY <1>0
  <2>2. \A k \in i .. Len(xs) : xs[k] \in Nat
    BY <2>1
  <2>3. z \in Seq(Nat) /\ Len(z) = Len(xs) - i + 1
    BY <1>0, <2>1, <2>2
  <2>4. \A j \in 1 .. Len(xs) - i + 1 : z[j] = xs[i + j - 1]
    BY <1>0, <2>1
  <2> QED BY <2>3, <2>4
<1> HIDE DEF a, z
<1> DEFINE b == a \o <<new>>
<1>4. b \in Seq(Nat) /\ Len(b) = i /\ \A j \in 1 .. i : b[j] = IF j < i THEN xs[j] ELSE new
  BY <1>0, <1>2
<1> HIDE DEF b
<1>5. b \o z \in Seq(Nat) /\ Len(b \o z) = Len(xs) + 1
      /\ \A j \in 1 .. Len(xs) + 1 : (b \o z)[j] = IF j <= i THEN b[j] ELSE z[j - i]
  <2>0. b \in Seq(Nat) /\ z \in Seq(Nat)
    BY <1>3, <1>4
  <2>1. b \o z \in Seq(Nat) /\ Len(b \o z) = Len(b) + Len(z)
    BY <2>0, ConcatProperties
  <2>2. \A j \in 1 .. Len(b) + Len(z) : (b \o z)[j] = IF j <= Len(b) THEN b[j] ELSE z[j - Len(b)]
    BY <2>0, ConcatProperties
  <2>3. Len(b) + Len(z) = Len(xs) + 1
    BY <1>0, <1>1, <1>3, <1>4
  <2>4. Len(b) = i
    BY <1>4
  <2> QED BY <2>1, <2>2, <2>3, <2>4
<1>6. Put(xs, i, new) = b \o z
  BY <1>0, <1>1 DEF b
<1> DEFINE w == b \o z
<1>7. \A j \in 1 .. Len(xs) + 1 : w[j] = IF j <= i THEN b[j] ELSE z[j - i]
  BY <1>5
<1>8. Put(xs, i, new) = w
  BY <1>6
<1> HIDE DEF w
<1>9. ASSUME NEW j \in 1 .. Len(xs) + 1
      PROVE  /\ j < i => Put(xs, i, new)[j] = xs[j]
             /\ j = i => Put(xs, i, new)[j] = new
             /\ j > i => Put(xs, i, new)[j] = xs[j - 1]
  <2>1. j <= i => w[j] = b[j]
    BY <1>7
  <2>2. (j < i => b[j] = xs[j]) /\ (j = i => b[j] = new)
    <3>1. ASSUME j <= i PROVE b[j] = IF j < i THEN xs[j] ELSE new
      BY <1>0, <1>4, <3>1
    <3>2. CASE j < i
      BY <1>0, <1>1, <3>1, <3>2
    <3>3. CASE j = i
      BY <1>0, <1>1, <3>1, <3>3
    <3> QED BY <1>0, <1>1, <3>2, <3>3
  <2>3. j > i => w[j] = z[j - i]
    BY <1>0, <1>1, <1>7
  <2>4. ASSUME j > i PROVE z[j - i] = xs[j - 1]
    <3>1. j - i \in 1 .. Len(xs) - i + 1 /\ i + (j - i) - 1 = j - 1
      BY <1>0, <1>1, <2>4
    <3>2. z[j - i] = xs[i + (j - i) - 1]
      BY <1>3, <3>1
    <3> QED BY <3>1, <3>2
  <2>5. j < i => w[j] = xs[j]
    BY <1>0, <1>1, <2>1, <2>2
  <2>6. j = i => w[j] = new
    BY <1>0, <1>1, <2>1, <2>2
  <2>7. j > i => w[j] = xs[j - 1]
    BY <2>3, <2>4
  <2> QED BY <1>8, <2>5, <2>6, <2>7
<1> QED BY <1>5, <1>6, <1>9

(* A record made while the list is walked moves those after it one on. *)
LEMMA GrowStays ==
  ASSUME Sizes, WalkInv, L!Grow
  PROVE  WalkInv'
<1> DEFINE new == MaxLen + grown + 1
<1>0. WalkTyped /\ Distinct /\ Passed /\ Plain
  BY DEF WalkInv
<1>1. /\ walk = "on" /\ grown < MaxGrow /\ grown' = grown + 1
      /\ UNCHANGED <<page, rec, before, number, got, skipped, walk, way, size>>
  BY DEF L!Grow, L!Fixed
<1>2. PICK i \in 1 .. Len(list) + 1 : list' = L!InsertAt(list, i, new)
  BY DEF L!Grow
<1>3. list \in Seq(Nat) /\ Len(list) \in Nat /\ grown \in Nat /\ MaxLen \in Nat /\ new \in Nat
  BY <1>0 DEF WalkTyped, Sizes
<1> HIDE DEF new
<1>4. /\ list' \in Seq(Nat) /\ Len(list') = Len(list) + 1
      /\ \A j \in 1 .. Len(list) + 1 : /\ j < i => list'[j] = list[j]
                                       /\ j = i => list'[j] = new
                                       /\ j > i => list'[j] = list[j - 1]
  <2>1. list' = Put(list, i, new)
    BY <1>2 DEF L!InsertAt, Put
  <2>2. list \in Seq(Nat) /\ new \in Nat /\ i \in 1 .. Len(list) + 1
    BY <1>3
  <2>3. /\ Put(list, i, new) \in Seq(Nat) /\ Len(Put(list, i, new)) = Len(list) + 1
        /\ \A j \in 1 .. Len(list) + 1 : /\ j < i => Put(list, i, new)[j] = list[j]
                                         /\ j = i => Put(list, i, new)[j] = new
                                         /\ j > i => Put(list, i, new)[j] = list[j - 1]
    BY <2>2, PutIn
  <2> QED BY <2>1, <2>3
<1>5. \A j \in 1 .. Len(list) : list[j] \in 1 .. MaxLen + grown
  BY <1>0 DEF Distinct
<1>6. new = MaxLen + grown + 1
  BY DEF new
<1>7. \A j \in 1 .. Len(list') : list'[j] \in 1 .. MaxLen + grown'
  <2> SUFFICES ASSUME NEW j \in 1 .. Len(list) + 1 PROVE list'[j] \in 1 .. MaxLen + grown + 1
    <3>1. Len(list') = Len(list) + 1 /\ grown' = grown + 1 /\ MaxLen + (grown + 1) = MaxLen + grown + 1
      BY <1>1, <1>3, <1>4
    <3> QED BY <3>1
  <2>1. CASE j < i
    <3>1. j \in 1 .. Len(list) /\ list'[j] = list[j]
      BY <1>3, <1>4, <2>1
    <3>2. list[j] \in 1 .. MaxLen + grown
      BY <1>5, <3>1
    <3> QED BY <1>3, <3>1, <3>2
  <2>2. CASE j = i
    <3>1. list'[j] = new
      BY <1>4, <2>2
    <3> QED BY <1>3, <1>6, <3>1
  <2>3. CASE j > i
    <3>1. j - 1 \in 1 .. Len(list)
      BY <1>3, <2>3
    <3>2. list'[j] = list[j - 1]
      BY <1>4, <2>3
    <3>3. list[j - 1] \in 1 .. MaxLen + grown
      BY <1>5, <3>1
    <3> QED BY <1>3, <3>2, <3>3
  <2> QED BY <1>3, <2>1, <2>2, <2>3
<1>8. ASSUME NEW j \in 1 .. Len(list'), list'[j] # new
      PROVE  \E k \in 1 .. Len(list) : list'[j] = list[k] /\ ((j = k /\ j < i) \/ (j = k + 1 /\ j > i))
  <2>1. /\ j \in 1 .. Len(list) + 1
        /\ j < i => list'[j] = list[j]
        /\ j = i => list'[j] = new
        /\ j > i => list'[j] = list[j - 1]
    BY <1>4
  <2>2. CASE j < i
    BY <1>3, <2>1, <2>2
  <2>3. CASE j > i
    <3>1. j - 1 \in 1 .. Len(list) /\ list'[j] = list[j - 1] /\ j = (j - 1) + 1
      BY <1>3, <2>1, <2>3
    <3> QED BY <1>3, <2>3, <3>1
  <2> QED BY <1>3, <1>8, <2>1, <2>2, <2>3
<1>9. Distinct'
  <2>1. ASSUME NEW j \in 1 .. Len(list'), NEW k \in 1 .. Len(list'), list'[j] = list'[k] PROVE j = k
    <3>1. j \in 1 .. Len(list) + 1 /\ k \in 1 .. Len(list) + 1
      BY <1>4
    <3>2. CASE list'[j] = new
      <4>1. \A m \in 1 .. Len(list) + 1 : list'[m] = new => m = i
        <5> SUFFICES ASSUME NEW m \in 1 .. Len(list) + 1, m # i PROVE list'[m] # new
          OBVIOUS
        <5>1. \A n \in 1 .. Len(list) : list[n] # new
          BY <1>3, <1>5, <1>6
        <5>2. CASE m < i
          <6>1. m \in 1 .. Len(list) /\ list'[m] = list[m]
            BY <1>3, <1>4, <5>2
          <6> QED BY <5>1, <6>1
        <5>3. CASE m > i
          <6>1. m - 1 \in 1 .. Len(list)
            BY <1>3, <5>3
          <6>2. list'[m] = list[m - 1]
            BY <1>4, <5>3
          <6> QED BY <5>1, <6>1, <6>2
        <5> QED BY <1>3, <5>2, <5>3
      <4> QED BY <2>1, <3>1, <3>2, <4>1
    <3>3. CASE list'[j] # new
      <4>1. PICK m \in 1 .. Len(list) : list'[j] = list[m] /\ ((j = m /\ j < i) \/ (j = m + 1 /\ j > i))
        BY <1>8, <3>3
      <4>2. PICK n \in 1 .. Len(list) : list'[k] = list[n] /\ ((k = n /\ k < i) \/ (k = n + 1 /\ k > i))
        BY <1>8, <2>1, <3>3
      <4>3. m = n
        <5>1. list[m] = list[n]
          BY <2>1, <4>1, <4>2
        <5> QED BY <1>0, <5>1 DEF Distinct
      <4>4. j \in Int /\ k \in Int /\ m \in Int /\ i \in Int
        BY <1>3, <3>1
      <4> QED BY <4>1, <4>2, <4>3, <4>4
    <3> QED BY <3>2, <3>3
  <2> QED BY <1>7, <2>1 DEF Distinct
<1>10. WalkTyped'
  <2>1. grown' \in Nat /\ grown' <= MaxGrow /\ Len(list') <= MaxLen + grown'
    BY <1>0, <1>1, <1>3, <1>4 DEF WalkTyped, Sizes
  <2> QED BY <1>0, <1>1, <1>4, <2>1 DEF WalkTyped, L!LastPage
<1>11. Behind' = Behind /\ Behind \in Nat
  BY <1>0, <1>1, PagesAre DEF Behind
<1>12. Passed'
  <2> SUFFICES ASSUME NEW j \in 1 .. Len(list'), j <= Behind, list'[j] <= MaxLen PROVE list'[j] \in got \cup skipped
    BY <1>1, <1>11 DEF Passed
  <2>1. list'[j] # new
    BY <1>3, <1>6
  <2>2. PICK k \in 1 .. Len(list) : list'[j] = list[k] /\ (j = k \/ j = k + 1)
    BY <1>8, <2>1
  <2>3. k <= Behind
    BY <1>3, <1>4, <1>11, <2>2
  <2> QED BY <1>0, <1>1, <2>2, <2>3 DEF Passed
<1>13. Plain'
  <2> SUFFICES ASSUME way = "list"
               PROVE  /\ number <= (page - 1) * size
                      /\ before # 0 => \E j \in 1 .. Len(list') : list'[j] = before /\ j <= (page - 2) * size + 1 + grown'
    BY <1>1 DEF Plain
  <2>1. number <= (page - 1) * size
    BY <1>0, <1>1 DEF Plain
  <2>2. ASSUME before # 0
        PROVE  \E j \in 1 .. Len(list') : list'[j] = before /\ j <= (page - 2) * size + 1 + grown'
    <3>1. PICK j \in 1 .. Len(list) : list[j] = before /\ j <= (page - 2) * size + 1 + grown
      BY <1>0, <1>1, <2>2 DEF Plain
    <3> DEFINE far == (page - 2) * size
    <3>2. far \in Int
      BY <1>0 DEF WalkTyped
    <3> HIDE DEF far
    <3>3. j <= far + 1 + grown
      BY <3>1 DEF far
    <3>4. CASE j < i
      <4>1. j \in 1 .. Len(list') /\ list'[j] = before /\ j <= far + 1 + grown'
        BY <1>1, <1>3, <1>4, <3>1, <3>2, <3>3, <3>4, SMTT(30)
      <4> QED BY <4>1 DEF far
    <3>5. CASE j >= i
      <4>1. j + 1 \in 1 .. Len(list) + 1 /\ ~(j + 1 < i) /\ j + 1 # i /\ (j + 1) - 1 = j
        BY <1>3, <3>5
      <4>2. j + 1 \in 1 .. Len(list') /\ list'[j + 1] = before
        BY <1>4, <3>1, <4>1
      <4>3. j + 1 <= far + 1 + grown'
        BY <1>1, <1>3, <3>2, <3>3
      <4> QED BY <4>2, <4>3 DEF far
    <3> QED BY <1>3, <3>4, <3>5
  <2> QED BY <2>1, <2>2
<1>14. L!NothingMissed'
  BY <1>1 DEF L!NothingMissed
<1> QED BY <1>9, <1>10, <1>12, <1>13, <1>14 DEF WalkInv

LEMMA WalkStays ==
  ASSUME Sizes, WalkInv, [L!Next]_(L!listVars)
  PROVE  WalkInv'
<1>1. CASE L!CallFails
  <2>1. walk = "on" /\ UNCHANGED <<way, size, list, grown>> /\ (L!Again \/ L!Failed)
    BY <1>1 DEF L!CallFails, L!Fail, L!World, L!Fixed
  <2> QED BY <2>1, FailureStays
<1>2. CASE L!Blip
  <2>1. walk = "on" /\ UNCHANGED <<way, size, list, grown>> /\ (L!Again \/ L!Failed)
    BY <1>2 DEF L!Blip, L!Fail, L!Fixed
  <2> QED BY <2>1, FailureStays
<1>3. CASE L!GoDown \/ UNCHANGED L!listVars
  <2>1. UNCHANGED <<way, size, list, grown, page, rec, before, number, got, skipped, walk>>
    BY <1>3 DEF L!GoDown, L!Fixed, L!listVars
  <2> QED BY <2>1 DEF WalkInv, WalkTyped, L!LastPage, Distinct, Passed, Behind, Plain, L!NothingMissed
<1> QED BY <1>1, <1>2, <1>3, PageStays, RecordStays, GrowStays DEF L!Next, L!Walk

LEMMA WalkBegins ==
  ASSUME Sizes, L!Init
  PROVE  WalkInv
<1>1. PICK n \in 0 .. MaxLen : list = [i \in 1 .. n |-> i]
  BY DEF L!Init
<1>2. n \in Nat /\ n <= MaxLen /\ list \in Seq(Nat) /\ Len(list) = n /\ \A j \in 1 .. n : list[j] = j
  <2>1. n \in Nat /\ n <= MaxLen /\ \A j \in 1 .. n : j \in Nat
    BY DEF Sizes
  <2> QED BY <1>1, <2>1
<1>3. size \in Nat \ {0} /\ Cap <= size
  BY DEF L!Init, Sizes
<1>4. L!LastPage \in Nat /\ L!LastPage > 1
  <2>1. MaxLen + MaxGrow \in Nat /\ Cap \in Nat /\ Cap > 0
    BY DEF Sizes
  <2>2. (MaxLen + MaxGrow) \div Cap \in Nat
    BY <2>1
  <2> QED BY <2>2 DEF L!LastPage
<1>5. WalkTyped
  BY <1>2, <1>3, <1>4 DEF L!Init, Sizes, WalkTyped
<1>6. Distinct
  BY <1>2 DEF L!Init, Sizes, Distinct
<1>7. Behind = 0
  BY <1>3 DEF L!Init, Behind
<1>8. Passed /\ Plain /\ L!NothingMissed
  BY <1>2, <1>3, <1>7 DEF L!Init, Passed, Plain, L!NothingMissed
<1> QED BY <1>5, <1>6, <1>8 DEF WalkInv

(* A call is tried so often at most, and what was read or skipped is of the list. *)
Tried ==
  /\ tried \in 0 .. Tries - 1 /\ walk \in {"on", "ended", "threw"}
  /\ got \subseteq L!ToSet(list) /\ skipped \subseteq L!ToSet(list)

LEMMA AnswerListed ==
  ASSUME Sizes, WalkTyped
  PROVE  L!ToSet(L!Answer) \subseteq L!ToSet(list)
<1>1. /\ DOMAIN list = 1 .. Len(list) /\ DOMAIN L!Answer = 1 .. Len(L!Answer)
      /\ \A i \in 1 .. Len(L!Answer) : L!Answer[i] = list[Behind + i] /\ Behind + i \in 1 .. Len(list)
  <2>1. list \in Seq(Nat) /\ L!Answer \in Seq(Nat)
    BY AnswerIs DEF WalkTyped
  <2> QED BY <2>1, AnswerIs
<1>2. ASSUME NEW x \in L!ToSet(L!Answer) PROVE x \in L!ToSet(list)
  <2>1. PICK i \in 1 .. Len(L!Answer) : L!Answer[i] = x
    BY <1>1, <1>2 DEF L!ToSet
  <2> QED BY <1>1, <2>1 DEF L!ToSet
<1> QED BY <1>2

(* A list that grows keeps what it has. *)
LEMMA GrowKeeps ==
  ASSUME Sizes, WalkTyped, L!Grow
  PROVE  L!ToSet(list) \subseteq L!ToSet(list')
<1>1. list \in Seq(Nat) /\ Len(list) \in Nat /\ DOMAIN list = 1 .. Len(list)
  <2>1. list \in Seq(Nat)
    BY DEF WalkTyped
  <2> QED BY <2>1
<1>2. PICK i \in 1 .. Len(list) + 1 : list' = L!InsertAt(list, i, MaxLen + grown + 1)
  BY DEF L!Grow
<1>3. MaxLen + grown + 1 \in Nat
  BY DEF WalkTyped, Sizes
<1>4. /\ list' \in Seq(Nat) /\ Len(list') = Len(list) + 1
      /\ \A j \in 1 .. Len(list) + 1 : /\ j < i => list'[j] = list[j]
                                       /\ j > i => list'[j] = list[j - 1]
  <2> DEFINE new == MaxLen + grown + 1
  <2>1. new \in Nat /\ list' = Put(list, i, new)
    BY <1>2, <1>3 DEF L!InsertAt, Put
  <2> HIDE DEF new
  <2>2. list \in Seq(Nat) /\ i \in 1 .. Len(list) + 1
    BY <1>1
  <2>3. /\ list' \in Seq(Nat) /\ Len(list') = Len(list) + 1
        /\ \A j \in 1 .. Len(list) + 1 : /\ j < i => list'[j] = list[j]
                                         /\ j = i => list'[j] = new
                                         /\ j > i => list'[j] = list[j - 1]
    BY <2>1, <2>2, PutIn
  <2> QED BY <2>3
<1>5. DOMAIN list' = 1 .. Len(list) + 1
  BY <1>4
<1>6. ASSUME NEW j \in 1 .. Len(list) PROVE \E k \in DOMAIN list' : list'[k] = list[j]
  <2>1. CASE j < i
    <3>1. j \in 1 .. Len(list) + 1
      BY <1>1
    <3>2. list'[j] = list[j]
      BY <1>4, <2>1, <3>1
    <3> QED BY <1>5, <3>1, <3>2
  <2>2. CASE j >= i
    <3>1. j + 1 \in 1 .. Len(list) + 1 /\ j + 1 > i /\ (j + 1) - 1 = j
      BY <1>1, <2>2
    <3>2. list'[j + 1] = list[(j + 1) - 1]
      BY <1>4, <3>1
    <3> QED BY <1>5, <3>1, <3>2
  <2> QED BY <1>1, <2>1, <2>2
<1> QED BY <1>1, <1>6 DEF L!ToSet

LEMMA TriedStays ==
  ASSUME Sizes, Tries \in Nat \ {0}, WalkTyped, Tried, [L!Next]_(L!listVars)
  PROVE  Tried'
<1>1. CASE L!Page \/ L!Record
  <2>1. /\ tried' = 0 /\ walk' \in {"on", "ended"} /\ list' = list /\ skipped' = skipped
        /\ got' = got \/ got' = got \cup L!ToSet(L!Answer)
    BY <1>1 DEF L!Page, L!Record, L!World, Tried
  <2> QED BY <2>1, AnswerListed DEF Tried
<1>2. ASSUME L!Again \/ L!Failed, list' = list, L!Again => tried + 1 < Tries, walk = "on" PROVE Tried'
  <2>1. CASE L!Again
    <3>1. tried' = tried + 1 /\ UNCHANGED <<got, skipped, walk>> /\ tried + 1 < Tries
      BY <1>2, <2>1 DEF L!Again
    <3>2. tried' \in 0 .. Tries - 1
      BY <3>1 DEF Tried
    <3> QED BY <1>2, <3>1, <3>2 DEF Tried
  <2>2. CASE L!Failed
    <3>1. /\ tried' = 0 /\ got' = got /\ walk' \in {"on", "threw"}
          /\ skipped' = skipped \/ skipped' = skipped \cup L!ToSet(L!Answer)
      BY <1>2, <2>2 DEF L!Failed, L!GiveUpOn
    <3> QED BY <1>2, <3>1, AnswerListed DEF Tried
  <2> QED BY <1>2, <2>1, <2>2
<1>3. CASE L!CallFails \/ L!Blip
  <2>1. list' = list /\ walk = "on" /\ (L!Fail \/ L!Failed)
    BY <1>3 DEF L!CallFails, L!Blip, L!World
  <2>2. CASE L!Failed
    <3>1. ~L!Again \/ (tried' = tried + 1 /\ tried' = 0)
      BY <2>2 DEF L!Again, L!Failed
    <3>2. ~L!Again
      BY <3>1 DEF Tried
    <3> QED BY <1>2, <2>1, <2>2, <3>2
  <2>3. CASE L!Fail
    BY <1>2, <2>1, <2>2, <2>3 DEF L!Fail
  <2> QED BY <2>1, <2>2, <2>3
<1>4. CASE L!Grow
  <2>1. UNCHANGED <<tried, got, skipped, walk>>
    BY <1>4 DEF L!Grow
  <2> QED BY <1>4, <2>1, GrowKeeps DEF Tried
<1>5. CASE L!GoDown \/ UNCHANGED L!listVars
  BY <1>5 DEF L!GoDown, L!listVars, Tried
<1> QED BY <1>1, <1>3, <1>4, <1>5 DEF L!Next, L!Walk

LEMMA TriedBegins ==
  ASSUME Tries \in Nat \ {0}, L!Init
  PROVE  Tried
BY DEF L!Init, Tried

LEMMA WalksAre ==
  ASSUME WalkInv, Tried
  PROVE  L!TypeOK
BY DEF WalkInv, WalkTyped, Tried, L!TypeOK

(* ---------------------------- What kind a field is ------------------------------- *)

Decided == F!Answers \cup {F!Missing}
Busy == [step : {"asking", "writing"}, rec : F!Answers, image : Decided, kept : BOOLEAN]
FieldTyped ==
  /\ definition \in Decided /\ newest \in Decided
  /\ metSoFar \in [F!Runs -> [met : BOOLEAN, at : Times \cup {0}]]
  /\ inMemory \in [F!Runs -> [read : BOOLEAN, row : Decided]]
  /\ deciding \in [F!Runs -> [Lanes -> Busy \cup {F!Idle}]]

(* Nothing that is stored, in memory or compared with is newer than the newest record met, and what  *)
(* is being written was compared and found to differ.                                                *)
StoredFits == definition.at <= newest.at /\ \A c \in F!Runs : inMemory[c].row.at <= newest.at
LanesFit == \A c \in F!Runs, l \in Lanes :
               /\ deciding[c][l].image.at <= newest.at
               /\ deciding[c][l].step = "writing" => ~F!Leaves(deciding[c][l].rec, deciding[c][l].image)
Unbegun == \A c \in F!Runs : ~metSoFar[c].met => /\ ~inMemory[c].read
                                                 /\ \A l \in Lanes : deciding[c][l] = F!Idle

(* One record at a time: nobody works beside the one at work, no later run has begun, and it writes  *)
(* over what is stored; and the last run that has begun has in memory what is stored.                *)
Last(c) == \A d \in F!Runs : d > c => ~metSoFar[d].met
OneAtATime ==
  apart => \A c \in F!Runs, l \in Lanes : deciding[c][l] # F!Idle =>
              /\ \A d \in F!Runs, k \in Lanes : deciding[d][k] # F!Idle => d = c /\ k = l
              /\ Last(c)
              /\ deciding[c][l].step = "writing" => deciding[c][l].kept /\ deciding[c][l].image = definition
Remembers == apart => \A c \in F!Runs : inMemory[c].read /\ Last(c) => inMemory[c].row = definition

(* What is kept is the newest record itself, with its time, and not only what it says. *)
KeptIsNewest == ~unsaid => definition = newest

FieldInv == /\ FieldTyped /\ StoredFits /\ LanesFit /\ Unbegun
            /\ OneAtATime /\ Remembers /\ KeptIsNewest

LEMMA DecidedAre ==
  ASSUME Times \subseteq Nat \ {0}
  PROVE  /\ \A r \in F!Answers : r \in Decided /\ r = [says |-> r.says, at |-> r.at]
         /\ \A r \in Decided : r.at \in Nat
         /\ F!Missing.at = 0 /\ F!Idle.image = F!Missing /\ F!Idle.step = "idle"
<1>1. F!Missing.at = 0 /\ F!Idle.image = F!Missing /\ F!Idle.step = "idle"
  BY DEF F!Missing, F!Idle
<1>2. ASSUME NEW r \in F!Answers
      PROVE  r \in Decided /\ r = [says |-> r.says, at |-> r.at] /\ r.at \in Nat
  <2>1. r \in [at : Times \cup {0}, says : FieldKinds]
    BY DEF F!Answers
  <2>2. r.at \in Times \cup {0}
    BY <2>1
  <2>3. r = [says |-> r.says, at |-> r.at]
    BY <2>1
  <2> QED BY <2>2, <2>3 DEF Decided
<1> QED BY <1>1, <1>2 DEF Decided

LEMMA StandsAre ==
  ASSUME Times \subseteq Nat \ {0}, NEW r \in F!Answers, NEW row \in Decided
  PROVE  /\ F!Stands(r, row) \in F!Answers
         /\ r.at # 0 \/ row.at = 0 => F!Stands(r, row) = r
         /\ \A n \in Nat : r.at <= n /\ row.at <= n => F!Stands(r, row).at <= n
BY DEF Decided, F!Answers, F!Missing, F!Stands

(* --- The lanes --- *)

Same(x, y) == x.step = y.step /\ x.rec = y.rec /\ x.image = y.image /\ (x = F!Idle <=> y = F!Idle)
Moves(c, l, x) ==
  /\ deciding' \in [F!Runs -> [Lanes -> Busy \cup {F!Idle}]] /\ deciding'[c][l] = x
  /\ \A d \in F!Runs, k \in Lanes : d # c \/ k # l => Same(deciding'[d][k], deciding[d][k])

LEMMA LaneSame ==
  ASSUME NEW x \in Busy \cup {F!Idle}
  PROVE  /\ [x EXCEPT !.kept = FALSE] \in Busy \cup {F!Idle}
         /\ Same([x EXCEPT !.kept = FALSE], x) /\ Same(x, x)
<1> DEFINE y == [x EXCEPT !.kept = FALSE]
<1>1. CASE x = F!Idle
  <2>1. y = F!Idle
    <3>1. F!Idle \in [step : {"idle"}, rec : {F!Missing}, image : {F!Missing}, kept : {FALSE}]
      BY DEF F!Idle
    <3> QED BY <1>1, <3>1
  <2> QED BY <1>1, <2>1 DEF Same
<1>2. CASE x \in Busy
  <2>1. x.step # "idle" /\ F!Idle.step = "idle"
    BY <1>2 DEF Busy, F!Idle
  <2>2. y \in Busy
    BY <1>2 DEF Busy
  <2>3. y.step = x.step /\ y.rec = x.rec /\ y.image = x.image
    BY <1>2 DEF Busy
  <2> QED BY <2>1, <2>2, <2>3 DEF Same
<1> QED BY <1>1, <1>2

LEMMA LanesMove ==
  ASSUME FieldTyped, NEW c \in F!Runs, NEW l \in Lanes, NEW x \in Busy \cup {F!Idle},
         \/ deciding' = [deciding EXCEPT ![c][l] = x]
         \/ deciding' = [F!Apart(c) EXCEPT ![c][l] = x]
  PROVE  Moves(c, l, x)
<1>0. \A d \in F!Runs, k \in Lanes : Same(deciding[d][k], deciding[d][k])
  BY DEF Same
<1>1. CASE deciding' = [deciding EXCEPT ![c][l] = x]
  <2>1. deciding' \in [F!Runs -> [Lanes -> Busy \cup {F!Idle}]]
    BY <1>1 DEF FieldTyped
  <2>2. deciding'[c][l] = x /\ \A d \in F!Runs, k \in Lanes : d # c \/ k # l => deciding'[d][k] = deciding[d][k]
    BY <1>1 DEF FieldTyped
  <2> QED BY <1>0, <2>1, <2>2 DEF Moves
<1>2. CASE deciding' = [F!Apart(c) EXCEPT ![c][l] = x]
  <2> DEFINE lanes == [k \in Lanes |-> [deciding[c][k] EXCEPT !.kept = FALSE]]
  <2>0. \A k \in Lanes : deciding[c][k] \in Busy \cup {F!Idle}
    BY DEF FieldTyped
  <2>1. lanes \in [Lanes -> Busy \cup {F!Idle}] /\ \A k \in Lanes : Same(lanes[k], deciding[c][k])
    BY <2>0, LaneSame
  <2>2. F!Apart(c) = [deciding EXCEPT ![c] = lanes]
    BY DEF F!Apart
  <2> HIDE DEF lanes
  <2>3. F!Apart(c) \in [F!Runs -> [Lanes -> Busy \cup {F!Idle}]]
    BY <2>1, <2>2 DEF FieldTyped
  <2>4. F!Apart(c)[c] = lanes /\ \A d \in F!Runs : d # c => F!Apart(c)[d] = deciding[d]
    BY <2>2 DEF FieldTyped
  <2>5. \A d \in F!Runs, k \in Lanes : Same(F!Apart(c)[d][k], deciding[d][k])
    BY <1>0, <2>1, <2>4
  <2>6. deciding' \in [F!Runs -> [Lanes -> Busy \cup {F!Idle}]]
    BY <1>2, <2>3
  <2>7. deciding'[c][l] = x /\ \A d \in F!Runs, k \in Lanes : d # c \/ k # l => deciding'[d][k] = F!Apart(c)[d][k]
    BY <1>2, <2>3
  <2> QED BY <2>5, <2>6, <2>7 DEF Moves
<1> QED BY <1>1, <1>2

(* What a record at work leaves of the rest, whichever of its steps it takes. *)
BeginsTo(c) == \A d \in F!Runs : metSoFar'[d].met <=> (metSoFar[d].met \/ d = c)
Only(c) == \A d \in F!Runs : d # c => inMemory'[d] = inMemory[d]

LEMMA LanesGoOn ==
  ASSUME Times \subseteq Nat \ {0}, FieldInv, FieldTyped', NEW c \in F!Runs, NEW l \in Lanes, NEW x, Moves(c, l, x),
         newest.at <= newest'.at, x.image.at <= newest'.at,
         x.step = "writing" => ~F!Leaves(x.rec, x.image), BeginsTo(c), Only(c)
  PROVE  LanesFit' /\ Unbegun'
<1>1. newest.at \in Nat /\ newest'.at \in Nat
  BY DecidedAre DEF FieldInv, FieldTyped
<1>2. ASSUME NEW d \in F!Runs, NEW k \in Lanes
      PROVE  /\ deciding'[d][k].image.at <= newest'.at
             /\ deciding'[d][k].step = "writing"
                  => ~F!Leaves(deciding'[d][k].rec, deciding'[d][k].image)
  <2>1. CASE d = c /\ k = l
    BY <2>1 DEF Moves
  <2>2. CASE d # c \/ k # l
    <3>1. Same(deciding'[d][k], deciding[d][k])
      BY <2>2 DEF Moves
    <3>2. deciding[d][k].image.at \in Nat
      <4>1. deciding[d][k].image \in Decided
        BY DEF FieldInv, FieldTyped, Busy, F!Idle, Decided
      <4> QED BY <4>1, DecidedAre
    <3>3. deciding[d][k].image.at <= newest'.at
      BY <1>1, <3>2 DEF FieldInv, LanesFit
    <3> QED BY <3>1, <3>3 DEF FieldInv, LanesFit, Same
  <2> QED BY <2>1, <2>2
<1>3. ASSUME NEW d \in F!Runs, ~metSoFar'[d].met
      PROVE  ~inMemory'[d].read /\ \A k \in Lanes : deciding'[d][k] = F!Idle
  <2>1. d # c /\ ~metSoFar[d].met
    BY <1>3 DEF BeginsTo
  <2>2. ~inMemory[d].read /\ \A k \in Lanes : deciding[d][k] = F!Idle
    BY <2>1 DEF FieldInv, Unbegun
  <2>3. \A k \in Lanes : Same(deciding'[d][k], deciding[d][k])
    BY <2>1 DEF Moves
  <2> QED BY <2>1, <2>2, <2>3 DEF Only, Same
<1> QED BY <1>2, <1>3 DEF LanesFit, Unbegun

(* It works alone in the last run that has begun, and so it goes on. *)
LEMMA AloneGoesOn ==
  ASSUME MaxPasses \in Nat, FieldInv, NEW c \in F!Runs, NEW l \in Lanes, NEW x, Moves(c, l, x), BeginsTo(c), Only(c),
         apart' => /\ \A d \in F!Runs, k \in Lanes : d # c \/ k # l => deciding[d][k] = F!Idle
                   /\ Last(c)
                   /\ x.step = "writing" => x.kept /\ x.image = definition'
                   /\ inMemory'[c].read => inMemory'[c].row = definition'
  PROVE  OneAtATime' /\ Remembers'
<1>1. CASE ~apart'
  BY <1>1 DEF OneAtATime, Remembers
<1>2. CASE apart'
  <2>1. \A d \in F!Runs, k \in Lanes : d # c \/ k # l => deciding'[d][k] = F!Idle
    <3>1. ASSUME NEW d \in F!Runs, NEW k \in Lanes, d # c \/ k # l
          PROVE  deciding'[d][k] = F!Idle
      <4>1. deciding[d][k] = F!Idle
        BY <1>2, <3>1
      <4>2. Same(deciding'[d][k], deciding[d][k])
        BY <3>1 DEF Moves
      <4> QED BY <4>1, <4>2 DEF Same
    <3> QED BY <3>1
  <2>2. \A d \in F!Runs : d > c => ~metSoFar'[d].met /\ d # c
    BY <1>2 DEF Last, BeginsTo, F!Runs
  <2>3. OneAtATime'
    <3>1. ASSUME NEW d \in F!Runs, NEW k \in Lanes, deciding'[d][k] # F!Idle
          PROVE  /\ \A e \in F!Runs, m \in Lanes : deciding'[e][m] # F!Idle => e = d /\ m = k
                 /\ \A e \in F!Runs : e > d => ~metSoFar'[e].met
                 /\ deciding'[d][k].step = "writing"
                      => deciding'[d][k].kept /\ deciding'[d][k].image = definition'
      <4>1. d = c /\ k = l
        BY <2>1, <3>1
      <4> QED BY <1>2, <2>1, <2>2, <4>1 DEF Moves
    <3> QED BY <3>1 DEF OneAtATime, Last
  <2>4. Remembers'
    <3>1. ASSUME NEW d \in F!Runs, inMemory'[d].read, \A e \in F!Runs : e > d => ~metSoFar'[e].met
          PROVE  inMemory'[d].row = definition'
      <4>1. ~(c > d)
        BY <3>1 DEF BeginsTo
      <4>2. CASE d = c
        BY <1>2, <3>1, <4>2
      <4>3. CASE d # c
        <5>1. d > c
          BY <4>1, <4>3 DEF F!Runs
        <5>2. ~metSoFar[d].met /\ inMemory'[d] = inMemory[d]
          BY <1>2, <4>3, <5>1 DEF Last, Only
        <5> QED BY <3>1, <5>2 DEF FieldInv, Unbegun
      <4> QED BY <4>2, <4>3
    <3> QED BY <3>1 DEF Remembers, Last
  <2> QED BY <2>3, <2>4
<1> QED BY <1>1, <1>2

(* --- What a record says --- *)

LEMMA MeetsNewest ==
  ASSUME Times \subseteq Nat \ {0}, newest \in Decided, NEW r \in F!Answers, NEW row \in Decided, F!Meets(r, row)
  PROVE  newest' \in Decided /\ newest.at <= newest'.at /\ r.at <= newest'.at
<1>1. r \in Decided /\ r.at \in Nat /\ newest.at \in Nat
  BY DecidedAre
<1>2. (newest' = r /\ r.at >= newest.at) \/ (newest' = newest /\ ~(r.at >= newest.at))
  BY DEF F!Meets
<1> QED BY <1>1, <1>2

(* It is left as it is: nothing is newer than what is stored, unless that is in doubt. *)
LEMMA LeftIsNewest ==
  ASSUME Times \subseteq Nat \ {0}, FieldInv, NEW r \in F!Answers, NEW row \in Decided,
         F!Leaves(r, row), F!Meets(r, row), definition' = definition
  PROVE  KeptIsNewest'
<1>1. /\ r.at \in Nat /\ newest.at \in Nat /\ definition.at \in Nat /\ definition.at <= newest.at
      /\ r = [says |-> r.says, at |-> r.at]
  BY DecidedAre DEF FieldInv, FieldTyped, StoredFits
<1>2. SUFFICES ASSUME ~unsaid' PROVE definition = newest'
  BY DEF KeptIsNewest
<1>3. row = definition /\ definition # F!Missing /\ r.at # 0 /\ ~(r.at > definition.at)
  BY <1>2 DEF F!Meets, F!Leaves
<1>4. CASE r.at >= newest.at
  <2>1. r.at = definition.at /\ newest' = r
    BY <1>1, <1>3, <1>4 DEF F!Meets
  <2>2. r.says = definition.says
    BY <1>1, <1>3, <2>1 DEF F!Leaves, F!Older
  <2>3. definition \in F!Answers
    BY <1>3 DEF FieldInv, FieldTyped, Decided
  <2> QED BY <1>1, <2>1, <2>2, <2>3, DecidedAre
<1>5. CASE ~(r.at >= newest.at)
  BY <1>2, <1>5 DEF F!Meets, FieldInv, KeptIsNewest
<1> QED BY <1>4, <1>5

(* It is written: what was older would have been left. *)
LEMMA WrittenIsNewest ==
  ASSUME Times \subseteq Nat \ {0}, FieldInv, NEW r \in F!Answers, NEW row \in Decided,
         ~F!Leaves(r, row), F!Meets(r, row),
         definition' = IF row = F!Missing /\ definition # F!Missing THEN definition ELSE F!Stands(r, row)
  PROVE  KeptIsNewest'
<1>1. r.at \in Nat /\ newest.at \in Nat /\ definition.at \in Nat /\ F!Missing.at = 0
  BY DecidedAre DEF FieldInv, FieldTyped
<1>2. SUFFICES ASSUME ~unsaid' PROVE definition' = newest'
  BY DEF KeptIsNewest
<1>3. row = definition /\ (r.at = 0 => definition = F!Missing)
  BY <1>2 DEF F!Meets
<1>4. definition' = r
  BY <1>1, <1>3, StandsAre
<1>5. CASE r.at >= newest.at
  BY <1>4, <1>5 DEF F!Meets
<1>6. CASE ~(r.at >= newest.at)
  <2>1. definition = newest
    BY <1>2, <1>6 DEF F!Meets, FieldInv, KeptIsNewest
  <2>2. definition # F!Missing /\ r.at # 0 /\ definition.at # 0 /\ r.at < definition.at
    BY <1>1, <1>3, <1>6, <2>1
  <2>3. F!Leaves(r, row)
    BY <1>3, <2>2 DEF F!Leaves, F!Older
  <2> QED BY <2>3
<1> QED BY <1>5, <1>6

(* --- Each step of a record --- *)

Timed == Times \subseteq Nat \ {0} /\ MaxPasses \in Nat

(* A record is compared with a row: it is over, or it is written. *)
Told(c, l, r, row, x) ==
  /\ x \in Busy \cup {F!Idle} /\ Moves(c, l, x)
  /\ newest' \in Decided /\ newest.at <= newest'.at /\ x.image.at <= newest'.at
  /\ x.step = "writing" => ~F!Leaves(x.rec, x.image) /\ x.kept /\ x.image = row

LEMMA ComparedIs ==
  ASSUME Timed, FieldInv, definition' = definition,
         NEW c \in F!Runs, NEW l \in Lanes, NEW r \in F!Answers, NEW row \in Decided, row.at <= newest.at,
         NEW others, others = deciding \/ others = F!Apart(c), F!Compare(c, l, r, row, others)
  PROVE  (\E x : Told(c, l, r, row, x)) /\ KeptIsNewest'
<1>0. FieldTyped /\ newest \in Decided /\ newest.at \in Nat
  BY DecidedAre DEF Timed, FieldInv, FieldTyped
<1>1. CASE F!Leaves(r, row)
  <2>1. deciding' = [others EXCEPT ![c][l] = F!Idle] /\ F!Meets(r, row)
    BY <1>1 DEF F!Compare
  <2>2. Moves(c, l, F!Idle)
    BY <1>0, <2>1, LanesMove
  <2>3. newest' \in Decided /\ newest.at <= newest'.at /\ newest'.at \in Nat
    BY <1>0, <2>1, MeetsNewest, DecidedAre DEF Timed
  <2>4. F!Idle.image.at = 0 /\ F!Idle.step # "writing"
    BY DecidedAre DEF Timed
  <2>5. Told(c, l, r, row, F!Idle)
    BY <2>2, <2>3, <2>4 DEF Told
  <2> QED BY <1>1, <2>1, <2>5, LeftIsNewest DEF Timed
<1>2. CASE ~F!Leaves(r, row)
  <2> DEFINE x == [step |-> "writing", rec |-> r, image |-> row, kept |-> TRUE]
  <2>1. deciding' = [others EXCEPT ![c][l] = x] /\ newest' = newest /\ unsaid' = unsaid
    BY <1>2 DEF F!Compare
  <2>2. x \in Busy /\ x.rec = r /\ x.image = row /\ x.kept /\ x.step = "writing"
    BY DEF Busy
  <2> HIDE DEF x
  <2>3. Moves(c, l, x)
    BY <1>0, <2>1, <2>2, LanesMove
  <2>4. Told(c, l, r, row, x)
    BY <1>0, <1>2, <2>1, <2>2, <2>3 DEF Told
  <2> QED BY <2>1, <2>4 DEF FieldInv, KeptIsNewest
<1> QED BY <1>1, <1>2

LEMMA TakeKeeps ==
  ASSUME Timed, FieldInv, NEW c \in F!Runs, NEW l \in Lanes, NEW r \in F!Answers, F!Take(c, l, r)
  PROVE  FieldInv'
<1>1. /\ definition' = definition /\ inMemory' = inMemory
      /\ metSoFar' = [metSoFar EXCEPT ![c] = [met |-> TRUE, at |-> r.at]]
      /\ apart' => apart /\ (\A d \in F!Runs, k \in Lanes : deciding[d][k] = F!Idle) /\ Last(c)
  BY DEF F!Take, Last
<1>2. /\ r.at \in Times \cup {0} /\ inMemory[c].row \in Decided /\ inMemory[c].row.at <= newest.at
      /\ newest \in Decided /\ newest.at \in Nat
  BY DecidedAre DEF Timed, FieldInv, FieldTyped, StoredFits, F!Answers
<1>3. metSoFar' \in [F!Runs -> [met : BOOLEAN, at : Times \cup {0}]] /\ BeginsTo(c) /\ Only(c)
  BY <1>1, <1>2 DEF FieldInv, FieldTyped, BeginsTo, Only
<1>4. PICK x \in Busy \cup {F!Idle} :
         /\ Moves(c, l, x)
         /\ newest' \in Decided /\ newest.at <= newest'.at /\ x.image.at <= newest'.at
         /\ x.step = "writing" => /\ ~F!Leaves(x.rec, x.image) /\ x.kept
                                  /\ x.image = inMemory[c].row /\ inMemory[c].read
  <2>1. CASE inMemory[c].read
    <3>1. F!Compare(c, l, r, inMemory[c].row, deciding)
      BY <2>1 DEF F!Take
    <3>2. PICK x : Told(c, l, r, inMemory[c].row, x)
      BY <1>1, <1>2, <3>1, ComparedIs
    <3> QED BY <2>1, <3>2 DEF Told
  <2>2. CASE ~inMemory[c].read
    <3> DEFINE x == [F!Idle EXCEPT !.step = "asking", !.rec = r]
    <3>1. deciding' = [deciding EXCEPT ![c][l] = x] /\ newest' = newest
      BY <2>2 DEF F!Take
    <3>2. x \in Busy /\ x.step = "asking" /\ x.image = F!Missing
      BY DEF F!Idle, Busy, Decided
    <3> HIDE DEF x
    <3>3. Moves(c, l, x)
      BY <3>1, <3>2, LanesMove DEF FieldInv
    <3> QED BY <1>2, <3>1, <3>2, <3>3, DecidedAre DEF Timed
  <2> QED BY <2>1, <2>2
<1>5. FieldTyped'
  BY <1>1, <1>3, <1>4 DEF FieldInv, FieldTyped, Moves
<1>6. newest'.at \in Nat
  BY <1>4, DecidedAre DEF Timed
<1>7. StoredFits'
  <2>1. definition.at \in Nat /\ \A d \in F!Runs : inMemory[d].row.at \in Nat
    BY DecidedAre DEF Timed, FieldInv, FieldTyped
  <2> QED BY <1>1, <1>2, <1>4, <1>6, <2>1 DEF FieldInv, StoredFits
<1>8. LanesFit' /\ Unbegun'
  BY <1>3, <1>4, <1>5, LanesGoOn DEF Timed
<1>9. OneAtATime' /\ Remembers'
  <2>1. apart' => /\ \A d \in F!Runs, k \in Lanes : d # c \/ k # l => deciding[d][k] = F!Idle
                  /\ Last(c)
                  /\ inMemory'[c].read => inMemory'[c].row = definition'
    BY <1>1 DEF FieldInv, Remembers
  <2>2. apart' => (x.step = "writing" => x.kept /\ x.image = definition')
    BY <1>1, <1>4 DEF FieldInv, Remembers
  <2> QED BY <1>3, <1>4, <2>1, <2>2, AloneGoesOn DEF Timed
<1>10. KeptIsNewest'
  <2>1. CASE inMemory[c].read
    <3>1. F!Compare(c, l, r, inMemory[c].row, deciding)
      BY <2>1 DEF F!Take
    <3> QED BY <1>1, <1>2, <3>1, ComparedIs
  <2>2. CASE ~inMemory[c].read
    BY <1>1, <2>2 DEF F!Take, FieldInv, KeptIsNewest
  <2> QED BY <2>1, <2>2
<1> QED BY <1>5, <1>7, <1>8, <1>9, <1>10 DEF FieldInv

(* Who is at work has begun, and, while records come one at a time, is alone. *)
LEMMA AtWork ==
  ASSUME FieldInv, NEW c \in F!Runs, NEW l \in Lanes, deciding[c][l] # F!Idle
  PROVE  /\ metSoFar[c].met /\ deciding[c][l] \in Busy
         /\ metSoFar' = metSoFar => BeginsTo(c)
         /\ apart => Last(c) /\ \A d \in F!Runs, k \in Lanes : d # c \/ k # l => deciding[d][k] = F!Idle
<1>1. metSoFar[c].met /\ deciding[c][l] \in Busy
  BY DEF FieldInv, Unbegun, FieldTyped
<1> QED BY <1>1 DEF FieldInv, OneAtATime, BeginsTo

LEMMA ReadKeeps ==
  ASSUME Timed, FieldInv, NEW c \in F!Runs, NEW l \in Lanes, F!Read(c, l)
  PROVE  FieldInv'
<1> DEFINE r == deciding[c][l].rec
<1>1. /\ definition' = definition /\ metSoFar' = metSoFar /\ apart' = apart
      /\ inMemory' = [inMemory EXCEPT ![c] = [read |-> TRUE, row |-> definition]]
      /\ F!Compare(c, l, r, definition, F!Apart(c))
      /\ deciding[c][l] # F!Idle
  BY DecidedAre DEF F!Read, Timed
<1>2. r \in F!Answers /\ definition \in Decided /\ newest \in Decided
  BY <1>1, AtWork DEF Busy, FieldInv, FieldTyped
<1>3. definition.at \in Nat /\ newest.at \in Nat /\ definition.at <= newest.at
  BY <1>2, DecidedAre DEF Timed, FieldInv, StoredFits
<1> HIDE DEF r
<1>4. (\E x : Told(c, l, r, definition, x)) /\ KeptIsNewest'
  BY <1>1, <1>2, <1>3, ComparedIs
<1>5. PICK x : Told(c, l, r, definition, x)
  BY <1>4
<1>6. FieldTyped'
  <2>1. inMemory' \in [F!Runs -> [read : BOOLEAN, row : Decided]]
    BY <1>1, <1>2 DEF FieldInv, FieldTyped
  <2> QED BY <1>1, <1>5, <2>1 DEF FieldInv, FieldTyped, Told, Moves
<1>7. StoredFits'
  <2>1. newest'.at \in Nat /\ newest.at <= newest'.at
    BY <1>5, DecidedAre DEF Told, Timed
  <2>2. \A d \in F!Runs : inMemory[d].row.at \in Nat /\ inMemory[d].row.at <= newest.at
    BY DecidedAre DEF Timed, FieldInv, FieldTyped, StoredFits
  <2>3. \A d \in F!Runs : inMemory'[d] = IF d = c THEN [read |-> TRUE, row |-> definition] ELSE inMemory[d]
    BY <1>1 DEF FieldInv, FieldTyped
  <2>4. \A d \in F!Runs : inMemory'[d].row.at \in Nat /\ inMemory'[d].row.at <= newest.at
    BY <1>3, <2>2, <2>3
  <2> QED BY <1>1, <1>3, <2>1, <2>4 DEF StoredFits
<1>8. BeginsTo(c) /\ Only(c)
  BY <1>1, AtWork DEF FieldInv, FieldTyped, Only
<1>9. LanesFit' /\ Unbegun'
  BY <1>5, <1>6, <1>8, LanesGoOn DEF Timed, Told
<1>10. OneAtATime' /\ Remembers'
  <2>1. inMemory'[c].row = definition' /\ (x.step = "writing" => x.kept /\ x.image = definition') /\ Moves(c, l, x)
    BY <1>1, <1>5 DEF FieldInv, FieldTyped, Told
  <2> QED BY <1>1, <1>8, <2>1, AtWork, AloneGoesOn DEF Timed
<1> QED BY <1>4, <1>6, <1>7, <1>9, <1>10 DEF FieldInv

LEMMA WriteKeeps ==
  ASSUME Timed, FieldInv, NEW c \in F!Runs, NEW l \in Lanes, F!Write(c, l)
  PROVE  FieldInv'
<1> DEFINE o == deciding[c][l]
<1>1. /\ o.step = "writing" /\ F!Meets(o.rec, o.image) /\ metSoFar' = metSoFar /\ o # F!Idle
      /\ definition' = IF o.image = F!Missing /\ definition # F!Missing THEN definition
                       ELSE F!Stands(o.rec, o.image)
      /\ deciding' = [deciding EXCEPT ![c][l] = F!Idle] \/ deciding' = [F!Apart(c) EXCEPT ![c][l] = F!Idle]
      /\ \/ /\ o.image = F!Missing /\ inMemory' = [inMemory EXCEPT ![c] = F!Unread]
         \/ /\ o.image # F!Missing
            /\ inMemory' = IF o.kept THEN [inMemory EXCEPT ![c].row = F!Stands(o.rec, o.image)] ELSE inMemory
         \/ ~apart' /\ inMemory' = inMemory
      /\ apart' => apart
  BY DecidedAre DEF F!Write, Timed
<1>2. /\ o \in Busy /\ o.rec \in F!Answers /\ o.image \in Decided /\ o.image.at <= newest.at
      /\ ~F!Leaves(o.rec, o.image) /\ metSoFar[c].met
      /\ definition \in Decided /\ newest \in Decided /\ definition.at <= newest.at
  BY <1>1, AtWork DEF FieldInv, FieldTyped, StoredFits, LanesFit, Busy
<1>3. apart => /\ o.kept /\ o.image = definition /\ Last(c)
               /\ \A d \in F!Runs, k \in Lanes : d # c \/ k # l => deciding[d][k] = F!Idle
  BY <1>1 DEF FieldInv, OneAtATime
<1> HIDE DEF o
<1>4. newest' \in Decided /\ newest.at <= newest'.at /\ o.rec.at <= newest'.at
  BY <1>1, <1>2, MeetsNewest DEF Timed
<1>5. newest.at \in Nat /\ newest'.at \in Nat /\ o.image.at \in Nat /\ definition.at \in Nat /\ o.rec.at \in Nat
  BY <1>2, <1>4, DecidedAre DEF Timed
<1>6. F!Stands(o.rec, o.image) \in Decided /\ F!Stands(o.rec, o.image).at <= newest'.at
  <2>1. o.image.at <= newest'.at
    BY <1>2, <1>4, <1>5
  <2> QED BY <1>2, <1>4, <1>5, <2>1, StandsAre DEF Timed, Decided
<1>7. definition' \in Decided /\ definition'.at <= newest'.at
  BY <1>1, <1>2, <1>4, <1>5, <1>6
<1>8. Moves(c, l, F!Idle)
  BY <1>1, LanesMove DEF FieldInv
<1>9. inMemory' \in [F!Runs -> [read : BOOLEAN, row : Decided]] /\ Only(c)
  <2>1. F!Unread \in [read : BOOLEAN, row : Decided]
    BY DEF F!Unread, Decided
  <2>2. inMemory \in [F!Runs -> [read : BOOLEAN, row : Decided]]
    BY DEF FieldInv, FieldTyped
  <2>3. CASE inMemory' = [inMemory EXCEPT ![c] = F!Unread] \/ inMemory' = inMemory
    BY <2>1, <2>2, <2>3 DEF Only
  <2>4. CASE inMemory' = [inMemory EXCEPT ![c].row = F!Stands(o.rec, o.image)]
    <3>1. [inMemory[c] EXCEPT !.row = F!Stands(o.rec, o.image)] \in [read : BOOLEAN, row : Decided]
      BY <1>6, <2>2
    <3>2. inMemory' = [inMemory EXCEPT ![c] = [inMemory[c] EXCEPT !.row = F!Stands(o.rec, o.image)]]
      BY <2>4
    <3> QED BY <2>2, <3>1, <3>2 DEF Only
  <2> QED BY <1>1, <2>3, <2>4
<1>10. FieldTyped'
  BY <1>1, <1>4, <1>7, <1>8, <1>9 DEF FieldInv, FieldTyped, Moves
<1>11. StoredFits'
  <2>1. \A d \in F!Runs : inMemory[d].row.at \in Nat /\ inMemory[d].row.at <= newest.at
    BY DecidedAre DEF Timed, FieldInv, FieldTyped, StoredFits
  <2>2. F!Unread.row.at = 0
    BY DecidedAre DEF Timed, F!Unread
  <2>3. inMemory'[c] = inMemory[c] \/ inMemory'[c] = F!Unread \/ inMemory'[c].row = F!Stands(o.rec, o.image)
    BY <1>1 DEF FieldInv, FieldTyped
  <2>4. \A d \in F!Runs : inMemory'[d].row.at <= newest'.at
    <3>1. \A d \in F!Runs : d # c => inMemory'[d].row.at <= newest'.at
      BY <1>4, <1>5, <1>9, <2>1 DEF Only
    <3>2. inMemory'[c].row.at <= newest'.at
      <4>1. CASE inMemory'[c] = inMemory[c]
        BY <1>4, <1>5, <2>1, <4>1
      <4>2. CASE inMemory'[c] = F!Unread
        BY <1>5, <2>2, <4>2
      <4>3. CASE inMemory'[c].row = F!Stands(o.rec, o.image)
        BY <1>6, <4>3
      <4> QED BY <2>3, <4>1, <4>2, <4>3
    <3> QED BY <3>1, <3>2
  <2> QED BY <1>7, <2>4 DEF StoredFits
<1>12. BeginsTo(c)
  BY <1>1, <1>2 DEF BeginsTo
<1>13. F!Idle.image.at <= newest'.at /\ F!Idle.step # "writing"
  BY <1>5, DecidedAre DEF Timed
<1>14. LanesFit' /\ Unbegun'
  BY <1>4, <1>8, <1>9, <1>10, <1>12, <1>13, LanesGoOn DEF Timed
<1>15. OneAtATime' /\ Remembers'
  <2>1. apart' => (inMemory'[c].read => inMemory'[c].row = definition')
    <3>1. ASSUME apart', inMemory'[c].read
          PROVE  inMemory'[c].row = definition'
      <4>1. definition' = F!Stands(o.rec, o.image) /\ o.kept
        BY <1>1, <1>3, <3>1
      <4>2. F!Unread.read = FALSE
        BY DEF F!Unread
      <4>3. inMemory' = [inMemory EXCEPT ![c] = F!Unread]
            \/ inMemory' = [inMemory EXCEPT ![c].row = F!Stands(o.rec, o.image)]
        BY <1>1, <3>1, <4>1
      <4>4. inMemory'[c] = F!Unread \/ inMemory'[c].row = F!Stands(o.rec, o.image)
        BY <4>3 DEF FieldInv, FieldTyped
      <4> QED BY <3>1, <4>1, <4>2, <4>4
    <3> QED BY <3>1
  <2> QED BY <1>1, <1>3, <1>8, <1>9, <1>12, <1>13, <2>1, AloneGoesOn DEF Timed
<1>16. KeptIsNewest'
  BY <1>1, <1>2, WrittenIsNewest DEF Timed
<1> QED BY <1>10, <1>11, <1>14, <1>15, <1>16 DEF FieldInv

LEMMA FailsKeep ==
  ASSUME Timed, FieldInv, NEW c \in F!Runs, NEW l \in Lanes, F!Fails(c, l)
  PROVE  FieldInv'
<1> DEFINE r == deciding[c][l].rec
<1>1. /\ UNCHANGED <<definition, metSoFar, inMemory, apart>> /\ deciding[c][l] # F!Idle
      /\ deciding' = [deciding EXCEPT ![c][l] = F!Idle]
      /\ \/ r.at >= newest.at /\ newest' = r /\ unsaid'
         \/ ~(r.at >= newest.at) /\ newest' = newest /\ unsaid' = unsaid
  BY DEF F!Fails
<1>2. r \in F!Answers /\ newest \in Decided
  BY <1>1, AtWork DEF Busy, FieldInv, FieldTyped
<1> HIDE DEF r
<1>3. newest' \in Decided /\ newest.at <= newest'.at /\ newest.at \in Nat /\ newest'.at \in Nat
  BY <1>1, <1>2, DecidedAre DEF Timed
<1>4. Moves(c, l, F!Idle)
  BY <1>1, LanesMove DEF FieldInv
<1>5. FieldTyped'
  BY <1>1, <1>3, <1>4 DEF FieldInv, FieldTyped, Moves
<1>6. StoredFits'
  <2>1. definition.at \in Nat /\ \A d \in F!Runs : inMemory[d].row.at \in Nat
    BY DecidedAre DEF Timed, FieldInv, FieldTyped
  <2> QED BY <1>1, <1>3, <2>1 DEF FieldInv, StoredFits
<1>7. BeginsTo(c) /\ Only(c) /\ F!Idle.image.at <= newest'.at /\ F!Idle.step # "writing"
  BY <1>1, <1>3, AtWork, DecidedAre DEF Only, Timed
<1>8. LanesFit' /\ Unbegun'
  BY <1>3, <1>4, <1>5, <1>7, LanesGoOn DEF Timed
<1>9. OneAtATime' /\ Remembers'
  <2>1. apart' => Last(c) /\ (inMemory'[c].read => inMemory'[c].row = definition')
    BY <1>1, AtWork DEF FieldInv, Remembers
  <2> QED BY <1>1, <1>4, <1>7, <2>1, AtWork, AloneGoesOn DEF Timed
<1>10. KeptIsNewest'
  BY <1>1 DEF FieldInv, KeptIsNewest
<1> QED BY <1>5, <1>6, <1>8, <1>9, <1>10 DEF FieldInv

LEMMA FieldsBegin ==
  ASSUME F!Init
  PROVE  FieldInv
<1>1. F!Missing \in Decided
  BY DEF Decided
<1>2. FieldTyped
  BY <1>1 DEF F!Init, FieldTyped, F!Unmet, F!Unread
<1>3. StoredFits /\ LanesFit
  BY DEF F!Init, StoredFits, LanesFit, F!Missing, F!Unread, F!Idle
<1>4. Unbegun /\ OneAtATime /\ Remembers /\ KeptIsNewest
  BY DEF F!Init, Unbegun, OneAtATime, Remembers, KeptIsNewest, F!Unread
<1> QED BY <1>2, <1>3, <1>4 DEF FieldInv

LEMMA FieldsKeep ==
  ASSUME Timed, FieldInv, [F!Next]_(F!vars)
  PROVE  FieldInv'
<1>1. CASE UNCHANGED F!vars
  BY <1>1 DEF FieldInv, FieldTyped, StoredFits, LanesFit, Unbegun, OneAtATime, Remembers, KeptIsNewest, Last, F!vars
<1>2. CASE F!Next
  BY <1>2, TakeKeeps, ReadKeeps, WriteKeeps, FailsKeep DEF F!Next
<1> QED BY <1>1, <1>2

LEMMA FieldsStand == FieldInv => NewestDecides /\ F!TypeOK
<1> SUFFICES ASSUME FieldInv PROVE NewestDecides /\ F!TypeOK
  OBVIOUS
<1>1. ASSUME NEW c \in F!Runs, NEW l \in Lanes
      PROVE  /\ deciding[c][l].step \in {"idle", "asking", "writing"}
             /\ apart /\ deciding[c][l].step = "writing" => deciding[c][l].image = definition
  <2>1. deciding[c][l] \in Busy \cup {F!Idle} /\ F!Idle.step = "idle"
    BY DEF FieldInv, FieldTyped, F!Idle
  <2> QED BY <2>1 DEF FieldInv, OneAtATime, Busy
<1>2. ~unsaid => definition.says = newest.says
  BY DEF FieldInv, KeptIsNewest
<1> QED BY <1>1, <1>2 DEF NewestDecides, F!NewestDecides, F!TypeOK, FieldInv, FieldTyped, Decided

(* ----------------------------- The notes of a record ------------------------------ *)

(* Zuper lists a note once, and no row is ahead of its note. *)
NotesTyped ==
  /\ shown \in Seq(HostNotes) /\ \A i, j \in 1 .. Len(shown) : shown[i] = shown[j] => i = j
  /\ version \in [HostNotes -> Nat] /\ copy \in [HostNotes -> Nat] /\ read \in [HostNotes -> Nat]
  /\ \A n \in HostNotes : copy[n] <= version[n] /\ read[n] <= version[n]
  /\ \A i \in 1 .. Len(shown) : version[shown[i]] # 0
  /\ noteStep \in {"waiting", "listing", "writing", "flagging"} /\ notePage \in 1 .. Cardinality(HostNotes) + 1
  /\ flagged \subseteq HostNotes /\ unread \subseteq HostNotes
  /\ noteStep \in {"waiting", "listing"} => unread = {}
  /\ noteStep = "waiting" => read = H!Nothing /\ notePage = 1

(* What a pass has listed so far it has read, or it passed over it, or it has not come over. *)
ReadSoFar(n) == read[n] # 0 \/ n \in passed \/ copy[n] = 0
PagesRead ==
  /\ noteStep = "listing" => \A i \in 1 .. Len(shown) : i <= (notePage - 1) * NotePage => ReadSoFar(shown[i])
  /\ noteStep = "writing" => /\ \A i \in 1 .. Len(shown) : ReadSoFar(shown[i])
                             /\ \A n \in unread : read[n] # 0

(* What is flagged, or is about to be, came over, and Zuper lists it no more, or a page passed over it. *)
Gone(n) == copy[n] # 0 /\ (n \in astray \/ \A i \in 1 .. Len(shown) : shown[i] # n)
OnlyGone == (\A n \in flagged : Gone(n)) /\ (noteStep = "flagging" => \A n \in unread : Gone(n))

NotesInv == NotesTyped /\ PagesRead /\ OnlyGone

NotePages == IsFiniteSet(HostNotes) /\ NotePage \in Nat \ {0}

LEMMA NotesBegin ==
  ASSUME NotePages, H!Init
  PROVE  NotesInv
<1>1. Cardinality(HostNotes) \in Nat
  BY FS_CardinalityType DEF NotePages
<1>2. /\ shown = <<>> /\ Len(shown) = 0 /\ shown \in Seq(HostNotes)
      /\ version = H!Nothing /\ copy = H!Nothing /\ read = H!Nothing /\ H!Nothing = [n \in HostNotes |-> 0]
      /\ flagged = {} /\ unread = {} /\ noteStep = "waiting" /\ notePage = 1
  BY DEF H!Init, H!Nothing
<1> QED BY <1>1, <1>2 DEF NotesInv, NotesTyped, PagesRead, OnlyGone

(* The list is no longer than there are notes. *)
LEMMA ShownFits ==
  ASSUME NotePages, NotesTyped
  PROVE  Len(shown) \in Nat /\ Cardinality(HostNotes) \in Nat /\ Len(shown) <= Cardinality(HostNotes)
<1>1. Len(shown) \in Nat /\ shown \in [1 .. Len(shown) -> HostNotes] /\ IsFiniteSet(HostNotes)
  BY DEF NotesTyped, NotePages
<1>2. shown \in Injection(1 .. Len(shown), HostNotes)
  BY <1>1 DEF NotesTyped, Injection, IsInjective
<1>3. Cardinality(1 .. Len(shown)) <= Cardinality(HostNotes)
  BY <1>1, <1>2, FS_Injection
<1>4. Cardinality(1 .. Len(shown)) = Len(shown)
  BY <1>1, FS_Interval
<1>5. Cardinality(HostNotes) \in Nat
  BY <1>1, FS_CardinalityType
<1> QED BY <1>1, <1>3, <1>4, <1>5

(* A list, with one note taken out. *)
LEMMA TakenOut ==
  ASSUME NEW s \in Seq(HostNotes), NEW k \in 1 .. Len(s)
  PROVE  /\ H!RemoveAt(s, k) \in Seq(HostNotes) /\ Len(H!RemoveAt(s, k)) = Len(s) - 1
         /\ \A i \in 1 .. Len(s) - 1 : H!RemoveAt(s, k)[i] = IF i < k THEN s[i] ELSE s[i + 1]
<1> DEFINE a == SubSeq(s, 1, k - 1)
           z == SubSeq(s, k + 1, Len(s))
<1>1. Len(s) \in Nat /\ k \in Nat /\ k >= 1 /\ k <= Len(s)
  OBVIOUS
<1>2. a \in Seq(HostNotes) /\ Len(a) = k - 1 /\ \A j \in 1 .. k - 1 : a[j] = s[j]
  BY <1>1
<1>3. z \in Seq(HostNotes) /\ Len(z) = Len(s) - k /\ \A j \in 1 .. Len(s) - k : z[j] = s[k + j]
  BY <1>1
<1>4. H!RemoveAt(s, k) = a \o z
  BY DEF H!RemoveAt
<1> HIDE DEF a, z
<1>5. a \o z \in Seq(HostNotes) /\ Len(a \o z) = Len(a) + Len(z)
      /\ \A j \in 1 .. Len(a) + Len(z) : (a \o z)[j] = IF j <= Len(a) THEN a[j] ELSE z[j - Len(a)]
  BY <1>2, <1>3, ConcatProperties
<1> DEFINE w == a \o z
<1>6. w \in Seq(HostNotes) /\ Len(w) = Len(s) - 1
      /\ \A j \in 1 .. Len(s) - 1 : w[j] = IF j <= k - 1 THEN a[j] ELSE z[j - (k - 1)]
  <2>1. Len(a) + Len(z) = Len(s) - 1 /\ Len(a) = k - 1
    BY <1>1, <1>2, <1>3
  <2> QED BY <1>5, <2>1
<1>7. H!RemoveAt(s, k) = w
  BY <1>4
<1> HIDE DEF w
<1>8. ASSUME NEW i \in 1 .. Len(s) - 1 PROVE w[i] = IF i < k THEN s[i] ELSE s[i + 1]
  <2>1. CASE i < k
    <3>1. i <= k - 1 /\ i \in 1 .. k - 1
      BY <1>1, <2>1
    <3> QED BY <1>2, <1>6, <2>1, <3>1
  <2>2. CASE ~(i < k)
    <3>1. ~(i <= k - 1) /\ i - (k - 1) \in 1 .. Len(s) - k /\ k + (i - (k - 1)) = i + 1
      BY <1>1, <2>2
    <3> QED BY <1>3, <1>6, <2>2, <3>1
  <2> QED BY <2>1, <2>2
<1> QED BY <1>6, <1>7, <1>8

(* Zuper: a note is added, changed or removed. *)
LEMMA AddsNote ==
  ASSUME NotePages, NotesInv, NEW n \in HostNotes, H!NewNote(n)
  PROVE  NotesInv'
<1>0. NotesTyped /\ PagesRead /\ OnlyGone /\ shown \in Seq(HostNotes) /\ Len(shown) \in Nat
  <2>1. NotesTyped /\ PagesRead /\ OnlyGone
    BY DEF NotesInv
  <2>2. shown \in Seq(HostNotes)
    BY <2>1 DEF NotesTyped
  <2> QED BY <2>1, <2>2
<1>1. /\ version[n] = 0 /\ version' = [version EXCEPT ![n] = 1] /\ shown' = <<n>> \o shown
      /\ UNCHANGED <<passed, astray, copy, flagged, noteStep, notePage, read, unread>>
  BY DEF H!NewNote, H!Ours
<1>2. shown' \in Seq(HostNotes) /\ Len(shown') = Len(shown) + 1 /\ shown'[1] = n
      /\ \A i \in 1 .. Len(shown) : shown'[i + 1] = shown[i]
  <2>1. <<n>> \in Seq(HostNotes) /\ Len(<<n>>) = 1 /\ <<n>>[1] = n
    OBVIOUS
  <2> DEFINE one == <<n>>
             w == one \o shown
  <2>2. w \in Seq(HostNotes) /\ Len(w) = Len(one) + Len(shown)
        /\ \A j \in 1 .. Len(one) + Len(shown) : w[j] = IF j <= Len(one) THEN one[j] ELSE shown[j - Len(one)]
    BY <1>0, <2>1, ConcatProperties
  <2>3. Len(one) = 1 /\ one[1] = n /\ shown' = w
    BY <1>1, <2>1
  <2> HIDE DEF one, w
  <2>4. w[1] = n
    BY <1>0, <2>2, <2>3
  <2>5. ASSUME NEW i \in 1 .. Len(shown) PROVE w[i + 1] = shown[i]
    <3>1. i + 1 \in 1 .. Len(one) + Len(shown) /\ ~(i + 1 <= Len(one)) /\ (i + 1) - Len(one) = i
      BY <1>0, <2>3
    <3> QED BY <2>2, <3>1
  <2>6. Len(w) = Len(shown) + 1
    BY <1>0, <2>2, <2>3
  <2> QED BY <2>2, <2>3, <2>4, <2>5, <2>6
<1>3. /\ \A i \in 1 .. Len(shown) : shown[i] # n
      /\ copy[n] = 0 /\ version'[n] = 1 /\ \A m \in HostNotes : m # n => version'[m] = version[m]
  BY <1>0, <1>1 DEF NotesTyped
<1>4. ASSUME NEW i \in 1 .. Len(shown')
      PROVE  \/ i = 1 /\ shown'[i] = n
             \/ i - 1 \in 1 .. Len(shown) /\ shown'[i] = shown[i - 1]
  <2>1. i = 1 \/ (i - 1 \in 1 .. Len(shown) /\ i = (i - 1) + 1)
    BY <1>0, <1>2
  <2> QED BY <1>2, <2>1
<1>5. NotesTyped'
  <2>1. ASSUME NEW i \in 1 .. Len(shown'), NEW j \in 1 .. Len(shown'), shown'[i] = shown'[j] PROVE i = j
    <3>1. CASE i = 1 \/ j = 1
      BY <1>3, <1>4, <2>1, <3>1
    <3>2. CASE i # 1 /\ j # 1
      <4>1. i - 1 \in 1 .. Len(shown) /\ j - 1 \in 1 .. Len(shown) /\ shown[i - 1] = shown[j - 1]
        BY <1>4, <2>1, <3>2
      <4>2. i - 1 = j - 1
        BY <1>0, <4>1 DEF NotesTyped
      <4> QED BY <1>2, <4>2
    <3> QED BY <3>1, <3>2
  <2>2. \A i \in 1 .. Len(shown') : version'[shown'[i]] # 0
    <3> SUFFICES ASSUME NEW i \in 1 .. Len(shown') PROVE version'[shown'[i]] # 0
      OBVIOUS
    <3>1. CASE shown'[i] = n
      BY <1>3, <3>1
    <3>2. CASE i - 1 \in 1 .. Len(shown) /\ shown'[i] = shown[i - 1]
      <4>1. shown[i - 1] \in HostNotes /\ shown[i - 1] # n /\ version[shown[i - 1]] # 0
        BY <1>0, <1>3, <3>2, SMTT(30) DEF NotesTyped
      <4> QED BY <1>3, <3>2, <4>1
    <3> QED BY <1>4, <3>1, <3>2
  <2>3. version' \in [HostNotes -> Nat] /\ \A m \in HostNotes : copy[m] <= version'[m] /\ read[m] <= version'[m]
    <3>1. version' \in [HostNotes -> Nat]
      BY <1>0, <1>1 DEF NotesTyped
    <3>2. \A m \in HostNotes : copy[m] <= version[m] /\ read[m] <= version[m] /\ copy[m] \in Nat /\ read[m] \in Nat
      BY <1>0 DEF NotesTyped
    <3>3. copy[n] <= version'[n] /\ read[n] <= version'[n]
      BY <1>1, <1>3, <3>2
    <3> QED BY <1>3, <3>1, <3>2, <3>3
  <2> QED BY <1>0, <1>1, <1>2, <2>1, <2>2, <2>3 DEF NotesTyped, H!Nothing
<1>6. ASSUME NEW i \in 1 .. Len(shown'), NEW b \in Int, i <= b,
             \A j \in 1 .. Len(shown) : j <= b => ReadSoFar(shown[j])
      PROVE  ReadSoFar(shown'[i])
  <2>1. CASE shown'[i] = n
    BY <1>3, <2>1 DEF ReadSoFar
  <2>2. CASE i - 1 \in 1 .. Len(shown) /\ shown'[i] = shown[i - 1]
    <3>1. i - 1 <= b
      BY <1>2, <1>6
    <3> QED BY <1>6, <2>2, <3>1
  <2> QED BY <1>4, <2>1, <2>2
<1>7. PagesRead'
  <2>1. ASSUME noteStep = "listing", NEW i \in 1 .. Len(shown'), i <= (notePage - 1) * NotePage
        PROVE  ReadSoFar(shown'[i])
    <3>1. (notePage - 1) * NotePage \in Int
      BY <1>0 DEF NotesTyped, NotePages
    <3> QED BY <1>0, <1>6, <2>1, <3>1 DEF PagesRead
  <2>2. ASSUME noteStep = "writing", NEW i \in 1 .. Len(shown') PROVE ReadSoFar(shown'[i])
    <3>1. i \in Int /\ i <= i
      BY <1>2
    <3> QED BY <1>0, <1>6, <2>2, <3>1 DEF PagesRead
  <2> QED BY <1>0, <1>1, <2>1, <2>2 DEF PagesRead, ReadSoFar
<1>8. \A m : Gone(m) => Gone(m)'
  BY <1>1, <1>3, <1>4 DEF Gone
<1>9. OnlyGone'
  BY <1>0, <1>1, <1>8 DEF OnlyGone
<1> QED BY <1>5, <1>7, <1>9 DEF NotesInv

LEMMA ChangesNote ==
  ASSUME NotePages, NotesInv, NEW n \in HostNotes, H!ChangeNote(n)
  PROVE  NotesInv'
<1>0. NotesTyped /\ PagesRead /\ OnlyGone
  BY DEF NotesInv
<1>1. /\ version' = [version EXCEPT ![n] = @ + 1] /\ passed' \in {passed, passed \cup {n}}
      /\ UNCHANGED <<shown, astray, copy, flagged, noteStep, notePage, read, unread>>
  BY DEF H!ChangeNote, H!Ours
<1>2. /\ version' \in [HostNotes -> Nat] /\ version[n] \in Nat /\ version'[n] = version[n] + 1
      /\ \A m \in HostNotes : m # n => version'[m] = version[m]
  BY <1>0, <1>1 DEF NotesTyped
<1>3. ASSUME NEW m \in HostNotes PROVE copy[m] <= version'[m] /\ read[m] <= version'[m] /\ (version[m] # 0 => version'[m] # 0)
  <2>1. copy[m] \in Nat /\ read[m] \in Nat /\ version[m] \in Nat /\ copy[m] <= version[m] /\ read[m] <= version[m]
    BY <1>0 DEF NotesTyped
  <2> QED BY <1>2, <2>1
<1>4. NotesTyped'
  <2>1. \A i \in 1 .. Len(shown) : shown[i] \in HostNotes
    BY <1>0 DEF NotesTyped
  <2> QED BY <1>0, <1>1, <1>2, <1>3, <2>1 DEF NotesTyped, H!Nothing
<1>5. PagesRead'
  BY <1>0, <1>1 DEF PagesRead, ReadSoFar
<1>6. OnlyGone'
  BY <1>0, <1>1 DEF OnlyGone, Gone
<1> QED BY <1>4, <1>5, <1>6 DEF NotesInv

LEMMA RemovesNote ==
  ASSUME NotePages, NotesInv, NEW n \in HostNotes, H!RemoveNote(n)
  PROVE  NotesInv'
<1> DEFINE behindIt == (notePage - 1) * NotePage
<1>0. /\ NotesTyped /\ PagesRead /\ OnlyGone /\ shown \in Seq(HostNotes) /\ Len(shown) \in Nat
      /\ behindIt \in Nat /\ DOMAIN shown = 1 .. Len(shown)
  BY DEF NotesInv, NotesTyped, NotePages
<1>1. /\ UNCHANGED <<version, astray, copy, flagged, noteStep, notePage, read, unread>>
      /\ \E k \in DOMAIN shown :
           /\ shown' = H!RemoveAt(shown, k)
           /\ passed' = IF noteStep = "listing" /\ k <= behindIt /\ behindIt < Len(shown)
                        THEN passed \cup {shown[behindIt + 1]} ELSE passed
  BY DEF H!RemoveNote, H!Ours
<1>2. PICK k \in 1 .. Len(shown) :
        /\ shown' = H!RemoveAt(shown, k)
        /\ passed' = IF noteStep = "listing" /\ k <= behindIt /\ behindIt < Len(shown)
                     THEN passed \cup {shown[behindIt + 1]} ELSE passed
  BY <1>0, <1>1
<1> HIDE DEF behindIt
<1>3. /\ shown' \in Seq(HostNotes) /\ Len(shown') = Len(shown) - 1
      /\ \A i \in 1 .. Len(shown) - 1 : shown'[i] = IF i < k THEN shown[i] ELSE shown[i + 1]
  BY <1>0, <1>2, TakenOut
<1>4. ASSUME NEW i \in 1 .. Len(shown')
      PROVE  \/ i < k /\ i \in 1 .. Len(shown) /\ shown'[i] = shown[i]
             \/ i >= k /\ i + 1 \in 1 .. Len(shown) /\ shown'[i] = shown[i + 1]
  <2>1. i \in 1 .. Len(shown) - 1 /\ i \in 1 .. Len(shown) /\ i + 1 \in 1 .. Len(shown)
    BY <1>0, <1>3
  <2> QED BY <1>3, <2>1
<1>5. NotesTyped'
  <2>1. ASSUME NEW i \in 1 .. Len(shown'), NEW j \in 1 .. Len(shown'), shown'[i] = shown'[j] PROVE i = j
    <3>1. i \in Nat /\ j \in Nat /\ k \in Nat
      BY <1>3
    <3>2. \A x, y \in 1 .. Len(shown) : shown[x] = shown[y] => x = y
      BY <1>0 DEF NotesTyped
    <3>3. PICK x \in 1 .. Len(shown) : shown'[i] = shown[x] /\ ((i < k /\ x = i) \/ (i >= k /\ x = i + 1))
      BY <1>4
    <3>4. PICK y \in 1 .. Len(shown) : shown'[j] = shown[y] /\ ((j < k /\ y = j) \/ (j >= k /\ y = j + 1))
      BY <1>4
    <3>5. x = y
      BY <2>1, <3>2, <3>3, <3>4
    <3> QED BY <3>1, <3>3, <3>4, <3>5
  <2>2. \A i \in 1 .. Len(shown') : version[shown'[i]] # 0
    <3>1. \A i \in 1 .. Len(shown) : version[shown[i]] # 0
      BY <1>0 DEF NotesTyped
    <3>2. \A i \in 1 .. Len(shown') : \E j \in 1 .. Len(shown) : shown'[i] = shown[j]
      BY <1>4
    <3> QED BY <3>1, <3>2
  <2> QED BY <1>0, <1>1, <1>3, <2>1, <2>2 DEF NotesTyped, H!Nothing
<1>6. ASSUME NEW m, ReadSoFar(m) PROVE ReadSoFar(m)'
  BY <1>1, <1>2, <1>6 DEF ReadSoFar
<1>7. ASSUME noteStep = "listing", NEW i \in 1 .. Len(shown'), i <= behindIt
      PROVE  ReadSoFar(shown[i])'
  <2>0. \A j \in 1 .. Len(shown) : j <= behindIt => ReadSoFar(shown[j])
    BY <1>0, <1>7 DEF PagesRead, behindIt
  <2>1. CASE i < k /\ i \in 1 .. Len(shown) /\ shown'[i] = shown[i]
    <3>1. ReadSoFar(shown[i])
      BY <1>7, <2>0, <2>1
    <3> QED BY <1>1, <1>2, <2>1, <3>1 DEF ReadSoFar
  <2>2. CASE i >= k /\ i + 1 \in 1 .. Len(shown) /\ shown'[i] = shown[i + 1]
    <3>1. CASE i + 1 <= behindIt
      <4>1. ReadSoFar(shown[i + 1])
        BY <2>0, <2>2, <3>1
      <4> QED BY <1>1, <1>2, <2>2, <4>1 DEF ReadSoFar
    <3>2. CASE ~(i + 1 <= behindIt)
      <4>1. i = behindIt /\ k <= behindIt /\ behindIt < Len(shown)
        BY <1>0, <1>3, <1>7, <2>2, <3>2
      <4>2. shown'[i] \in passed'
        BY <1>2, <1>7, <2>2, <4>1
      <4> QED BY <4>2 DEF ReadSoFar
    <3> QED BY <3>1, <3>2
  <2> QED BY <1>4, <2>1, <2>2
<1>8. ASSUME noteStep = "writing", NEW i \in 1 .. Len(shown') PROVE ReadSoFar(shown[i])'
  <2>1. PICK j \in 1 .. Len(shown) : shown'[i] = shown[j]
    BY <1>4
  <2>2. ReadSoFar(shown[j])
    BY <1>0, <1>8 DEF PagesRead
  <2> QED BY <1>1, <1>2, <2>1, <2>2 DEF ReadSoFar
<1>9. PagesRead'
  BY <1>0, <1>1, <1>7, <1>8 DEF PagesRead, ReadSoFar, behindIt
<1>10. \A m : Gone(m) => Gone(m)'
  BY <1>1, <1>4 DEF Gone
<1>11. OnlyGone'
  BY <1>0, <1>1, <1>10 DEF OnlyGone
<1> QED BY <1>5, <1>9, <1>11 DEF NotesInv

(* A pass that is over forgets what it read. *)
LEMMA OverStays ==
  ASSUME NotePages, NotesInv, H!Over, UNCHANGED <<shown, version, copy, flagged>>, astray \subseteq astray'
  PROVE  NotesInv'
<1>0. NotesTyped /\ PagesRead /\ OnlyGone /\ Cardinality(HostNotes) \in Nat
  BY FS_CardinalityType DEF NotesInv, NotePages
<1>1. noteStep' = "waiting" /\ notePage' = 1 /\ read' = H!Nothing /\ unread' = {}
  BY DEF H!Over
<1>2. NotesTyped'
  <2>1. H!Nothing' = H!Nothing /\ H!Nothing \in [HostNotes -> Nat] /\ \A n \in HostNotes : H!Nothing[n] = 0
    BY DEF H!Nothing
  <2>2. \A n \in HostNotes : version[n] \in Nat
    BY <1>0 DEF NotesTyped
  <2>3. 1 \in 1 .. Cardinality(HostNotes) + 1
    BY <1>0
  <2>4. /\ shown' = shown /\ version' = version /\ copy' = copy /\ flagged' = flagged
    OBVIOUS
  <2>5. read' \in [HostNotes -> Nat] /\ \A n \in HostNotes : read'[n] <= version[n]
    BY <1>1, <2>1, <2>2
  <2>6. notePage' \in 1 .. Cardinality(HostNotes) + 1 /\ unread' \subseteq HostNotes
    BY <1>1, <2>3
  <2>7. read' = H!Nothing'
    BY <1>1, <2>1
  <2> QED BY <1>0, <1>1, <2>4, <2>5, <2>6, <2>7 DEF NotesTyped
<1>3. PagesRead' /\ OnlyGone'
  BY <1>0, <1>1 DEF PagesRead, OnlyGone, Gone
<1> QED BY <1>2, <1>3 DEF NotesInv

(* A page is read, and when it was the last, the whole list is. *)
LEMMA PageRead ==
  ASSUME NotePages, NotesInv, H!ReadPage
  PROVE  NotesInv'
<1> DEFINE upTo == notePage * NotePage
           now == [n \in HostNotes |-> IF n \in H!PageOf(notePage) THEN version[n] ELSE read[n]]
<1>0. /\ NotesTyped /\ PagesRead /\ OnlyGone /\ Len(shown) \in Nat /\ Len(shown) <= Cardinality(HostNotes)
      /\ Cardinality(HostNotes) \in Nat /\ DOMAIN shown = 1 .. Len(shown)
  <2>1. NotesTyped /\ PagesRead /\ OnlyGone
    BY DEF NotesInv
  <2> QED BY <2>1, ShownFits DEF NotesTyped
<1>1. /\ noteStep = "listing" /\ read' = now
      /\ \/ H!LastPage(notePage) /\ noteStep' = "writing" /\ unread' = H!ToWrite(now) /\ UNCHANGED notePage
         \/ ~H!LastPage(notePage) /\ notePage' = notePage + 1 /\ UNCHANGED <<noteStep, unread>>
      /\ UNCHANGED <<shown, version, copy, flagged, passed, astray>>
  BY DEF H!ReadPage, H!Zupers
<1>2. /\ upTo \in Nat /\ (notePage - 1) * NotePage \in Nat /\ notePage <= upTo /\ notePage \in Nat /\ notePage >= 1
      /\ (notePage + 1 - 1) * NotePage = upTo
  <2>1. notePage \in Nat /\ notePage >= 1 /\ NotePage \in Nat /\ NotePage >= 1
    BY <1>0 DEF NotesTyped, NotePages
  <2>2. notePage - 1 \in Nat /\ notePage + 1 - 1 = notePage
    BY <2>1
  <2>3. \E d \in Nat : NotePage = 1 + d
    <3>1. NotePage - 1 \in Nat /\ NotePage = 1 + (NotePage - 1)
      BY <2>1
    <3> QED BY <3>1
  <2>4. PICK d \in Nat : NotePage = 1 + d
    BY <2>3
  <2>5. upTo = notePage + notePage * d /\ notePage * d \in Nat
    BY <2>1, <2>4
  <2>6. (notePage - 1) * NotePage \in Nat
    BY <2>1, <2>2
  <2> QED BY <2>1, <2>2, <2>5, <2>6
<1> HIDE DEF now
<1>3. ASSUME NEW n \in HostNotes PROVE now[n] = version[n] \/ now[n] = read[n]
  BY DEF now
<1>4. now \in [HostNotes -> Nat] /\ \A n \in HostNotes : now[n] <= version[n]
  <2>1. version \in [HostNotes -> Nat] /\ read \in [HostNotes -> Nat] /\ \A n \in HostNotes : read[n] <= version[n]
    BY <1>0 DEF NotesTyped
  <2>2. now \in [HostNotes -> Nat]
    BY <2>1 DEF now
  <2>3. ASSUME NEW n \in HostNotes PROVE now[n] <= version[n]
    <3>1. version[n] \in Nat /\ read[n] \in Nat /\ read[n] <= version[n]
      BY <2>1
    <3> QED BY <1>3, <3>1
  <2> QED BY <2>2, <2>3
<1>5. ASSUME NEW i \in 1 .. Len(shown), i <= upTo
      PROVE  now[shown[i]] # 0 \/ shown[i] \in passed \/ copy[shown[i]] = 0
  <2>0. shown[i] \in HostNotes /\ version[shown[i]] # 0
    BY <1>0 DEF NotesTyped
  <2>1. CASE (notePage - 1) * NotePage < i
    <3>1. shown[i] \in H!PageOf(notePage)
      BY <1>0, <1>5, <2>1 DEF H!PageOf
    <3>2. now[shown[i]] = version[shown[i]]
      BY <2>0, <3>1 DEF now
    <3> QED BY <2>0, <3>2
  <2>2. CASE ~((notePage - 1) * NotePage < i)
    <3>1. i <= (notePage - 1) * NotePage
      BY <1>2, <2>2
    <3>2. ReadSoFar(shown[i])
      BY <1>0, <1>1, <3>1 DEF PagesRead
    <3>3. read[shown[i]] # 0 => now[shown[i]] # 0
      BY <1>3, <2>0
    <3> QED BY <3>2, <3>3 DEF ReadSoFar
  <2> QED BY <2>1, <2>2
<1>6. OnlyGone'
  BY <1>0, <1>1 DEF OnlyGone, Gone
<1>7. CASE H!LastPage(notePage) /\ noteStep' = "writing" /\ unread' = H!ToWrite(now) /\ UNCHANGED notePage
  <2>1. \A i \in 1 .. Len(shown) : i <= upTo
    BY <1>0, <1>2, <1>7 DEF H!LastPage
  <2>2. unread' \subseteq HostNotes /\ \A n \in unread' : now[n] # 0
    BY <1>7 DEF H!ToWrite
  <2>3. NotesTyped'
    BY <1>0, <1>1, <1>4, <1>7, <2>2 DEF NotesTyped
  <2>4. PagesRead'
    BY <1>1, <1>5, <1>7, <2>1, <2>2 DEF PagesRead, ReadSoFar
  <2> QED BY <1>6, <2>3, <2>4 DEF NotesInv
<1>8. CASE ~H!LastPage(notePage) /\ notePage' = notePage + 1 /\ UNCHANGED <<noteStep, unread>>
  <2>1. notePage' \in 1 .. Cardinality(HostNotes) + 1
    BY <1>0, <1>2, <1>8 DEF H!LastPage
  <2>2. NotesTyped'
    BY <1>0, <1>1, <1>4, <1>8, <2>1 DEF NotesTyped
  <2>3. (notePage' - 1) * NotePage = upTo
    BY <1>2, <1>8
  <2>4. PagesRead'
    BY <1>1, <1>5, <1>8, <2>3 DEF PagesRead, ReadSoFar
  <2> QED BY <1>6, <2>2, <2>4 DEF NotesInv
<1> QED BY <1>1, <1>7, <1>8

LEMMA NoteWritten ==
  ASSUME NotesInv, NEW n \in HostNotes, H!WriteNote(n)
  PROVE  NotesInv'
<1>0. NotesTyped /\ PagesRead /\ OnlyGone
  BY DEF NotesInv
<1>1. /\ noteStep = "writing" /\ n \in unread /\ unread' = unread \ {n} /\ copy' = [copy EXCEPT ![n] = read[n]]
      /\ flagged' \subseteq flagged
      /\ UNCHANGED <<shown, version, noteStep, notePage, read, passed, astray>>
  BY DEF H!WriteNote, H!Zupers
<1>2. read[n] # 0 /\ read[n] \in Nat /\ read[n] <= version[n]
  BY <1>0, <1>1 DEF NotesTyped, PagesRead
<1>3. copy' \in [HostNotes -> Nat] /\ copy'[n] = read[n] /\ \A m \in HostNotes : m # n => copy'[m] = copy[m]
  BY <1>0, <1>1, <1>2 DEF NotesTyped
<1>4. \A m \in HostNotes : copy'[m] <= version[m] /\ (copy[m] # 0 => copy'[m] # 0)
  BY <1>0, <1>2, <1>3 DEF NotesTyped
<1>5. NotesTyped'
  BY <1>0, <1>1, <1>3, <1>4 DEF NotesTyped, H!Nothing
<1>6. PagesRead'
  <2>1. ASSUME NEW i \in 1 .. Len(shown) PROVE read[shown[i]] # 0 \/ shown[i] \in passed \/ copy'[shown[i]] = 0
    <3>1. ReadSoFar(shown[i]) /\ shown[i] \in HostNotes
      BY <1>0, <1>1 DEF PagesRead, NotesTyped
    <3> QED BY <1>2, <1>3, <3>1 DEF ReadSoFar
  <2> QED BY <1>0, <1>1, <2>1 DEF PagesRead, ReadSoFar
<1>7. OnlyGone'
  <2>1. \A m \in flagged' : m \in HostNotes /\ Gone(m)
    BY <1>0, <1>1 DEF NotesTyped, OnlyGone
  <2> QED BY <1>1, <1>4, <2>1 DEF OnlyGone, Gone
<1> QED BY <1>5, <1>6, <1>7 DEF NotesInv

(* What is held and was not read is gone, or a page passed over it. *)
LEMMA AllWritten ==
  ASSUME NotesInv, H!Written
  PROVE  NotesInv'
<1>0. NotesTyped /\ PagesRead /\ OnlyGone
  BY DEF NotesInv
<1>1. /\ noteStep = "writing" /\ noteStep' = "flagging" /\ unread' = H!ToFlag /\ astray' = astray \cup passed
      /\ UNCHANGED <<shown, version, copy, flagged, notePage, read, passed>>
  BY DEF H!Written, H!Zupers
<1>2. unread' \subseteq HostNotes /\ \A n \in unread' : copy[n] # 0 /\ read[n] = 0
  BY <1>1 DEF H!ToFlag, H!Held, H!Absent
<1>3. NotesTyped'
  BY <1>0, <1>1, <1>2 DEF NotesTyped, H!Nothing
<1>4. PagesRead'
  BY <1>1 DEF PagesRead
<1>5. ASSUME NEW n \in unread' PROVE Gone(n)'
  <2>1. ASSUME NEW i \in 1 .. Len(shown), shown[i] = n PROVE n \in astray'
    <3>1. ReadSoFar(shown[i])
      BY <1>0, <1>1 DEF PagesRead
    <3> QED BY <1>1, <1>2, <1>5, <2>1, <3>1 DEF ReadSoFar
  <2> QED BY <1>1, <1>2, <1>5, <2>1 DEF Gone
<1>6. OnlyGone'
  BY <1>0, <1>1, <1>5 DEF OnlyGone, Gone
<1> QED BY <1>3, <1>4, <1>6 DEF NotesInv

LEMMA NoteFlagged ==
  ASSUME NotesInv, NEW n \in HostNotes, H!Flag(n)
  PROVE  NotesInv'
<1>0. NotesTyped /\ PagesRead /\ OnlyGone
  BY DEF NotesInv
<1>1. /\ noteStep = "flagging" /\ n \in unread /\ unread' = unread \ {n} /\ flagged' = flagged \cup {n}
      /\ UNCHANGED <<shown, version, copy, noteStep, notePage, read, passed, astray>>
  BY DEF H!Flag, H!Zupers
<1>2. NotesTyped'
  BY <1>0, <1>1 DEF NotesTyped, H!Nothing
<1>3. PagesRead' /\ OnlyGone'
  BY <1>0, <1>1 DEF PagesRead, OnlyGone, Gone
<1> QED BY <1>2, <1>3 DEF NotesInv

LEMMA NotesGoOn ==
  ASSUME NotePages, NotesInv, [H!Next]_(H!vars)
  PROVE  NotesInv'
<1>1. CASE H!ImportHost \/ UNCHANGED H!vars
  <2>1. UNCHANGED <<shown, version, copy, flagged, noteStep, notePage, read, unread, passed, astray>>
    BY <1>1 DEF H!ImportHost, H!vars
  <2> QED BY <2>1 DEF NotesInv, NotesTyped, PagesRead, ReadSoFar, OnlyGone, Gone, H!Nothing
<1>2. CASE H!Begin
  <2>1. /\ noteStep = "waiting" /\ noteStep' = "listing"
        /\ UNCHANGED <<shown, version, copy, flagged, notePage, read, unread, passed, astray>>
    BY <1>2 DEF H!Begin, H!Zupers
  <2>2. NotesTyped /\ OnlyGone
    BY DEF NotesInv
  <2>3. NotesTyped'
    BY <2>1, <2>2 DEF NotesTyped, H!Nothing
  <2>4. PagesRead'
    <3>1. notePage = 1 /\ NotePage \in Nat /\ Len(shown) \in Nat
      BY <2>1, <2>2 DEF NotesTyped, NotePages
    <3>2. (notePage - 1) * NotePage = 0
      BY <3>1
    <3>3. \A i \in 1 .. Len(shown) : ~(i <= (notePage - 1) * NotePage)
      BY <3>1, <3>2
    <3> QED BY <2>1, <3>3 DEF PagesRead
  <2>5. OnlyGone'
    BY <2>1, <2>2 DEF OnlyGone, Gone
  <2> QED BY <2>3, <2>4, <2>5 DEF NotesInv
<1>3. CASE H!NotImported \/ H!PageFails \/ H!WriteFails \/ H!FlagFails \/ H!End
  <2>1. H!Over /\ UNCHANGED <<shown, version, copy, flagged>> /\ astray \subseteq astray'
    BY <1>3 DEF H!NotImported, H!PageFails, H!WriteFails, H!FlagFails, H!End, H!Fail, H!Zupers
  <2> QED BY <2>1, OverStays
<1> QED BY <1>1, <1>2, <1>3, PageRead, AllWritten, NoteWritten, NoteFlagged, AddsNote, ChangesNote, RemovesNote
        DEF H!Next, H!Sync

LEMMA NotesAre ==
  ASSUME NotesInv
  PROVE  H!TypeOK
<1>1. NotesTyped
  BY DEF NotesInv
<1>2. \A n \in HostNotes : copy[n] <= version[n] /\ read[n] <= version[n]
  BY <1>1 DEF NotesTyped
<1>3. noteStep \in {"waiting", "listing", "writing", "flagging"} /\ notePage \in 1 .. Cardinality(HostNotes) + 1
  BY <1>1 DEF NotesTyped
<1>4. H!Cardinality(HostNotes) = Cardinality(HostNotes)
  BY DEF H!Cardinality, Cardinality
<1>5. /\ flagged \subseteq HostNotes /\ unread \subseteq HostNotes
      /\ noteStep = "waiting" => unread = {} /\ read = H!Nothing
  BY <1>1 DEF NotesTyped
<1> QED BY <1>2, <1>3, <1>4, <1>5 DEF H!TypeOK

(* No note that Zuper lists is marked deleted, however it is listed while notes come and go, and     *)
(* whatever fails: unless a page boundary passed over it, or, where deliveries carry no uid, it      *)
(* changed after it was read (astray).                                                               *)
ListedStand == \A n \in flagged : n \in H!InZuper => n \in astray
THEOREM ListedNotesStand ==
  ASSUME NotePages
  PROVE  H!Spec => []ListedStand
<1>1. NotesInv => ListedStand
  <2> SUFFICES ASSUME NotesInv, NEW n \in flagged, n \in H!InZuper PROVE n \in astray
    BY DEF ListedStand
  <2>1. PICK i \in DOMAIN shown : shown[i] = n
    BY DEF H!InZuper, H!ToSet
  <2>2. shown \in Seq(HostNotes) /\ Gone(n)
    BY DEF NotesInv, NotesTyped, OnlyGone
  <2>3. i \in 1 .. Len(shown)
    BY <2>1, <2>2
  <2> QED BY <2>1, <2>2, <2>3 DEF Gone
<1> QED BY <1>1, NotesBegin, NotesGoOn, PTL DEF H!Spec

(* --------------------------- The numbers of two systems --------------------------- *)

LEMMA LeastOf ==
  ASSUME NEW S \in SUBSET Nat, S # {}
  PROVE  \E x \in S : \A y \in S : x <= y
<1>1. PICK x \in S : \A y \in S : ~ (<<y, x>> \in OpToRel(<, Nat))
  BY NatLessThanWellFounded, WFMin
<1>2. ASSUME NEW y \in S PROVE x <= y
  <2>1. y < x => <<y, x>> \in OpToRel(<, Nat)
    BY DEF OpToRel
  <2>2. ~ (y < x)
    BY <1>1, <2>1
  <2> QED BY <2>2
<1> QED BY <1>2

(* The numbers of finitely many records are bounded: were those of the first k not, for the least   *)
(* such k, the bound of those before it would do, or the number of the k-th.                         *)
LEMMA HasBound ==
  ASSUME NEW S, IsFiniteSet(S), NEW f \in [S -> Nat]
  PROVE  \E b \in Nat : \A r \in S : f[r] <= b
<1> DEFINE n == Cardinality(S)
<1>1. n \in Nat /\ \E g \in [1 .. n -> S] : \A r \in S : \E i \in 1 .. n : g[i] = r
  <2>1. ExistsBijection(1 .. Cardinality(S), S) /\ Cardinality(S) \in Nat
    BY FS_CardinalityType
  <2>2. PICK g \in Bijection(1 .. Cardinality(S), S) : TRUE
    BY <2>1 DEF ExistsBijection
  <2>3. g \in [1 .. Cardinality(S) -> S] /\ \A r \in S : \E i \in 1 .. Cardinality(S) : g[i] = r
    BY <2>2 DEF Bijection, Surjection
  <2> QED BY <2>1, <2>3
<1> HIDE DEF n
<1>5. PICK g \in [1 .. n -> S] : \A r \in S : \E i \in 1 .. n : g[i] = r
  BY <1>1
<1> DEFINE Free(k) == ~ \E b \in Nat : \A i \in 1 .. k : f[g[i]] <= b
           loose == {k \in 0 .. n : Free(k)}
<1>2. loose = {}
  <2> SUFFICES ASSUME loose # {} PROVE FALSE
    OBVIOUS
  <2>1. PICK k \in loose : \A j \in loose : k <= j
    <3>1. loose \in SUBSET Nat
      OBVIOUS
    <3> HIDE DEF loose
    <3> QED BY <3>1, LeastOf
  <2>2. k # 0
    <3>1. \A i \in 1 .. 0 : f[g[i]] <= 0
      OBVIOUS
    <3>2. ~Free(0)
      BY <3>1
    <3> QED BY <2>1, <3>2
  <2>3. k \in Nat /\ k - 1 \in 0 .. n /\ k \in 1 .. n /\ ~(k <= k - 1)
    BY <1>1, <2>1, <2>2
  <2>4. ~Free(k - 1)
    BY <2>1, <2>3
  <2>5. PICK b \in Nat : \A i \in 1 .. k - 1 : f[g[i]] <= b
    BY <2>4
  <2>6. f[g[k]] \in Nat
    BY <1>5, <2>3
  <2>7. \A i \in 1 .. k : i \in 1 .. k - 1 \/ i = k
    BY <2>3
  <2>8. \A i \in 1 .. k - 1 : i \in 1 .. n
    BY <1>1, <2>3
  <2>9. \E m \in Nat : b <= m /\ f[g[k]] <= m
    <3> DEFINE v == f[g[k]]
    <3>1. v \in Nat /\ b \in Nat
      BY <2>5, <2>6
    <3> HIDE DEF v
    <3>2. \E m \in Nat : b <= m /\ v <= m
      <4>1. b + v \in Nat /\ b <= b + v /\ v <= b + v
        BY <3>1
      <4> QED BY <4>1
    <3> QED BY <3>2 DEF v
  <2>11. PICK m \in Nat : b <= m /\ f[g[k]] <= m
    BY <2>9
  <2>10. \A i \in 1 .. k : f[g[i]] <= m
    <3> SUFFICES ASSUME NEW i \in 1 .. k PROVE f[g[i]] <= m
      OBVIOUS
    <3>1. CASE i = k
      BY <2>11, <3>1
    <3>2. CASE i \in 1 .. k - 1
      <4>1. f[g[i]] <= b /\ f[g[i]] \in Nat
        BY <1>5, <2>5, <2>8, <3>2
      <4> DEFINE v == f[g[i]]
      <4>2. v \in Nat /\ v <= b /\ b \in Nat /\ m \in Nat /\ b <= m
        BY <2>5, <2>11, <4>1
      <4> HIDE DEF v
      <4>3. v <= m
        BY <4>2
      <4> QED BY <4>3 DEF v
    <3> QED BY <2>7, <3>1, <3>2
  <2> QED BY <2>1, <2>10, <2>11
<1>3. ~Free(n)
  <2>1. n \in 0 .. n
    BY <1>1
  <2> QED BY <1>2, <2>1
<1>4. PICK b \in Nat : \A i \in 1 .. n : f[g[i]] <= b
  BY <1>3
<1> QED BY <1>4, <1>5

(* The next number is past all there are. *)
LEMMA HighestIs ==
  ASSUME IsFiniteSet(R!Numbered), NEW f \in [R!Numbered -> Nat]
  PROVE  R!Highest(f) \in Nat /\ \A r \in R!Numbered : f[r] <= R!Highest(f)
<1> DEFINE all == {0} \cup {f[r] : r \in R!Numbered}
           U == {u \in Nat : \A x \in all : x <= u}
<1>0. all \subseteq Nat /\ 0 \in all
  OBVIOUS
<1>1. U # {}
  BY HasBound
<1>2. PICK u \in U : \A v \in U : u <= v
  <2>1. U \in SUBSET Nat
    OBVIOUS
  <2> HIDE DEF U
  <2> QED BY <1>1, <2>1, LeastOf
<1>3. u \in all
  <2> SUFFICES ASSUME u \notin all PROVE FALSE
    OBVIOUS
  <2>1. u \in Nat /\ \A x \in all : x \in Nat /\ x <= u /\ x # u
    BY <1>0, <1>2
  <2>2. u # 0 /\ u - 1 \in Nat
    BY <1>0, <2>1
  <2>3. \A x \in all : x <= u - 1
    BY <2>1, <2>2
  <2>4. u - 1 \in U
    BY <2>2, <2>3
  <2> QED BY <1>2, <2>1, <2>2, <2>4
<1>4. \E n \in all : \A r \in R!Numbered : f[r] <= n
  BY <1>2, <1>3
<1>5. R!Highest(f) \in all /\ \A r \in R!Numbered : f[r] <= R!Highest(f)
  BY <1>4 DEF R!Highest
<1> QED BY <1>0, <1>5

Stages == {"none", "refused", "found", "moving", "again"}
NumbersTyped ==
  /\ zuperNumber \in [R!Numbered -> Nat] /\ numberOf \in [R!Numbered -> Nat]
  /\ next \in [R!Numbered -> Nat] /\ moves \in [R!Numbered -> 0 .. R!Attempts - 1]
  /\ holder \in [R!Numbered -> R!Numbered] /\ import \in [R!Numbered -> Stages]
  /\ inBoth \subseteq R!Numbered /\ crossed \subseteq inBoth
  /\ dueNow \subseteq R!Numbered /\ failedNow \subseteq R!Numbered /\ allowed \in BOOLEAN

(* The index: no two rows hold one number. *)
OneHolds == \A r, q \in R!Numbered : r # q /\ numberOf[r] # 0 => numberOf[r] # numberOf[q]

(* What is imported or in both systems has Zuper's number, and a row that came from Zuper is mapped. *)
FromZupers ==
  /\ \A r \in R!Numbered : r \in inBoth \cup dueNow \cup failedNow \/ import[r] # "none" => zuperNumber[r] # 0
  /\ \A r \in FromZuper : numberOf[r] # 0 => r \in inBoth
  /\ \A r \in FromTuper : zuperNumber[r] # 0 => r \in inBoth

(* What is about to be moved out of the way was made in Tuper, and was not in Zuper when last asked. *)
Spared ==
  \A r \in R!Numbered :
    /\ import[r] \in {"found", "moving"} => holder[r] \in FromTuper \cup inBoth
    /\ import[r] = "moving" => holder[r] \notin inBoth \/ holder[r] \in crossed

NumbersInv == NumbersTyped /\ OneHolds /\ FromZupers /\ Spared

(* Made in one of the two systems, and finitely many. *)
MadeOnceIn == IsFiniteSet(R!Numbered) /\ FromZuper \cap FromTuper = {}

LEMMA NumbersBegin == R!Init => NumbersInv
BY DEF R!Init, NumbersInv, NumbersTyped, OneHolds, FromZupers, Spared, R!Numbered, R!Idle, R!Attempts, Stages

(* One record goes from stage to stage; the numbers stand. *)
LEMMA StageGoes ==
  ASSUME NumbersInv, NEW r \in R!Numbered, import[r] # "none",
         NEW to \in Stages, import' = [import EXCEPT ![r] = to],
         NEW h \in R!Numbered, holder' = [holder EXCEPT ![r] = h],
         next' \in [R!Numbered -> Nat], moves' \in [R!Numbered -> 0 .. R!Attempts - 1],
         to \in {"found", "moving"} => h \in FromTuper \cup inBoth,
         to = "moving" => h \notin inBoth \/ h \in crossed,
         failedNow' \in {failedNow, failedNow \cup {r}},
         UNCHANGED <<zuperNumber, numberOf, inBoth, dueNow, allowed, crossed>>
  PROVE  NumbersInv'
<1>1. /\ import'[r] = to /\ holder'[r] = h
      /\ \A q \in R!Numbered : q # r => import'[q] = import[q] /\ holder'[q] = holder[q]
      /\ R!Numbered' = R!Numbered
  BY DEF NumbersInv, NumbersTyped, R!Numbered
<1>2. NumbersTyped'
  BY <1>1 DEF NumbersInv, NumbersTyped
<1>3. OneHolds'
  BY <1>1 DEF NumbersInv, OneHolds
<1>4. FromZupers'
  BY <1>1 DEF NumbersInv, FromZupers
<1>5. Spared'
  <2>1. ASSUME NEW q \in R!Numbered
        PROVE  /\ import'[q] \in {"found", "moving"} => holder'[q] \in FromTuper \cup inBoth
               /\ import'[q] = "moving" => holder'[q] \notin inBoth \/ holder'[q] \in crossed
    <3>1. CASE q = r
      BY <1>1, <3>1
    <3>2. CASE q # r
      BY <1>1, <3>2 DEF NumbersInv, Spared
    <3> QED BY <3>1, <3>2
  <2> QED BY <1>1, <2>1 DEF Spared
<1> QED BY <1>2, <1>3, <1>4, <1>5 DEF NumbersInv

(* An import that fails is over, and due again later. *)
LEMMA FailGoes ==
  ASSUME NumbersInv, NEW r \in R!Numbered, import[r] # "none", R!Fail(r)
  PROVE  NumbersInv'
<1>1. /\ import' = [import EXCEPT ![r] = "none"] /\ holder' = [holder EXCEPT ![r] = r]
      /\ next' = [next EXCEPT ![r] = 0] /\ moves' = [moves EXCEPT ![r] = 0] /\ failedNow' = failedNow \cup {r}
      /\ UNCHANGED <<zuperNumber, numberOf, inBoth, dueNow, allowed, crossed>>
  BY DEF R!Fail, R!Over
<1>2. /\ "none" \in Stages /\ next' \in [R!Numbered -> Nat] /\ moves' \in [R!Numbered -> 0 .. R!Attempts - 1]
  BY <1>1 DEF NumbersInv, NumbersTyped, Stages, R!Attempts
<1> QED BY <1>1, <1>2, StageGoes

(* A record takes a number nobody else has: its own of Zuper, or the next of Tuper. *)
LEMMA NumberGoes ==
  ASSUME MadeOnceIn, NumbersInv, NEW h \in R!Numbered, NEW n \in Nat, n # 0, numberOf' = [numberOf EXCEPT ![h] = n],
         \A q \in R!Numbered : q # h => numberOf[q] # n
  PROVE  OneHolds'
<1>1. numberOf'[h] = n /\ \A q \in R!Numbered : q # h => numberOf'[q] = numberOf[q]
  BY DEF NumbersInv, NumbersTyped
<1>2. ASSUME NEW r \in R!Numbered, NEW q \in R!Numbered, r # q, numberOf'[r] # 0 PROVE numberOf'[r] # numberOf'[q]
  <2>1. CASE r = h
    BY <1>1, <1>2, <2>1
  <2>2. CASE r # h
    BY <1>1, <1>2, <2>2 DEF NumbersInv, OneHolds
  <2> QED BY <2>1, <2>2
<1>3. R!Numbered' = R!Numbered
  BY DEF R!Numbered
<1> QED BY <1>2, <1>3 DEF OneHolds

(* The row of a record is written under Zuper's number, and mapped. *)
LEMMA WriteGoes ==
  ASSUME MadeOnceIn, NumbersInv, NEW r \in R!Numbered, zuperNumber[r] # 0, ~R!Taken(zuperNumber[r], r),
         numberOf' = [numberOf EXCEPT ![r] = zuperNumber[r]], inBoth' = inBoth \cup {r},
         import' = [import EXCEPT ![r] = "none"],
         holder' \in {holder, [holder EXCEPT ![r] = r]}, next' \in {next, [next EXCEPT ![r] = 0]},
         moves' \in {moves, [moves EXCEPT ![r] = 0]}, dueNow' \subseteq dueNow,
         UNCHANGED <<zuperNumber, failedNow, allowed, crossed>>
  PROVE  NumbersInv'
<1>1. /\ import'[r] = "none" /\ numberOf'[r] = zuperNumber[r]
      /\ \A q \in R!Numbered : q # r => /\ import'[q] = import[q] /\ holder'[q] = holder[q]
                                        /\ numberOf'[q] = numberOf[q]
      /\ R!Numbered' = R!Numbered
  BY DEF NumbersInv, NumbersTyped, R!Numbered
<1>2. zuperNumber[r] \in Nat /\ \A q \in R!Numbered : q # r => numberOf[q] # zuperNumber[r]
  BY DEF NumbersInv, NumbersTyped, R!Taken
<1>3. OneHolds'
  BY <1>2, NumberGoes
<1>4. NumbersTyped'
  BY <1>1, <1>2 DEF NumbersInv, NumbersTyped, Stages, R!Attempts
<1>5. FromZupers'
  BY <1>1 DEF NumbersInv, FromZupers, NumbersTyped
<1>6. Spared'
  <2>1. ASSUME NEW q \in R!Numbered
        PROVE  /\ import'[q] \in {"found", "moving"} => holder'[q] \in FromTuper \cup inBoth'
               /\ import'[q] = "moving" => holder'[q] \notin inBoth' \/ holder'[q] \in crossed
    <3>1. CASE q = r
      BY <1>1, <3>1
    <3>2. CASE q # r
      <4>1. /\ import[q] \in {"found", "moving"} => holder[q] \in FromTuper \cup inBoth
            /\ import[q] = "moving" => holder[q] \notin inBoth \/ holder[q] \in crossed
        BY DEF NumbersInv, Spared
      <4>2. r \in FromTuper => r \in inBoth
        BY DEF NumbersInv, FromZupers
      <4> QED BY <1>1, <3>2, <4>1, <4>2
    <3> QED BY <3>1, <3>2
  <2> QED BY <1>1, <2>1 DEF Spared
<1> QED BY <1>3, <1>4, <1>5, <1>6 DEF NumbersInv

(* A row moves out of the way, to the next number. *)
LEMMA MovedGoes ==
  ASSUME MadeOnceIn, NumbersInv, NEW r \in R!Numbered, import[r] = "moving", NEW n \in Nat, n # 0, R!Moved(r, n),
         \A q \in R!Numbered : q # holder[r] => numberOf[q] # n,
         UNCHANGED <<zuperNumber, inBoth, dueNow, failedNow, holder, next, moves, allowed, crossed>>
  PROVE  NumbersInv'
<1> DEFINE h == holder[r]
<1>1. /\ h \in R!Numbered /\ numberOf' = [numberOf EXCEPT ![h] = n] /\ import' = [import EXCEPT ![r] = "again"]
      /\ R!Numbered' = R!Numbered
  BY DEF NumbersInv, NumbersTyped, R!Moved, R!To, R!Numbered
<1>2. OneHolds'
  BY <1>1, NumberGoes
<1>3. /\ import'[r] = "again" /\ \A q \in R!Numbered : q # r => import'[q] = import[q]
      /\ numberOf'[h] = n /\ \A q \in R!Numbered : q # h => numberOf'[q] = numberOf[q]
  BY <1>1 DEF NumbersInv, NumbersTyped
<1>4. NumbersTyped'
  BY <1>1 DEF NumbersInv, NumbersTyped, Stages
<1>5. h \in FromTuper \cup inBoth
  BY DEF NumbersInv, Spared
<1>6. FromZupers'
  <2>1. \A q \in FromZuper : numberOf'[q] # 0 => q \in inBoth
    <3> SUFFICES ASSUME NEW q \in FromZuper, numberOf'[q] # 0 PROVE q \in inBoth
      OBVIOUS
    <3>1. q \in R!Numbered
      BY DEF R!Numbered
    <3>2. CASE q = h
      BY <1>5, <3>2 DEF MadeOnceIn
    <3>3. CASE q # h
      BY <1>3, <3>1, <3>3 DEF NumbersInv, FromZupers
    <3> QED BY <3>2, <3>3
  <2>2. \A q \in R!Numbered : q \in inBoth \cup dueNow \cup failedNow \/ import'[q] # "none" => zuperNumber[q] # 0
    BY <1>3 DEF NumbersInv, FromZupers
  <2> QED BY <1>1, <2>1, <2>2 DEF NumbersInv, FromZupers
<1>7. Spared'
  <2>1. ASSUME NEW q \in R!Numbered
        PROVE  /\ import'[q] \in {"found", "moving"} => holder[q] \in FromTuper \cup inBoth
               /\ import'[q] = "moving" => holder[q] \notin inBoth \/ holder[q] \in crossed
    BY <1>3 DEF NumbersInv, Spared
  <2> QED BY <1>1, <2>1 DEF Spared
<1> QED BY <1>2, <1>4, <1>6, <1>7 DEF NumbersInv

(* A record is made in one of the systems, or pushed from one to the other. *)
LEMMA MakeGoes ==
  ASSUME MadeOnceIn, NumbersInv, NEW r \in R!Numbered, R!Make(r)
  PROVE  NumbersInv'
<1>0. /\ zuperNumber \in [R!Numbered -> Nat] /\ numberOf \in [R!Numbered -> Nat] /\ IsFiniteSet(R!Numbered)
      /\ R!Numbered' = R!Numbered
  BY DEF NumbersInv, NumbersTyped, MadeOnceIn, R!Numbered
<1>1. CASE R!ZuperMakes(r)
  <2> DEFINE n == R!Highest(zuperNumber) + 1
  <2>1. n \in Nat /\ n # 0
    BY <1>0, HighestIs
  <2>2. /\ r \in FromZuper /\ zuperNumber' = [zuperNumber EXCEPT ![r] = n] /\ dueNow' = dueNow \cup {r}
        /\ UNCHANGED <<numberOf, inBoth, failedNow, import, holder, next, moves, allowed, crossed>>
    BY <1>1 DEF R!ZuperMakes
  <2> HIDE DEF n
  <2>3. zuperNumber'[r] = n /\ \A q \in R!Numbered : q # r => zuperNumber'[q] = zuperNumber[q]
    BY <1>0, <2>2
  <2>4. NumbersTyped'
    BY <1>0, <2>1, <2>2 DEF NumbersInv, NumbersTyped
  <2>5. OneHolds'
    BY <1>0, <2>2 DEF NumbersInv, OneHolds
  <2>6. FromZupers'
    <3>1. \A q \in R!Numbered : q \in inBoth \cup dueNow' \cup failedNow \/ import[q] # "none" => zuperNumber'[q] # 0
      BY <2>1, <2>2, <2>3 DEF NumbersInv, FromZupers
    <3>2. \A q \in FromTuper : q \in R!Numbered /\ q # r
      BY <2>2 DEF MadeOnceIn, R!Numbered
    <3>3. \A q \in FromTuper : zuperNumber'[q] # 0 => q \in inBoth
      BY <2>3, <3>2 DEF NumbersInv, FromZupers
    <3> QED BY <1>0, <2>2, <3>1, <3>3 DEF NumbersInv, FromZupers
  <2>7. Spared'
    BY <1>0, <2>2 DEF NumbersInv, Spared
  <2> QED BY <2>4, <2>5, <2>6, <2>7 DEF NumbersInv
<1>2. CASE R!TuperMakes(r)
  <2> DEFINE n == R!Highest(numberOf) + 1
  <2>1. n \in Nat /\ n # 0 /\ \A q \in R!Numbered : numberOf[q] # n
    <3>1. R!Highest(numberOf) \in Nat /\ \A q \in R!Numbered : numberOf[q] <= R!Highest(numberOf) /\ numberOf[q] \in Nat
      BY <1>0, HighestIs
    <3> QED BY <3>1
  <2>2. /\ r \in FromTuper /\ numberOf' = [numberOf EXCEPT ![r] = n]
        /\ UNCHANGED <<zuperNumber, inBoth, dueNow, failedNow, import, holder, next, moves, allowed, crossed>>
    BY <1>2 DEF R!TuperMakes
  <2> HIDE DEF n
  <2>3. OneHolds'
    BY <2>1, <2>2, NumberGoes
  <2>4. NumbersTyped'
    BY <1>0, <2>1, <2>2 DEF NumbersInv, NumbersTyped
  <2>5. FromZupers'
    <3>1. \A q \in FromZuper : q \in R!Numbered /\ q # r
      BY <2>2 DEF MadeOnceIn, R!Numbered
    <3>2. \A q \in FromZuper : numberOf'[q] # 0 => q \in inBoth
      BY <1>0, <2>2, <3>1 DEF NumbersInv, FromZupers
    <3> QED BY <1>0, <2>2, <3>2 DEF NumbersInv, FromZupers
  <2>6. Spared'
    BY <1>0, <2>2 DEF NumbersInv, Spared
  <2> QED BY <2>3, <2>4, <2>5, <2>6 DEF NumbersInv
<1>3. CASE R!Push(r)
  <2> DEFINE n == R!Highest(zuperNumber) + 1
             met == IF \E s \in R!Numbered : import[s] = "moving" /\ holder[s] = r THEN {r} ELSE {}
  <2>1. n \in Nat /\ n # 0
    BY <1>0, HighestIs
  <2>2. /\ r \in FromTuper /\ zuperNumber' = [zuperNumber EXCEPT ![r] = n] /\ dueNow' = dueNow \cup {r}
        /\ inBoth' = inBoth \cup {r} /\ crossed' = crossed \cup met
        /\ UNCHANGED <<numberOf, failedNow, import, holder, next, moves, allowed>>
    BY <1>3 DEF R!Push
  <2> HIDE DEF n
  <2>3. met \subseteq {r} /\ \A s \in R!Numbered : import[s] = "moving" /\ holder[s] = r => r \in met
    OBVIOUS
  <2> HIDE DEF met
  <2>4. zuperNumber'[r] = n /\ \A q \in R!Numbered : q # r => zuperNumber'[q] = zuperNumber[q]
    BY <1>0, <2>2
  <2>5. NumbersTyped'
    BY <1>0, <2>1, <2>2, <2>3 DEF NumbersInv, NumbersTyped
  <2>6. OneHolds'
    BY <1>0, <2>2 DEF NumbersInv, OneHolds
  <2>7. FromZupers'
    <3>1. \A q \in R!Numbered : q \in inBoth' \cup dueNow' \cup failedNow \/ import[q] # "none" => zuperNumber'[q] # 0
      BY <2>1, <2>2, <2>4 DEF NumbersInv, FromZupers
    <3>2. \A q \in FromTuper : q \in R!Numbered
      BY DEF R!Numbered
    <3>3. \A q \in FromTuper : zuperNumber'[q] # 0 => q \in inBoth'
      BY <2>2, <2>4, <3>2 DEF NumbersInv, FromZupers
    <3>4. \A q \in FromZuper : numberOf[q] # 0 => q \in inBoth'
      BY <2>2 DEF NumbersInv, FromZupers
    <3> QED BY <1>0, <2>2, <3>1, <3>3, <3>4 DEF FromZupers
  <2>8. Spared'
    <3>1. ASSUME NEW q \in R!Numbered
          PROVE  /\ import[q] \in {"found", "moving"} => holder[q] \in FromTuper \cup inBoth'
                 /\ import[q] = "moving" => holder[q] \notin inBoth' \/ holder[q] \in crossed'
      BY <2>2, <2>3 DEF NumbersInv, Spared
    <3> QED BY <1>0, <2>2, <3>1 DEF Spared
  <2> QED BY <2>5, <2>6, <2>7, <2>8 DEF NumbersInv
<1> QED BY <1>1, <1>2, <1>3 DEF R!Make

LEMMA ImportGoes ==
  ASSUME MadeOnceIn, NumbersInv, NEW r \in R!Numbered, R!Import(r)
  PROVE  NumbersInv'
<1>0. /\ zuperNumber \in [R!Numbered -> Nat] /\ numberOf \in [R!Numbered -> Nat] /\ IsFiniteSet(R!Numbered)
      /\ R!Numbered' = R!Numbered /\ next \in [R!Numbered -> Nat] /\ moves \in [R!Numbered -> 0 .. R!Attempts - 1]
      /\ holder \in [R!Numbered -> R!Numbered] /\ import \in [R!Numbered -> Stages]
      /\ import[r] # "none" => zuperNumber[r] # 0
  BY DEF NumbersInv, NumbersTyped, MadeOnceIn, R!Numbered, FromZupers
<1>1. CASE R!Begin(r)
  <2>1. /\ r \in dueNow /\ import[r] = "none" /\ dueNow' = dueNow \ {r}
        /\ UNCHANGED <<zuperNumber, failedNow, holder, next, moves, allowed, crossed>>
        /\ \/ import' = [import EXCEPT ![r] = "refused"] /\ UNCHANGED <<numberOf, inBoth>>
           \/ /\ ~R!Taken(zuperNumber[r], r) /\ numberOf' = [numberOf EXCEPT ![r] = zuperNumber[r]]
              /\ inBoth' = inBoth \cup {r} /\ UNCHANGED import
    BY <1>1 DEF R!Begin, R!To
  <2>2. zuperNumber[r] # 0
    BY <2>1 DEF NumbersInv, FromZupers
  <2>3. CASE /\ ~R!Taken(zuperNumber[r], r) /\ numberOf' = [numberOf EXCEPT ![r] = zuperNumber[r]]
             /\ inBoth' = inBoth \cup {r} /\ UNCHANGED import
    <3>1. import' = [import EXCEPT ![r] = "none"]
      BY <1>0, <2>1, <2>3
    <3> QED BY <2>1, <2>2, <2>3, <3>1, WriteGoes
  <2>4. CASE import' = [import EXCEPT ![r] = "refused"] /\ UNCHANGED <<numberOf, inBoth>>
    <3>1. import'[r] = "refused" /\ \A q \in R!Numbered : q # r => import'[q] = import[q]
      BY <1>0, <2>4
    <3>2. NumbersTyped'
      BY <1>0, <2>1, <2>4 DEF NumbersInv, NumbersTyped, Stages
    <3>3. OneHolds'
      BY <1>0, <2>4 DEF NumbersInv, OneHolds
    <3>4. FromZupers'
      BY <1>0, <2>1, <2>2, <2>4, <3>1 DEF NumbersInv, FromZupers
    <3>5. ASSUME NEW q \in R!Numbered
          PROVE  /\ import'[q] \in {"found", "moving"} => holder[q] \in FromTuper \cup inBoth
                 /\ import'[q] = "moving" => holder[q] \notin inBoth \/ holder[q] \in crossed
      BY <3>1 DEF NumbersInv, Spared
    <3>6. Spared'
      BY <1>0, <2>1, <2>4, <3>5 DEF Spared
    <3> QED BY <3>2, <3>3, <3>4, <3>6 DEF NumbersInv
  <2> QED BY <2>1, <2>3, <2>4
<1>2. CASE R!Find(r)
  <2>1. CASE ~R!Taken(zuperNumber[r], r)
    BY <1>2, <2>1, FailGoes DEF R!Find
  <2>2. CASE R!Taken(zuperNumber[r], r)
    <3>1. PICK h \in R!Numbered \ {r} : /\ numberOf[h] = zuperNumber[r] /\ holder' = [holder EXCEPT ![r] = h]
                                        /\ import[r] = "refused" /\ import' = [import EXCEPT ![r] = "found"]
      <4> DEFINE g == CHOOSE h \in R!Numbered \ {r} : numberOf[h] = zuperNumber[r]
      <4>1. g \in R!Numbered \ {r} /\ numberOf[g] = zuperNumber[r]
        BY <2>2 DEF R!Taken
      <4>2. /\ import[r] = "refused" /\ holder' = [holder EXCEPT ![r] = g] /\ import' = [import EXCEPT ![r] = "found"]
        BY <1>2, <2>2 DEF R!Find, R!To
      <4> QED BY <4>1, <4>2
    <3>2. UNCHANGED <<zuperNumber, numberOf, inBoth, dueNow, failedNow, next, moves, allowed, crossed>>
      BY <1>2, <2>2 DEF R!Find
    <3>5. h \in R!Numbered
      BY <3>1
    <3>3. h \in FromTuper \cup inBoth
      <4>1. numberOf[h] # 0
        BY <1>0, <3>1, <3>2
      <4> QED BY <3>1, <4>1 DEF NumbersInv, FromZupers, R!Numbered
    <3>4. next' \in [R!Numbered -> Nat] /\ moves' \in [R!Numbered -> 0 .. R!Attempts - 1] /\ "found" \in Stages
      BY <1>0, <3>2 DEF Stages
    <3> QED BY <3>1, <3>2, <3>3, <3>4, <3>5, StageGoes
  <2> QED BY <2>1, <2>2
<1>3. CASE R!Check(r)
  <2>1. CASE holder[r] \in inBoth
    BY <1>3, <2>1, FailGoes DEF R!Check
  <2>2. CASE holder[r] \notin inBoth
    <3>1. /\ import[r] = "found" /\ import' = [import EXCEPT ![r] = "moving"]
          /\ UNCHANGED <<zuperNumber, numberOf, inBoth, dueNow, failedNow, holder, next, moves, allowed, crossed>>
      BY <1>3, <2>2 DEF R!Check, R!To
    <3>2. holder[r] \in R!Numbered /\ holder[r] \in FromTuper \cup inBoth
      BY <1>0, <3>1 DEF NumbersInv, Spared
    <3>3. next' \in [R!Numbered -> Nat] /\ moves' \in [R!Numbered -> 0 .. R!Attempts - 1]
          /\ holder' = [holder EXCEPT ![r] = holder[r]] /\ "moving" \in Stages
      BY <1>0, <3>1 DEF Stages
    <3> QED BY <2>2, <3>1, <3>2, <3>3, StageGoes
  <2> QED BY <2>1, <2>2
<1>4. CASE R!Renumber(r)
  <2> DEFINE n == R!Highest(numberOf) + 1
  <2>1. n \in Nat /\ n # 0 /\ \A q \in R!Numbered : numberOf[q] # n
    <3>1. R!Highest(numberOf) \in Nat /\ \A q \in R!Numbered : numberOf[q] <= R!Highest(numberOf) /\ numberOf[q] \in Nat
      BY <1>0, HighestIs
    <3> QED BY <3>1
  <2>2. /\ import[r] = "moving" /\ R!Moved(r, n)
        /\ UNCHANGED <<zuperNumber, inBoth, dueNow, failedNow, holder, next, moves, allowed, crossed>>
    BY <1>4 DEF R!Renumber
  <2> HIDE DEF n
  <2> QED BY <2>1, <2>2, MovedGoes
<1>5. CASE R!AskNext(r)
  <2> DEFINE n == R!Highest(numberOf) + 1
  <2>1. n \in Nat
    BY <1>0, HighestIs
  <2>2. /\ import[r] = "moving" /\ next' = [next EXCEPT ![r] = n]
        /\ UNCHANGED <<zuperNumber, numberOf, inBoth, dueNow, failedNow, import, holder, moves, allowed, crossed>>
    BY <1>5 DEF R!AskNext
  <2> HIDE DEF n
  <2>3. import' = [import EXCEPT ![r] = "moving"] /\ next' \in [R!Numbered -> Nat]
        /\ moves' \in [R!Numbered -> 0 .. R!Attempts - 1]
        /\ holder' = [holder EXCEPT ![r] = holder[r]] /\ holder[r] \in R!Numbered /\ "moving" \in Stages
    BY <1>0, <2>1, <2>2 DEF Stages
  <2>4. holder[r] \in FromTuper \cup inBoth /\ (holder[r] \notin inBoth \/ holder[r] \in crossed)
    BY <2>2 DEF NumbersInv, Spared
  <2> QED BY <2>1, <2>2, <2>3, <2>4, StageGoes
<1>6. CASE R!MoveToNext(r)
  <2>1. import[r] = "moving" /\ next[r] # 0 /\ next[r] \in Nat /\ holder[r] \in R!Numbered
    BY <1>0, <1>6 DEF R!MoveToNext
  <2>2. CASE /\ ~R!Taken(next[r], holder[r]) /\ R!Moved(r, next[r])
             /\ UNCHANGED <<zuperNumber, inBoth, dueNow, failedNow, holder, next, moves, allowed, crossed>>
    <3>1. \A q \in R!Numbered : q # holder[r] => numberOf[q] # next[r]
      BY <2>2 DEF R!Taken
    <3> QED BY <2>1, <2>2, <3>1, MovedGoes
  <2>3. CASE /\ moves[r] + 1 < R!Attempts
             /\ next' = [next EXCEPT ![r] = 0] /\ moves' = [moves EXCEPT ![r] = @ + 1]
             /\ UNCHANGED <<zuperNumber, numberOf, inBoth, dueNow, failedNow, import, holder, allowed, crossed>>
    <3>1. import' = [import EXCEPT ![r] = "moving"] /\ next' \in [R!Numbered -> Nat]
          /\ moves' \in [R!Numbered -> 0 .. R!Attempts - 1]
          /\ holder' = [holder EXCEPT ![r] = holder[r]] /\ holder[r] \in R!Numbered /\ "moving" \in Stages
      BY <1>0, <2>1, <2>3 DEF Stages, R!Attempts
    <3>2. holder[r] \in FromTuper \cup inBoth /\ (holder[r] \notin inBoth \/ holder[r] \in crossed)
      BY <2>1 DEF NumbersInv, Spared
    <3> QED BY <2>1, <2>3, <3>1, <3>2, StageGoes
  <2>4. CASE R!Fail(r)
    BY <2>1, <2>4, FailGoes
  <2> QED BY <1>6, <2>2, <2>3, <2>4 DEF R!MoveToNext
<1>7. CASE R!Again(r)
  <2>1. CASE R!Taken(zuperNumber[r], r)
    BY <1>7, <2>1, FailGoes DEF R!Again
  <2>2. CASE ~R!Taken(zuperNumber[r], r)
    BY <1>0, <1>7, <2>2, WriteGoes DEF R!Again, R!Write, R!Over
  <2> QED BY <2>1, <2>2
<1> QED BY <1>1, <1>2, <1>3, <1>4, <1>5, <1>6, <1>7 DEF R!Import

LEMMA NumbersGoOn ==
  ASSUME MadeOnceIn, NumbersInv, [R!Next]_(R!vars)
  PROVE  NumbersInv'
<1>0. R!Numbered' = R!Numbered
  BY DEF R!Numbered
<1>1. CASE R!ReplayPass
  <2>1. /\ dueNow' = failedNow /\ failedNow' = {}
        /\ UNCHANGED <<zuperNumber, numberOf, inBoth, import, holder, next, moves, allowed, crossed>>
    BY <1>1 DEF R!ReplayPass
  <2> QED BY <1>0, <2>1 DEF NumbersInv, NumbersTyped, OneHolds, FromZupers, Spared
<1>2. CASE UNCHANGED R!vars
  BY <1>0, <1>2 DEF R!vars, NumbersInv, NumbersTyped, OneHolds, FromZupers, Spared
<1> QED BY <1>1, <1>2, MakeGoes, ImportGoes DEF R!Next, R!Work

LEMMA NumbersAre ==
  ASSUME NumbersInv
  PROVE  R!TypeOK
BY DEF NumbersInv, NumbersTyped, OneHolds, R!TypeOK, R!Attempts

(* A record in both systems that holds Zuper's number keeps it, unless it was pushed between the    *)
(* check and the move of a record in its way.                                                        *)
KeepsNumber(r) == r \in inBoth /\ numberOf[r] = zuperNumber[r]
NumbersStay == [][\A r \in R!Numbered : KeepsNumber(r) /\ r \notin crossed' => KeepsNumber(r)']_(R!vars)

LEMMA NumberKept ==
  ASSUME MadeOnceIn, NumbersInv, R!Next, NEW r \in R!Numbered, KeepsNumber(r), r \notin crossed'
  PROVE  KeepsNumber(r)'
<1>0. /\ zuperNumber \in [R!Numbered -> Nat] /\ numberOf \in [R!Numbered -> Nat]
      /\ r \in inBoth /\ numberOf[r] = zuperNumber[r] /\ zuperNumber[r] # 0
  BY DEF NumbersInv, NumbersTyped, FromZupers, KeepsNumber
<1>1. CASE R!ReplayPass
  BY <1>0, <1>1 DEF R!ReplayPass, KeepsNumber
<1>2. ASSUME NEW q \in R!Numbered, R!Make(q) PROVE KeepsNumber(r)'
  <2>1. CASE R!ZuperMakes(q)
    BY <1>0, <2>1 DEF R!ZuperMakes, KeepsNumber
  <2>2. CASE R!TuperMakes(q)
    BY <1>0, <2>2 DEF R!TuperMakes, KeepsNumber
  <2>3. CASE R!Push(q)
    BY <1>0, <2>3 DEF R!Push, KeepsNumber
  <2> QED BY <1>2, <2>1, <2>2, <2>3 DEF R!Make
<1>3. ASSUME NEW q \in R!Numbered, R!Import(q) PROVE KeepsNumber(r)'
  <2>1. \/ UNCHANGED <<zuperNumber, numberOf, inBoth>>
        \/ /\ zuperNumber' = zuperNumber /\ numberOf' = [numberOf EXCEPT ![q] = zuperNumber[q]]
           /\ inBoth' = inBoth \cup {q}
        \/ /\ import[q] = "moving" /\ UNCHANGED <<zuperNumber, inBoth, crossed>>
           /\ \E n : numberOf' = [numberOf EXCEPT ![holder[q]] = n]
    BY <1>3 DEF R!Import, R!Begin, R!Find, R!Check, R!Renumber, R!AskNext, R!MoveToNext, R!Again, R!Fail, R!Write,
                R!Moved
  <2>2. CASE UNCHANGED <<zuperNumber, numberOf, inBoth>>
    BY <1>0, <2>2 DEF KeepsNumber
  <2>3. CASE /\ zuperNumber' = zuperNumber /\ numberOf' = [numberOf EXCEPT ![q] = zuperNumber[q]]
             /\ inBoth' = inBoth \cup {q}
    BY <1>0, <2>3 DEF KeepsNumber
  <2>4. CASE /\ import[q] = "moving" /\ UNCHANGED <<zuperNumber, inBoth, crossed>>
             /\ \E n : numberOf' = [numberOf EXCEPT ![holder[q]] = n]
    <3>1. holder[q] # r
      BY <1>0, <2>4 DEF NumbersInv, Spared
    <3> QED BY <1>0, <2>4, <3>1 DEF KeepsNumber
  <2> QED BY <2>1, <2>2, <2>3, <2>4
<1> QED BY <1>1, <1>2, <1>3 DEF R!Next, R!Work

THEOREM NumbersAreKept ==
  ASSUME MadeOnceIn
  PROVE  R!Spec => NumbersStay
<1>1. NumbersInv /\ [R!Next]_(R!vars)
      => [\A r \in R!Numbered : KeepsNumber(r) /\ r \notin crossed' => KeepsNumber(r)']_(R!vars)
  BY NumberKept
<1> QED BY <1>1, NumbersBegin, NumbersGoOn, PTL DEF R!Spec, NumbersStay

(* ------------------------------ What it all comes to ----------------------------- *)

(* No record, no record it names and no item of its lists is given a second row by records that race,  *)
(* by calls that fail and are made again or by passes that stop; and what a pass has counted as        *)
(* written is linked to no other row than the one the database maps. That is all but what NoTwin,      *)
(* WrittenIsLinked and RowsStand name: a plain insert is done again where its mapping was refused and  *)
(* nobody read that, or where its answer was lost, and makers that share no attempt may race where the *)
(* setting runs their pass wider. For any records, lists and passes of any maker and writer of the     *)
(* catalogue.                                                                                          *)
THEOREM NoRowTwice ==
  ASSUME Records \subseteq Nat
  PROVE  I!Spec /\ C!Spec => []NoSecondRow
<1>1. I!Init => PassInv
  BY PassBegins
<1>2. PassInv /\ [I!Next]_(I!vars) => PassInv'
  BY PassKeeps
<1>3. C!Init => RowInv
  BY RowsBegin
<1>4. RowInv /\ [C!Next]_(C!childVars) => RowInv'
  BY RowsGoOn
<1>5. PassInv /\ RowInv => NoSecondRow
  BY PassStands, RowsKept DEF NoSecondRow
<1> QED BY <1>1, <1>2, <1>3, <1>4, <1>5, PTL DEF I!Spec, C!Spec

(* A walk over a list that ends by itself has read every record that was there from the start, or has  *)
(* said that it skipped it, however the list grew meanwhile and whatever calls failed and were made    *)
(* again: for lists and pages of any length. A page may be cut short by Zuper, never made longer, and  *)
(* no record leaves the list under the walk.                                                           *)
THEOREM NothingIsMissed ==
  ASSUME Sizes
  PROVE  L!Spec => []NothingMissed
<1>1. WalkInv /\ [L!Next]_(L!listVars) => WalkInv'
  BY WalkStays
<1>2. L!Init => WalkInv
  BY WalkBegins
<1>3. WalkInv => NothingMissed
  BY DEF WalkInv, NothingMissed
<1> QED BY <1>1, <1>2, <1>3, PTL DEF L!Spec

(* However the reads, comparisons and writes of records and of runs cross: as long as what each newest *)
(* record met was compared with is what was stored as it was written (and it had a time, and its call  *)
(* did not fail, and it did not only agree), the newest one met says what a custom field is. And while *)
(* records come one at a time that is what they are compared with: what a run has in memory is what is *)
(* stored. For any number of runs, lanes, times and kinds; a time is positive, zero is a record        *)
(* without one.                                                                                        *)
THEOREM NewestIsKept ==
  ASSUME Timed
  PROVE  F!Spec => []NewestDecides
<1>1. FieldInv /\ [F!Next]_(F!vars) => FieldInv'
  BY FieldsKeep
<1> QED BY <1>1, FieldsBegin, FieldsStand, PTL DEF F!Spec

(* What the constants are in every run: records in the order of the list they come in, pages that  *)
(* hold something, and calls that are made at all.                                                 *)
Runs ==
  /\ Records \subseteq Nat /\ IsFiniteSet(Records)
  /\ Sizes /\ Tries \in Nat \ {0}
  /\ Timed
  /\ IsFiniteSet(Named) /\ MaxTries \in Nat
  /\ NotePages /\ MadeOnceIn

LEMMA EachBegins ==
  ASSUME Runs, MCInit
  PROVE  /\ ImportInv /\ RowInv /\ KnownHere /\ WalkInv /\ Tried /\ FieldInv
         /\ IInv /\ Tallied /\ NotesInv /\ NumbersInv
<1>1. I!Init /\ C!Init /\ L!Init /\ F!Init /\ Init /\ H!Init /\ R!Init
  BY DEF MCInit
<1>2. ImportInv /\ RowInv /\ KnownHere
  BY <1>1, ImportBegins, RowsBegin, KnownBegins DEF Runs
<1>3. WalkInv /\ Tried /\ FieldInv
  BY <1>1, WalkBegins, TriedBegins, FieldsBegin DEF Runs
<1>4. IInv /\ Tallied
  BY <1>1, InitInv, TalliedBegins DEF Runs
<1>5. NotesInv /\ NumbersInv
  BY <1>1, NotesBegin, NumbersBegin DEF Runs
<1> QED BY <1>2, <1>3, <1>4, <1>5

(* One of them works and the others stand still. *)
LEMMA EachGoesOn ==
  ASSUME [MCNext]_mcVars
  PROVE  /\ [I!Next]_(I!vars) /\ [C!Next]_(C!childVars) /\ [L!Next]_(L!listVars) /\ [F!Next]_(F!vars)
         /\ [Next]_vars /\ [H!Next]_(H!vars) /\ [R!Next]_(R!vars)
<1>1. /\ UNCHANGED importVars => UNCHANGED I!vars
      /\ UNCHANGED rowVars => UNCHANGED C!childVars
      /\ UNCHANGED walkVars => UNCHANGED L!listVars
      /\ UNCHANGED fieldVars => UNCHANGED F!vars
  BY DEF importVars, I!vars, rowVars, C!childVars, walkVars, L!listVars, fieldVars, F!vars
<1>2. /\ UNCHANGED noteVars => UNCHANGED H!vars
      /\ UNCHANGED numberVars => UNCHANGED R!vars
  BY DEF noteVars, H!vars, numberVars, R!vars
<1>3. UNCHANGED mcVars => UNCHANGED <<vars, importVars, rowVars, walkVars, fieldVars, noteVars, numberVars>>
  BY DEF mcVars
<1>4. MCNext => /\ I!Next \/ UNCHANGED importVars
                /\ C!Next \/ UNCHANGED rowVars
                /\ L!Next \/ UNCHANGED walkVars
                /\ F!Next \/ UNCHANGED fieldVars
                /\ Next \/ UNCHANGED vars
                /\ H!Next \/ UNCHANGED noteVars
                /\ R!Next \/ UNCHANGED numberVars
  BY DEF MCNext, Others
<1> QED BY <1>1, <1>2, <1>3, <1>4

(* The mechanisms side by side, as the runs have them: each goes on by itself while the others stand   *)
(* still, so what holds of each holds of them together. No record, named record or item has a second   *)
(* row, no walk misses a record of a list that only grows, the newest record decides, a delivery that  *)
(* is closed is done and no record Zuper has is marked deleted, each but for the exceptions the        *)
(* property of its module names; and every part is in its types.                                       *)
THEOREM SideBySide ==
  ASSUME Runs
  PROVE  MCSpec => []( /\ NoSecondRow /\ NothingMissed /\ NewestDecides
                       /\ ClosedIsDone /\ DeletedIsGone /\ TypesOK )
<1> DEFINE AllInv == /\ ImportInv /\ RowInv /\ KnownHere /\ WalkInv /\ Tried /\ FieldInv
                     /\ IInv /\ Tallied /\ NotesInv /\ NumbersInv
<1>1. MCInit => AllInv
  BY EachBegins
<1>2. AllInv /\ [MCNext]_mcVars => AllInv'
  <2> SUFFICES ASSUME AllInv, [MCNext]_mcVars PROVE AllInv'
    OBVIOUS
  <2>1. PassInv' /\ CountFits'
    BY EachGoesOn, PassKeeps, CountStays DEF ImportInv, Runs
  <2>2. RowInv' /\ KnownHere'
    BY EachGoesOn, RowsGoOn, KnownStays
  <2>3. WalkInv' /\ Tried'
    BY EachGoesOn, WalkStays, TriedStays DEF Runs, WalkInv
  <2>4. FieldInv'
    BY EachGoesOn, FieldsKeep DEF Runs
  <2>5. IInv' /\ Tallied'
    BY EachGoesOn, NextInv, TalliedGoesOn DEF Runs, IInv
  <2>6. NotesInv' /\ NumbersInv'
    BY EachGoesOn, NotesGoOn, NumbersGoOn DEF Runs
  <2> QED BY <2>1, <2>2, <2>3, <2>4, <2>5, <2>6 DEF ImportInv
<1>3. AllInv => /\ NoSecondRow /\ NothingMissed /\ NewestDecides
                /\ ClosedIsDone /\ DeletedIsGone /\ TypesOK
  <2> SUFFICES ASSUME AllInv PROVE /\ NoSecondRow /\ NothingMissed /\ NewestDecides
                                   /\ ClosedIsDone /\ DeletedIsGone /\ TypesOK
    OBVIOUS
  <2>1. NoSecondRow /\ NothingMissed /\ NewestDecides
    BY PassStands, RowsKept, FieldsStand DEF ImportInv, NoSecondRow, WalkInv, NothingMissed
  <2>2. ClosedIsDone /\ DeletedIsGone
    BY DEF IInv
  <2>3. I!TypeOK /\ C!TypeOK /\ L!TypeOK /\ F!TypeOK
    BY ImportsAre, KnownAre, WalksAre, FieldsStand
  <2>4. TypeOK /\ H!TypeOK /\ R!TypeOK
    BY DeliveriesAre, NotesAre, NumbersAre DEF IInv
  <2> QED BY <2>1, <2>2, <2>3, <2>4 DEF TypesOK
<1> QED BY <1>1, <1>2, <1>3, PTL DEF MCSpec
==============================================================================
