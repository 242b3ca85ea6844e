# Open Help Desk: TLA+ models and proofs

Open Help Desk is a ticketing system: a Go HTTP server (`backend/`) over one PostgreSQL database, with
a React client (`frontend/`). This directory holds formal models of its core, the configurations that
check them with TLC and the proofs that TLAPS checks.

Paths below are relative to `backend/internal/` unless they start with `docs/` or `backend/`.

## 1. The system

### 1.1 How it runs

`backend/cmd/server/main.go` migrates the database, loads the ids of the system statuses, builds one
service per domain and serves HTTP. Everything after that happens in request handlers, one goroutine
each. There is no background job, no queue and no in-process scheduler.

What makes the behaviour hard:

* **No transactions.** No operation opens one. An operation is a sequence of separate statements,
  and any other request may run between two of them. What is shown to a person is put together from
  several statements too: the list of "mine", the counts beside the statuses, the form for a new ticket.
* **Whole-row writes.** `Store.Update` of a ticket (and of a user, a status, a policy, a custom field, an
  SLA record) writes columns back from a snapshot read earlier. There is no version column and no row lock.
* **Dropped errors.** The history row of a status change, the update of an automatic reopening, SLA
  calls, notifications and audit rows are written with `_ =` in front. A setting whose read fails is an
  empty setting; a tag, a subject or an address whose look-up fails is one that is not there.
* **`r.Context()` everywhere.** A client that hangs up cancels the statements that have not run yet.
* **Caches against editable tables.** The ids of New, Resolved and Closed are cached at the start,
  looked up by name; elsewhere the code compares names; names are editable. The identity providers are
  built from settings and kept behind a lock.
* **Two stores.** Files are on disk, and what is known of them in the database.

### 1.2 Components

| Component | State | Operations | Interacts with | What makes it correct |
|---|---|---|---|---|
| Ticket lifecycle (`domain/ticket`, `database/ticketstore`, `server/handler_tickets.go`) | `tickets`, `ticket_replies`, `ticket_status_history`, `ticket_links` | create, PATCH (status, assignee, classification), reply, resolve, close, reopen, link | statuses, settings, SLA, groups, notifications | history matches the changes made; only administrators and the system close; a reporter writes only where the window allows; no request is stuck |
| Statuses (`Service.AddStatus` .. `RemoveStatus`) | `statuses` | add, edit, remove | every ticket and history row refers to them; process start | referential integrity; the system statuses are found again |
| Process (`cmd/server/main.go`) | cached ids | start, stop | the whole database | restart finds what it left |
| SLA (`domain/sla`) | `sla_policies`, `sla_records` | attach at creation, first response, breaches, policy administration | tickets, replies, categories | a record refers to what exists; the best policy is attached; the first response is the first; what is stamped as missed was missed |
| Users (`domain/user`) | `users` | create, whole-row updates (password, MFA, profile, SSO upsert), column updates (disable, enable, delete, reset) | every handler | a column update is not undone by a snapshot; one account per address and per subject; a second factor in force can be answered |
| Registration (`domain/registration`) | `pending_registrations` | register, verify | users, mail | one account per verified address; no sign-up is lost |
| Tags (`domain/tag`) | `tags`, `ticket_tags` | get-or-create, attach, detach, soft-delete, restore | tickets | one tag per name; a tag out of use is not attached |
| Categories, types, items (`domain/category`) | three tables | administration, the form | tickets, scopes, canned responses, policies | nothing refers to what is gone; a ticket's type is of its category and its item of its type |
| Groups, auto-assignment (`domain/group`, `handleCreateTicket`) | groups, members, scopes, round-robin counter | administration, choice of an assignee | ticket creation, lists | a new ticket goes to a group that covers it |
| Lists and counts (`handleListTickets`, `handleListStatuses`) | – | lists, searches, counts per status | tickets, members | nothing twice, nothing out of scope, nothing forgotten |
| Custom fields (`domain/customfield`) | definitions, assignments, values | administration, the form, values of a ticket | tickets, the tree | a value was admitted; a select field has options |
| Canned responses (`domain/cannedresponse`) | `canned_responses` | administration, the picker | tickets, the tree | what is offered fits the ticket |
| Settings (`domain/admin`) | `settings` | get, set, set several | every component | what is answered as saved is in place |
| Notifications (`domain/notification`, `server/notify`) | webhook configurations | dispatch to e-mail and webhooks | ticket operations | an event tells of something that happened |
| Attachments, logo (`handler_attachments.go`, `handler_logo.go`) | rows, a setting, files | upload, scan, download, removal | tickets, disk, ClamAV | what is on record is on disk |
| Sessions, OIDC and SAML (`handler_auth.go`, `handler_oidc.go`, `server.go`) | sessions, providers under a lock | log-in, saving and reloading of a provider | users, settings | a provider in use is the one saved, and does not vanish because the network does |
| Plugin registry | map under a lock, always empty | register, dispatch | – | – |
| Audit log, MCP interface, SPA, configuration, generated queries, frontend | – | I/O or calls into the above | | – |

`PROJECT.json` lists the same components with their files and status, and the hazards with the line
at which each bites.

## 2. Modules

| Module | What it is |
|---|---|
| `TicketRules` | the data of the domain and its pure rules: rows, roles, `CanTransitionStatus`, `CanUserUpdate`, the row every operation computes from the row it has read |
| `TicketBoard` | the abstract specification: what the lifecycle promises, each operation one atomic step |
| `TicketService` | the service as it runs: workers, one action per database statement, failures, restarts, status administration |
| `TicketServiceRefinement` | the mapping under which the service implements the board |
| `TicketVersions` | the abstract specification of what is left when requests overlap and fail: every row is one permitted operation away from a row the ticket has had |
| `TicketServiceVersions` | the mapping under which the service implements it |
| `TicketClaims` | sentences of the docs and comments that the code does not keep |
| `AccountRules` | the data of the accounts: addresses, subjects, rows, and what the statements that write them make of a row |
| `AccountVersions` | the abstract specification: what the accounts promise when requests overlap and fail |
| `UserAccounts` | accounts and self-registration: workers, one action per database statement, failures, the clock |
| `AccountServiceVersions` | the mapping under which the accounts implement `AccountVersions` |
| `Classification` | the tree of categories, types and items, and what refers to it: tickets, scopes of groups, canned responses; routing of new tickets |
| `DeskBase` | what the next six share: requests that run statement by statement |
| `SLAClock` | service levels: policies, records, the first answer, the evaluation of breaches |
| `TagCatalog` | tags and their attachment |
| `CustomFields` | definitions, assignments, the form, the values of tickets |
| `TicketLists` | lists, searches and counts, while tickets and members move |
| `IdentityProviders` | the settings of SAML and OIDC and the providers built from them |
| `Uploads` | attachments and the logo, on disk and on record |
| `Desk` | the composition of the six modules from `SLAClock` to `Uploads` |
| `MCTicketBoard`, `MCTicketService`, `MCUserAccounts`, `MCClassification`, `MCDesk` | instances for TLC |
| `TicketBoard_proofs`, `TicketService_proofs`, `TicketSafety_proofs`, `TicketVersions_proofs`, `UserAccounts_proofs`, `Classification_proofs`, `DeskTickets_proofs`, `DeskCatalogs_proofs` | the theorems; `TicketSafety_proofs` and `TicketVersions_proofs` are about `TicketService`, `DeskTickets_proofs` about `SLAClock` and `TicketLists`, `DeskCatalogs_proofs` about `TagCatalog`, `CustomFields`, `Uploads`, `IdentityProviders` and `Desk` |

### 2.1 State of `TicketService`

| Variable | Code |
|---|---|
| `ticket[t]` | the row of `tickets`: status, `resolved_at`, `closed_at`, assignee |
| `history[t]`, `replies[t]` | rows of `ticket_status_history` and `ticket_replies` in order of insertion |
| `life[s]`, `nameOf[s]` | table `statuses`; an id is never used twice (`uuid.New`) |
| `up`, `sys` | the process and `Service.sys` |
| `pc[w]`, `call[w]`, `snap[w]`, `target[w]`, `outbox[w]` | one goroutine: the next statement, parameters, the `Ticket` value it has read, the status it will write, the events it will dispatch |
| `followUp[w]` | the second call of a handler: the assignment of a PATCH, or of auto-assignment |
| `events[t]` | what has been dispatched |
| `versions[t]` | observer: every row the ticket has had; no action reads it. `reached[t]` are the statuses in them |

### 2.2 Actions and statements

`HandleX` is the arrival of a request at handler X with the checks it makes before the database. Then:

| Action | Statement | Used by |
|---|---|---|
| `InsertTicket` | INSERT of the ticket | `Create` |
| `LookupTarget` | `ListStatuses`, reopen target by name | reply, reopen |
| `Get` | `GetByID`, and for `Reopen` the test for Closed | all but `Create` |
| `CheckTransition`, `CheckReply` | `getStatusByID` and the rule of `ticket.go` | PATCH of a status, reply |
| `InsertReply` | `CreateReply` | reply |
| `Write` | `Update`, all columns from the snapshot | all but `Create` |
| `Record` | `recordStatusChange`, error dropped | all that change the status |
| `Announce` | dispatch and return; the handler's next call, if any | all |
| `AddStatus`; `GetStatus`, `SaveStatus`; `GetStatus`, `CountByStatus`, `DeleteStatus` | the three status operations | administration |
| `StatementFails`, `AnswerLost` | a statement has no effect and returns an error; or has its effect and returns an error | every statement; the two that write a row |
| `Restart` | requests in progress are lost, `LoadSystemStatuses` runs | |

A foreign key that refuses a statement, a UNIQUE constraint and a rule that says no are branches of
the action of the statement that meets them. `WriteFails` is where the operations differ: all return
the error of `Update`, except `AddReply`, which drops it, records and announces.

### 2.3 `UserAccounts`

`account[u]` is the row of `users` (address, role, `mfa_secret`, `mfa_enabled`, the two subjects, disabled,
deleted), `pending[e]` the row of `pending_registrations` with address `e`, `row[w]` the Go value `u` that a request has
built and `reg[w]` the registration it has read. `mailed` and `issued` are the verification mails and TOTP secrets that left the
system. `versions[u]` is an observer: every row account `u` has had (no action reads it; `everHeld` are the addresses in them). The operations, and the statements each runs through:

| Operation | Statements |
|---|---|
| `POST /admin/users` | `Insert` |
| `POST /setup` | `CountUsers`, `Insert` |
| sign-up | `Upsert`, `SendVerificationEmail` |
| verification | `GetPending`, `Insert`, `DeletePending` (error dropped) |
| password, enrolment, confirmation | `Get`, `Update` (all columns but disabled and deleted) |
| SAML log-in | `GetSubject`, then `Update` or `Insert` |
| OIDC log-in | `GetSubject`, `GetByEmail`, then `Update` or `Insert` |
| `PATCH /admin/users/{id}` | `Toggle`, `ResetMFA`, `Get` and `Update`: the parts that were sent, in this order |
| `DELETE /admin/users/{id}` | `SoftDelete` |

`call[w].email` of a federated log-in is the address asserted in it, any of the set `Asserts[s]` that the provider of subject `s` may
assert: both log-ins write it to the row they find, since it may have changed. `NewRoles` are the roles of the accounts that
administrators create.

Two traits of the code the model keeps: `UpdateUser` has `WHERE deleted_at IS NULL` and reports no error when it
writes nothing; and a look-up that fails is taken for one that finds nothing (`Absent`, also an outcome of `StatementFails`).

### 2.4 `Classification`

`node[n]` is a row of `categories`, `types` or `items` (`Level[n]` says which), `filed[t]` what the row of a ticket says
here (category, type, item, group), `scope` and `canned` the tables that name parts of the tree, `fallback` the setting
`auto_assign_group_id`, which administrators change meanwhile. `seen` is an observer of what a request has met: the groups that covered its
ticket, or were the fallback, since it was filed, whether a statement failed since, and the classifications of the ticket it picks a response for. `alone` says whether requests
come one at a time, `ctiFaults` how many statements have failed.

| Operation | Statements |
|---|---|
| new ticket | `ListCategories`, `ListTypes`, `ListItems` (the form, as far as the role fills it in), `InsertFiled`, `RouteTicket` (groups in scope), `RouteToFallback` (the setting, the users), `AssignReads`, `AssignWrites` |
| PATCH of a ticket | the form, then the assignment and the reclassification, as far as they were sent: `AssignReads`, `AssignWrites`, `UpdateCTI` |
| canned responses of a ticket | `GetClassified`, `ListCanned`, `CannedPicked` (the client has the answer) |
| the tree | `GetParent` and `InsertNode`; `GetNode` and `PutNode`; `DeleteNode` with the cascade |
| scopes, groups, canned responses, the fallback group (`HandleUpdateSettings`, `SetFallback`) | one statement each; a group takes its scopes along, tickets keep no reference to it, the setting may go on naming it |

A statement that fails (`CTIFails`) ends its request, except while a new ticket is routed, where every error is dropped: after a failed
look-up of groups comes the setting, after a failed read of the setting the list of users, and a failed assignment leaves the ticket as it is.

The foreign keys are `Classifiable`, `Scopable`, `HeldByTicket`; `TypeOfCategory` is the composite one of migration 13.

### 2.5 The modules of the desk

Each has a request variable (`slaReq`, `tagReq`, ...): what a goroutine holds between its statements, `step` being the
one that comes next. `HandleX` or the name of an operation is its arrival.

| Module | State | Actions after the arrival | Faults |
|---|---|---|---|
| `SLAClock` | `policy`, `record`, `category`, `opened` (ticket rows), `minute`; observers `replied`, `unrecorded` | opening: `InsertTicket`, `FindPolicy`, `CreateRecord`; a staff reply and an evaluation: `GetRecord`, `ReadPolicy`, `PutRecord`; policies: `InsertPolicy`, `GetPolicy`, `PutPolicy`, `DeletePolicy`; `DeleteCategory` with its cascade | a statement fails: the creation of a ticket and a reply drop the error (`SLAFails`) |
| `TagCatalog` | `tag`, `tagged`; observer `inUse` | `GetTagByName` (or `GetTagFails`), `CreateTag`, `AddTicketTag`, `RemoveTicketTag`, `SoftDeleteTag`, `RestoreTag` | a look-up fails |
| `CustomFields` | `field`, `assign`, `fieldValue`; observer `allowed` | values, in the order of a Go map: `SetNextValue`, `ReadFieldDef`, `StoreValue`; definitions and assignments: insert, get and put, delete; the form: `ListAssignments` for each scope | a refused value ends a PUT, and is skipped when a ticket is created |
| `TicketLists` | `desk` (ticket rows), `member`; observers `belonged`, `watch` | `RunQuery`, `ReadGroups`, `CountNext`; meanwhile `CreateTicket`, `UpdateTicket`, and members coming and going | – |
| `IdentityProviders` | `setting`, `loaded` (behind the lock); observer `gap` | `ReadSetting` for what was not sent, `SaveSetting` key by key, `ReadSetting` again, `LoadProvider`; `SetRaw` in the order of a Go map; `Reboot` | a read or a write fails, the provider's server does not answer, the process restarts |
| `Uploads` | `attached`, `logoSet`, `disk`, `logoFile` | `GetTicket`, `ScanClamAV`, `WriteAttachment`, `CreateAttachment`, `RemoveAttachment`; `DeleteLogoFile`, `WriteLogo`, `SetLogoURL`; `Stop` | a write leaves half a file, a row is refused, a removal fails, the process stops |

The six share the ids of tickets and no variable: in the program each has tables of its own, and reads of the ticket no
more than is in its module. `Desk` composes them by interleaving their steps; `DeskImplementsParts` proves that each
part behaves in the desk as it does alone. So the product shows nothing the parts do not, and `MCDesk` checks them in one run in which `part`
says which of them is active in a behaviour (`PartSpec`). Where a property speaks of requests that come one at a
time, a variable chosen at the start (`overlap`, `inTurn`, `queued`, `alone`) says whether they do, so that the same run
has both.

### 2.6 Abstractions

* Ticket lifecycle: columns of a ticket with no part in it, links, `active`, colour and order of a status, audit rows
  and e-mail texts are left out. The classification, SLA records, tags and custom field values of a ticket are in modules
  of their own, which repeat of its row what they read.
* The operation's `time.Now()` is taken at its write. A tick is a day and a timestamp the start of
  its day; the comparison (`now.After(deadline)`, the last instant included) is the code's. With a
  window of 0 days the code refuses a reply any instant after the resolution, which a clock in whole
  days cannot show; the instances therefore use a window of 1.
* The two settings the lifecycle reads are constants. (A failed read falls back to a default: 7 days and "New".)
* A ticket is never deleted, so no operation on an existing ticket meets a missing row.
* `Assign` does not look at the role; a plain PATCH of the assignee is enumerated as staff.
* In the lifecycle, auto-assignment picks a constant (`AutoAssignee`) and the handler ignores its errors; which group it
  picks is in `Classification`. The round robin's turn, over which group members and counters decide, is any user or nobody.
* Fault injection is per statement: a cancelled request, which fails all later statements of its
  operation, is several faults. The instances inject one.
* Accounts: display names and passwords are left out; the addresses that a provider may assert with a subject are a set (`Asserts`), of which each
  log-in brings any; an administrator's session, the log-in itself and the audit row are not modelled. A fault has no effect; the case that
  it has one while its answer is lost is modelled for tickets only.
* Service levels: `Int32` and `Duration` are two's complement of a width given by constants; the instance scales it down
  so that a target beyond it is a small number. `EvaluateBreaches`, "called on a schedule" that the program does not
  have, is a request that may arrive at any time.
* Spellings of a tag, values of a field and texts of a ticket are members of small sets; what a search term matches,
  by number and by words, is a constant, and how the two are joined with the scope is the code's.
* Settings: a certificate and a key match where they are equal. A provider is identified with the settings it was built from.
* Uploads: a picture stands for its recompressed form, and whether it can be decoded or is infected is a property of the
  file. Classification of a ticket in progress: clients send what the form offered.

## 3. Runs

The constants that matter, and the size of each passing run:

| Run | Question | Bounds | Distinct states |
|---|---|---|---|
| `TicketBoard` | are the promises consistent? | 1 ticket, 4 statuses, 3 days, histories up to 5 entries | 47,511 |
| `ServiceOverlap` | do overlapping requests keep the history in step with the ticket? | 2 workers, 3 requests of all 7 ticket operations, auto-assignment, 2 days | 1,126,313 |
| `ServiceFaults` | when something fails, is every row still one permitted operation away from one there was, and every entry and event of something that happened? | 2 workers, 3 requests, 1 failing statement or lost answer, 1 restart | 1,241,331 |
| `StatusCatalog` | do removals and additions of statuses leave the tables and the next start intact? | 2 workers, 4 requests, 5 statuses (one created under the name of a system status), 1 restart | 1,733,764 |
| `ServiceSerial` | one request at a time: is the service the board? do requests end? | 1 worker, 4 requests, 3 days, fairness | 373,524 |
| `AccountsOverlap` | do the routes to an account and the writes from snapshots keep accounts and sign-ups sound, and every row one permitted operation away from one there was? | 2 workers, 4 requests of all 11 operations, 1 fault, 2 days, 3 accounts (one seeded, the others interchangeable), 4 spellings of 3 addresses, 2 subjects: one asserts one address in two spellings, the other asserts two addresses; a PATCH of one part and of all parts but the address | 1,355,718 |
| `Classification` | does anything refer to what is gone, an item belong to another type, a new ticket go to a group that does not cover it? | 2 workers, 3 requests of all 10 kinds, 1 failing statement, 2 categories, 2 types (one yet to come), 1 item, 2 tickets (one yet to come), 1 group, 1 canned response, with and without a fallback group at the start | 1,766,912 |
| `Desk` | do service levels, tags, custom fields, lists, providers and uploads keep what they promise? | 2 workers; service levels: 4 requests, 1 failing statement, 3 policies (one yet to come), 2 minutes; tags: 4 requests, 3 ids, 4 spellings of 2 names, 1 failing look-up; fields: 3 requests, 3 fields (one yet to come), 2 assignments, forms of 1 and 2 scopes; lists: 1 list of any of the 3 roles, 2 moves, 3 tickets, pages of 2; providers: 3 requests, 1 fault, 1 restart; uploads: 3 uploads, 1 fault, 1 stop | 2,852,787 |

Why the bounds suffice. Every conflict the properties speak of is between two calls on one ticket:
the second worker runs any prefix of its statements between any two of the first. The third request
is what puts the ticket in the state (assigned, resolved, closed) in which the pair meets; creation is
one of the three. A status is removed by one request while another moves the ticket in or out, and the
ticket has to be created and the status added first: four. Tickets do not interact except through the count and the references of a
status, for which one ticket is the strict case. Three days reach the last day of a window, and the
day after it. Workers are interchangeable, so the safety runs use symmetry; the run with liveness does not.
The accounts need four requests for the longest conflict: a sign-up whose mail has to arrive, its verification, and two
requests that meet it. Two tokens allow the address to be registered again meanwhile; a token lasts until its day
ends, so that the second day finds it expired.

The tree: a node can go between a look at it and its use only if no other request holds it, so the third request is what
files the ticket or makes the second type; two levels below a category make the cascade reach two steps. Service levels:
four requests open a ticket, answer it, answer or evaluate it again and edit or delete a policy meanwhile; targets are
smaller and larger than the two minutes, and one exceeds the scaled-down column. One failing statement in a series of requests is enough to
lose a first answer, or a record, before an evaluation or another answer. Tags: a name in two spellings is looked
up by two requests while a third deletes or restores it, after a first has created it. Custom fields: a body of two values
while a third request edits one of the two. Lists: one list is enough, since a list changes nothing; two moves put a ticket
from a person to his group and back, or move a ticket and a member; a page of two is full while a third ticket waits.
Providers: a save takes nine statements, and two administrators run theirs against each other, with a third save or a
settings request before or after. Uploads: of each format and of none, two at once, one before.

### 3.1 Properties that hold

* `HistoryChain`, `ClosedIsGuarded` (board): the history is an unbroken chain from creation to the
  present status, and who may lead a ticket into or out of Closed.
* `CurrentStatusRecorded` (service): the present status is one the history tells of or that a request is about to
  record. A stale write can bring back an old status, never an unknown one. It needs that nothing
  fails, the process does not restart and no status is removed. The last condition is real: with two
  changes of status in progress on a ticket, the first made and not yet recorded, the status between
  them has no reference and can be removed; the foreign keys then refuse the second history row, whose
  error `recordStatusChange` drops.
* `ImplementsVersions` (service): with overlap, failures and restarts, what `TicketVersions` promises (next section). It includes that no
  entry into Closed names staff or a reporter, although the rule is evaluated before the write (`OnlyAdminsClose`, which is a
  theorem of its own).
* `HistoryIsTrue`: no history entry tells of a status the ticket did not have. It is checked where requests overlap and
  proved also where statements fail and answers are lost. For entries of a reporter it is restricted to instances without faults, since `AddReply` drops
  the error of the update (noted in 3.4).
* `EventsAreTrue`: "resolved" and "closed" are announced only of tickets that were.
* `StatusRefs`: no row refers to a status that is gone, in spite of count-then-delete.
* `RestartFindsSystemStatuses`: administration that renames no system status cannot break a restart.
* `MFAHasSecret`: `mfa_secret` and `mfa_enabled` are written together from snapshots and cleared together in place, so no
  overlap leaves a second factor that cannot be answered.
* `OneAccountPerAddress`: the address is put in lower case on each of the four routes, the UNIQUE constraint is case-sensitive.
  It holds where administrators spell the addresses of a PATCH in lower case, which the handler does not do for them.
* `OneAccountPerSubject`: the subjects have no UNIQUE constraint and are looked up before they are written; what keeps them
  apart is that the row carries an address asserted with its subject, and that this is unique. So it is a property of subjects whose address
  lasts (`Lasting`: who asserts it, asserts only it), while other subjects come back with other addresses and look-ups fail or are overtaken; and it holds where administrators edit no
  address. It does not hold of a subject whose address has changed: when its look-up fails, or a first log-in under the other address overtakes it, the new
  address is free and a second account of the subject is made. No text promises that this cannot happen.
* `DisabledStays`, `DeletedStays`: `UpdateUser` leaves out `disabled` and skips deleted rows.
* `SignupNotLost`: a verification deletes by id, after an insertion that must have succeeded, while the same address may be
  registered again under the id it had.
* `ImplementsVersions` (accounts): what `AccountVersions` promises (next section), with overlap and failures, and whatever
  administrators send. It includes that a write from a snapshot follows from one version and one operation that this version admitted.
* `ImplementsBoard`, `AcceptedReplyReopens`, `RequestsEnd`: see the next two sections.
* `TreeClosed`: foreign keys are all that protects a form read list by list, a scope or a canned response from a
  deletion in between; the composite one keeps a type with its category when an assignment writes an old type back.
* `ItemOfType`: no constraint says it. It holds because every statement writes type and item together, from a pair
  that belonged together when it was read, and because nothing moves an item to another type. It assumes clients that
  send what the form offered.
* `RoutedInScope`: the group is looked up and assigned later. Whatever overlaps or fails, it was one that covered the ticket at some moment since it was
  filed, or the fallback at such a moment. With one request at a time and *no failing statement* it covers the ticket if any group does, and
  is the fallback otherwise. The exception is real: the handler drops the error of the look-up and goes on to the fallback although a group covers
  the ticket, and drops the error of the assignment.
* `OfferedFits`: the same for canned responses, which are picked for the classification read in an earlier statement.
* `RecordRefs`: a policy deleted between the choice and the record is caught by the foreign key, and the ticket stays without.
* `BestPolicyAttached`, `AnswerIsFirst`, `BreachIsTrue`: the choice against a definition of its own (`Best`), the first
  answer against the replies there were, a stamped breach against them too. The three are about requests that do not
  overlap; with two at once the code does lose a first answer, as the hazard says, and no text promises otherwise. The creations and replies that met
  *a failing statement* are exempt: their errors are dropped, the ticket stays without a record or its record without that answer, a later reply then
  counts as the first, and an evaluation may stamp a breach although staff answered in time.
* `OneTagPerName`: look-up, then INSERT; the UNIQUE key covers deleted tags too. `AttachedWasInUse`: the check and the
  attachment are two statements; what holds is that the tag was in use at some moment of the request.
* `SelectHasOptions`: kind and options are patched apart, and by two administrators at once; each writes a whole row that
  it has validated. `ValueWasAllowed`: as for tags, the field admitted the value at some moment of the very request that stores it.
* `ListedOnce`, `ListedWasInScope`, `SteadyIsListed`: the list of "mine" is a union of statements between which tickets
  move. Nothing is listed twice, everything listed was in scope at some time, and what stayed in scope and was not touched is listed,
  unless a page is full. `CountsBracketed`: the count of a status lies between the tickets that stayed and those plus the moved ones.
* `SavedIsInPlace`: with one administrator at a time and no failure, what is answered as saved is in place, with a matching
  pair. `OnlineStaysOnline`: with any overlap and failure, a provider disappears only through a request that met it switched
  off or incomplete, or whose read failed.
* `RecordedIsOnDisk`: the file comes before its row, under a name of its own; no failure or stop leaves a row without
  its file. A logo goes before its successor is there: of it this holds where uploads come one at a time and nothing fails.
* `CTITypeOK`, `TypeOK`: the type invariants. That of the desk (`DeskTypes`) is a theorem and no run repeats it.

### 3.2 Refinement

`TicketServiceRefinement` maps the service to the board: the row as it is; the history with the entry a
worker is about to insert already in its place (so `Write` is the board's step and `Record` stutters);
`granted` the tickets with an accepted reply not yet acted on. `ServiceSerial` checks it with one
worker. With two workers it does not hold, and the counterexamples are the hazards of section 1.1.

`TicketVersions` says what does hold then. Its state is the row, every row there has been (`versions`), the history,
the entries that are due to be recorded and the reopenings that have been granted. An operation picks any version the ticket has
had, and makes of it the row that this operation makes; who may do it is a guard of the operation, and the entry
that falls due names the status of the version it picked. What is due is recorded later, or forgotten. So updates may be
lost, but no row mixes two versions, no row comes from an operation that was refused, and
no entry tells of a change nobody made; a reporter's reply that loses its update (`ReopeningLost`) is the one exception, as in the code.
`TicketServiceVersions` maps the service to it: `due` is what the workers at `Record` are about to insert, `granted` the version a reporter's
accepted reply is about to reopen. `ServiceFaults` checks it with two workers, a failing statement or lost answer and a restart. From the promises
alone follow `MomentsAreTrue` (a stale write may bring a moment of resolution or closing back, it never makes one up or moves one to another day)
and `EntriesArePermitted`.

`AccountVersions` says the same of the accounts. Its state is the row, every row there has been, the secrets that were shown, the
addresses that were sent a mail, and whether a setup has been granted. An account comes into being by one of the routes (federated log-ins make two of them), each under its own
condition, with an address that no account has. An operation on it (a password, an enrolment or a confirmation, a log-in, a link, a PATCH) picks any version the
account has had that met the condition of the operation, and writes the row it makes of it, except that `disabled` stays as it is and a deleted account is not
written. What administrators do in place is done to the row as it is. So a stale write may bring back what an operation changed, a reset of the
second factor included (3.4), but it does not mix two versions, and it neither undoes nor repeats a deletion or a disabling.
`AccountServiceVersions` maps the accounts to it: `reached` is `Reached`, the addresses of the mails sent; `open` is `Open`, that a setup has counted no active account and is
about to create one. The other three variables are the same. From the promises alone follow `LinksAreAsserted` (a subject is linked to an account
only if it has had an address asserted with the subject) and `FactorsAreOwn` (no two accounts ever have the same secret, and a factor in force is one that
was in force with a secret that had been shown). That the secret was *confirmed* does not follow: an account with a factor in force that enrols again keeps the flag (3.4).

### 3.3 Fairness

`FairSpec` has weak fairness of `Step(w)` for each worker and of `Tick`. A goroutine that can run is scheduled; a
statement returns, if only with an error, because no operation holds a lock while it waits for another, so that a worker's
next statement stays enabled until it is taken. Nothing is assumed of the arrival of requests, of failures or of restarts.

### 3.4 Claims the code does not keep

Each is a run of its own with one property; TLC finds the behaviour.

| Run | The text | What happens |
|---|---|---|
| `ClaimRecorded` | `docs/DESIGN.md:109` every transition is recorded | an overlapping assignment writes the old status back and records nothing |
| `ClaimConfirmed` | `domain/user/service.go:117` confirmation enables MFA, `docs/DESIGN.md:89` after a reset the user re-enrolls | a password change that overlaps the reset writes the old secret and flag back |
| `ClaimFieldForm` | `docs/DESIGN.md:284` deactivated fields do not appear on new ticket forms | the list for a form joins definitions whether they are active or not |
| `ClaimBlanksClear` | `server/handler_admin.go:983` three empty strings clear the SAML configuration | each blank is filled in from what was saved |

Noted but not run. A reply that was checked before the ticket is closed is stored after it, against `docs/DESIGN.md:106` (no
further user updates). A PATCH to Resolved sets no `resolved_at`, so that the window of `docs/DESIGN.md:103` never begins.
After a rename of a system status the process does not start, although `000001_init.up.sql:95` speaks of name lookups under
fixed ids. Without the target status the reopening by a reply fails, its error is dropped, and it is announced all the same
(`domain/ticket/service.go:252` speaks of an automatic reopening). `handler_admin.go:910` says that a blank client secret
keeps the one in the database; it is read with its error dropped (`domain/admin/service.go:102-109`), and a failed read
keeps nothing. `docs/DESIGN.md:106` says that Closed follows automatically when the window is over; `ListResolvedBefore` has no
caller (`docs/ITILFITGAP.md` says so too). `domain/ticket/ticket.go:184` says that only administrators set Closed; the rule goes
by name, and after a rename of the status it no longer finds it. `domain/user/service.go:94` says that a stored secret is unenrolled until
confirmed, and `:110` that the flag stays false until the user confirms; an account with a factor in force that enrols again keeps the
flag, with a new secret nobody has confirmed. `handler_setup.go:23` says that setup conflicts "once
any user exists"; two requests may both count none, and disabled accounts are not counted. `docs/DESIGN.md:105` says the reopen target defaults to the first active custom
status; the code defaults to the name "New" (`domain/admin/service.go:226-234`). Of the ranks of a policy in `docs/DESIGN.md:380-384`, "category
only" and "a catch-all" cannot occur, since a policy has a priority (`000001_init.up.sql:196`, NOT NULL); the model has the two that can.
`docs/DESIGN.md:394` says that SLA timers are paused while a ticket is Pending; no code does it, and a target counts from creation.

## 4. Proofs

All theorems hold for every value of the constants that satisfies the assumptions named in the modules: the three system
statuses are distinct, `Nil` is none of the values it stands in for, the seeds have the types of their tables, lower case
is idempotent, seeded addresses differ, seeded select fields have options, the tree there was before is closed and its
items are of the types named with them, the tickets lists are made of are finitely many, bounds are naturals. Any number of tickets,
workers, requests, faults and restarts.

**Board.** `BoardInv` is the type invariant, the chain, the guard. It is inductive as it stands; `WriteKeeps` is the one
lemma all writes share.

**Service, types** (`ServiceTypes`). `TypeOK` alone is not inductive: `Write` builds a row from `snap[w]`, which must be a
row, and indexes `ticket` by `call[w].ticket`, which must be a ticket. `ServiceInv` adds `WorkerOK(w)`: which statements the
call of `w` runs through (`StepsOf`), which parameters it carries (`WellFormed`), and what it holds at each of them. One lemma
per action; `IdleKeeps`, `GotoKeeps`, `ReturnKeeps` and `AcceptKeeps` are the ways a worker moves.

**References** (`ServiceStatusRefs`). `Shapes` reduces the 27 kinds of steps to five: a row is written, an
entry is inserted, a status is added, a status is removed, or the tables are left alone. `StatusRefs` is inductive relative to `ServiceInv` under
these five.

**True history** (`ServiceHistoryIsTrue`). An entry is inserted some steps after the write it tells of, from what the worker
remembers. `TrueInv` therefore says of every worker (`TruthOK`) that the status it has read was reached or is gone, and that the status it is about to
record was reached; `AddersOK` that a status being added has been in no row; every present row is in `reached`. `StepsGoForward`
gives the monotone part (`reached` grows, what is gone stays gone), so that the other workers' conjuncts survive.

**Present status** (`ServiceCurrentStatusRecorded`, under `Undisturbed`: no faults, no restarts, no removal). `KnownInv` extends
"recorded or about to be" from rows to the snapshots of workers: a stale write brings back a known status.

**Names and restarts** (`ServiceRestartsFindSystemStatuses`, under `NamesStay`: no status is renamed, and no seeded one has the name of a
system status). `TablesNamed` says that every live status has the name it was created with and that names of live statuses differ; `NamesInv` adds of every request
(`NamedOK`) that a name it is about to save is the one the status has, and one it is about to give is not taken without the database noticing. So a look-up by name finds the
system status (`NamesAreFound`), at a restart as in an operation.

**Events and closers** (`ServiceEventsAreTrue`, `ServiceOnlyAdminsClose`, under `NamesStay`, the second also while reopening does not lead to Closed). An event is
dispatched, and an entry written, some statements after what it tells of. `SaidInv` says of every worker (`HeldOK`) which event it can hold at which
statement of which operation with which target, and that a worker about to write or record Closed does so for an administrator or for the system (`ClosingCall`).

**The service implements the board** (`ServiceImplementsBoard`, under `OneAtATime`: one worker, no faults, no restarts, ticket operations only, names stay, the target of
reopening exists and is not Closed). `OneInv` adds to the invariants above that what the worker has read is what the row holds, and that the checks behind it still
hold (`FreshOK`): with two workers this is what fails. `View` turns the mapping into one about this worker. The step simulation has a lemma
for each kind of step: `InsertSimulates` (create), `WriteSimulates` (the five status changes and the assignment), `GrantSimulates` (a reply is accepted), `TimeSimulates`;
`RecordSimulates` and `QuietSimulates` are stutters.

**Versions** (`ServiceImplementsVersions`, `ServiceMomentsAreTrue`, `ServiceEntriesArePermitted`, under `NamesStay` and while reopening does not lead to Closed; any number of
workers, failures and restarts). `VersionsInv` adds to `SaidInv`: every present row is a version (`VersionsHeld`); no two requests know the id of a ticket that is not there yet (`InsertsApart`);
and of every worker (`SeenOK`) that what it has read is a version of its ticket and that the checks of its operation are behind it. Unlike `FreshOK` this survives the steps
of others, because versions only grow. `Collect` splits what is due into a worker's own and that of the others, so that a lemma for each kind of statement (`WriteIsStep`, `WriteFailsIsStep`,
`CreateIsStep`, `CheckReplyIsStep`, `RecordIsStep`) speaks of one worker; the rest only forget (`OtherStepsForget`). The two consequences are proved of the abstract
specification (`PromisesInv`: a new row bears the moments of the version it is made from, or the present one) and carry over by the refinement.

**The desk** (`DeskImplementsParts`, `DeskIsTyped`). A step of the composition is a step of one part and a stutter of the others, so that every theorem about a part
holds of the desk.

**Accounts** (`UserAccounts_proofs`). `AccountInv` is `TypeOK` with what a request holds at each statement (`WorkerOK`), as
for the service; all handlers but the creation of an account arrive in the same way (`Arrivals`). `SafetyInv` asks of every row, *and
of every row a request is about to write*, that it is sound (`SoundRow`): a factor in force has a secret, the address is in lower
case, and it suits its subjects (`Suits`). Suiting a subject has two halves: where the subject asserts an address that lasts, the account has that one; where the address of
the account lasts, the subject asserts it. The second is what makes the first inductive: a log-in that finds a row by one of its subjects writes another address asserted with that
subject, and must not thereby leave the lasting address of the other subject (`AssertedSuitsAll`). With the uniqueness of addresses this is inductive relative to `AccountInv`, and
gives `FactorsHaveSecrets`, `AddressesHaveOneAccount` (assuming `LowerEdits`) and `SubjectsHaveOneAccount` (assuming
`NoAddressEdits`). `AccountChanges` lists what a step can do to an existing row, and gives `DisabledAccountsStay` and `DeletedAccountsStay`.
`SignupsAreNotLost` needs `SignupInv`: the id of a registration belongs to one address, a request about to register has an id in nobody's hands, and
a verification acts for the address of the id it has read.

**Versions of accounts** (`AccountsImplementVersions`, without any further assumption; any number of requests and failures). `VersionsInv` has four parts. `RowsKnown`: the
present row is a version. `RowsFromVersions`: what a request is about to write (`UpdateOK`) its operation makes of a version that met its conditions (`Makes`), and what it is
about to insert (`InsertOK`) it may (`Brings`); both outlive the steps of others, because versions and mails only grow. `SecretsOwn`: the secret
of an enrolment in progress is that of no other enrolment and not yet shown; that of a confirmation was shown. `MailsReach`: a mail goes to an address that may register, and
a registration that was read is of an address that was sent one. `StepsMove` and `MovesAlone` say that a step moves one worker, so that each part has a
lemma per kind of step (`StepsRows`, `StepsSecrets`, `StepsMails`). The simulation is by statement: `InsertMaps`, `UpdateMaps`, `InPlaceMaps`, `CountMaps`, `SendMaps`;
the rest are stutters (`QuietMaps`) or let a granted setup lapse (`ClosingMaps`, `FailsMaps`). `AccountLinksAreAsserted` and
`AccountFactorsAreOwn` are proved of `AccountVersions`, by `TraceInv` (`NextKeepsTraceInv`: a new row has the subjects and the secret of the version it is made from, or one
that this operation may bring), and carry over by the refinement.

**Service levels** (`DeskTickets_proofs`). `SLAInv` is the types, `RecordRefs` and what a request carries and relies on at each
statement (`SLACarries`, `SLARelies`): a request that has read a record finds it there when it writes, since records stay (`RowsStay`).
That gives `SLATypes` and `RecordsRefer`, whatever overlaps. The other three are about behaviours whose requests do not overlap.
`SerialInv` says what is true of them besides: one request is in progress (`Alone`); what staff answered and what is
stamped lies in the past (`BeforeOK`); every record agrees with the replies that met no failure (`Recordable`), but for the one reply whose request is still in
progress (`RecordsOK`, `Pending`), and which a failure moves to those that are not recorded (`unrecorded`); and what a request holds is what the table has (`RequestOK`), in particular that the policy it
is about to attach is still a best one, although the clock ticks and a category may be deleted meanwhile (`BestOutlives`). `FoundIsBest`
is where the query's ORDER BY meets the definition.

**The tree** (`Classification_proofs`). `CTIInv` is the types, `TreeClosed`, `ItemOfType`, and of every request (`Holds`) what it
carries at each statement: in particular that the item it will file or write back, if it is still there, is of the type held with it (`Pair`).
Nodes keep their parents, so only the creation of a node could make such a pair false: `Clear` says that no request creates a node
another remembers, and `Grows` that nothing else brings a node into being. `NothingLeftBelow` is why a deletion that cascades over two levels
leaves no orphan: what hangs below a grandchild would have an item for a parent. This gives `CTITypes`, `TreeStaysClosed` and `ItemStaysOfType`.
`OfferedResponsesFit` and `TicketsRoutedInScope` compare an answer with the past: `Watch` says of every request that what it has chosen is
among what the observer saw (`Met`), and, while requests come one at a time, that it is what the tables say now (`Lone`), the fallback only
where no group covers the ticket, unless a statement of it has failed. `ScopeCovers` is where
the query for groups in scope meets the definition.

**Tags** (`DeskCatalogs_proofs`). `TagInv`: types, one tag per name, and of each request that the tag it will attach was in use
since it began. Names never change and rows never go (`TagsStay`), so that what a request has found is there when it attaches.

**Custom fields** (`DeskCatalogs_proofs`). `FieldInv`: types, `SelectHasOptions`, and of each request (`FieldHolds`) that the row
it will write is one that may be stored, and that the value it will store is among what was allowed since it began.

**Uploads** (`DeskCatalogs_proofs`). `UploadInv`: types; `Storing`, which says what is on disk under the name a request has chosen, that
no two requests chose the same (`OwnFiles`), and that what is recorded is on disk; and `Taking`, which says of uploads of a logo that come
one at a time what the two places hold before each statement.

**Lists and counts** (`DeskTickets_proofs`, for a finite set of tickets). `ListInv` relates a request to what its observers have seen
(`AnswerOK`, `SeenOK`): what is listed was in scope at some moment, statements to come ask for a part of the scope (`AskedFor`), and every count taken lies between the tickets
that stayed and those that may have been there. `OtherHolds` says that this outlives any move of the desk, because the observers move along; `StepHolds` and `AskHolds` that a statement
and a beginning bring it about. `SteadyInv` adds by which statement a ticket that stays is still to be met (`StillToCome`), unless a page is full. It rests on
`PageFillsUp`: where a statement leaves a ticket out, take one with the fewest before it (there is one, since strict inclusion of finite sets is well-founded);
all before it are on the page, and they are as many as a page holds.

**Identity providers** (`DeskCatalogs_proofs`). `IdPInv`: types, and of each request that a needed key it has read as blank is known to the observer, so
that a provider is cleared for that reason only (`OnlineProvidersStay`). `TurnInv`, while requests come one at a time and nothing fails, says
how much of a configuration is saved, or read back, before each statement; only the keys of a provider matter to it (`OnlyItsKeys`).

Not proved, and why: `RequestsEnd` and `AcceptedReplyReopens`, since liveness is out of the prover's reach. They are model-checked.

## 5. Not modelled

* Delivery of e-mails and webhooks: sent once, by a goroutine of its own, to a party outside that keeps its own state.
  Which events are dispatched, and when, is in `TicketService`.
* Log-in, sessions, cookies, API keys, OAuth clients, and the protocols of the identity providers: checks of a request
  against a row or a signature; what they write to accounts is in `UserAccounts`.
* Links between tickets: rows nothing but their own handlers reads. Autocompletion of tags: a read.
* The plugin registry: a map under a lock that stays empty, since installation is answered 501.
* The audit log: appended to and never read by the operations. The MCP interface calls the operations of the
  ticket service with fixed parameters.
* The round robin's turn, and the creation and renaming of groups: any user, or a group that has no scope yet.
* `resolved_at` of an SLA record, `DeleteAttachment` and `ListResolvedBefore` of the stores: nothing sets, or calls, them.
* Configuration, migration and wiring of the process, static files, the version, the frontend: I/O or rendering
  without state the rest relies on. Generated queries are modelled where they are called.

## 6. Plan

Done, in this order: the ticket lifecycle with its abstract board; accounts and registration; service levels, tags, custom
fields; lists and counts; identity providers; uploads; the tree and routing; the composition of the desk; what the lifecycle, and then the accounts, promise when
requests overlap and fail. Every safety property the passing runs check is a theorem.

Next: an abstract specification of the tree and what is filed under it, in the manner of `TicketVersions`; links between tickets, should anything come to read them.
