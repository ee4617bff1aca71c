# OpSyn: a TLA+ verification project

OpSyn is an operations platform for a fibre network operator: a FastAPI back end
over PostgreSQL, Celery workers, a React front end. This directory holds TLA+
modules of the parts of the back end that carry its own logic, TLC
configurations that check them on small instances, and TLAPS proofs of what
matters most for every instance. All paths below are relative to
`src/backend/app/modules/` unless they start with `src/`.

| Module | Models | Checked by | Proved in |
|---|---|---|---|
| `NetLifecycle` | `network/lifecycle.py`, status tables | (with the next) | (with the next) |
| `DesignLifecycle` | a design's edits, versions, engine runs, reviews, construction | `MCDesignLifecycle` | `DesignLifecycleProofs` |
| `DesignPromise` | what that workflow promises, abstractly | refinement in `MCDesignLifecycle` | `DesignLifecycleProofs` |
| `EditLog` | the eleven manual-design operations, undo, redo | `MCEditLog` | `EditLogProofs` |
| `TaskWorkflow` | every handler of one task | `MCTaskWorkflow` | `TaskWorkflowProofs` |
| `TaskSessions` | the same handlers when two requests overlap | `MCTaskSessions` | `TaskWorkflowProofs` |
| `ProjectPipeline` | a project's pipeline of department stages | `MCProjectPipeline` | `ProjectPipelineProofs` |
| `WorkflowGraph` | drawing, validating, publishing a department workflow | `MCClaimWorkflow.cfg` | `ProjectPipelineProofs` |
| `Outages` | alarms, incidents and their tickets: poller, webhook, desk | `MCOutages` | `LiveNetworkProofs` |
| `Forms` | a form's fields, versions and submissions | `MCForms` | `FormsProofs` |
| `Partition` | dealing a number of things into groups of allowed sizes | (with the next three) | `EngineProofs` |
| `EngineFats` | the design engine from homes to FATs | `MCEngineFats` | `EngineProofs` |
| `EngineGroups` | the design engine from FATs to groups, along the roads | `MCEngineGroups` | `EngineGroupsProofs` |
| `EngineFdts` | the design engine from groups to FDTs with wings | `MCEngineFdts` | `EngineProofs` |
| `NetMirror` | the live network's tables, the mirror of the register, the derived connections | (with the next) | `LiveNetworkProofs` |
| `LiveNetwork` | files, deletions and edits of register and live network | `MCLiveNetwork` | `LiveNetworkProofs` |

To check: `tlc -config MCEditLog.cfg MCEditLog`, and likewise for the others; to
prove: `tlapm ProjectPipelineProofs.tla`. `PROJECT.json` lists the runs, the lines
of source each definition stands for, and for each property a mutation of the
model that the property catches.

## 1. The system: an inventory

### Design, review and construction (`design/`, `approval/`, `deployment/`, `network/lifecycle.py`)

*State.* A design (status, current version, deleted or not); its working set, the
rows of `net_assets`, `net_cables` and `net_connections` that bear its id, each
with a lifecycle status; the inputs and the engine settings; versions, each
frozen once into a snapshot; approval requests with two steps each; deployments;
engine runs; the log of manual operations.

*Operations.* Edit rows by eleven operations with undo and redo; save, replace or
delete inputs; queue an engine run, which a worker finishes later; import a run;
save, compare and restore versions; submit the design, then its BOQ; approve or
reject step 1 and step 2, withdraw, reopen; deploy, report progress in the field
item by item, capture what was built, promote to the live network.

*Interaction.* All of it meets in the design's row and its working set. Approval
freezes through `design/versions.py`, `deployment` asks `approval.gate`, every
way back to editing starts a version, and the worker writes into the design long
after the request that queued its run.

*Hard.* Long legal sequences (reject, edit, restore, import, resubmit) over state
that several modules write; foreign keys that change rows behind an operation;
requests that load the design and decide on it while another commits; a worker
whose task is delivered again.

*Correct when* what is reviewed, approved, priced, built and made live is one and
the same frozen thing; no version is edited after it was frozen or reviewed
twice; nothing replaced is lost; undo restores.

### Tasks (`tasks/`)

*State.* A task: status, board column (`pipeline_stage`), assignee, department, two
approvals of its completion, soft deletion; its routing history by department;
action comments; dependencies.

*Operations.* About thirty endpoints that move, assign, forward, push back, return,
confirm, approve, reject, reopen, delete, restore and purge.

*Interaction.* `TaskRouter` (the status machine) and `TaskService` write the same
columns independently; archiving a project's last task completes the project's
pipeline.

*Hard.* Each request reads, decides and writes with almost no locks; the one
`SELECT ... FOR UPDATE` gives back the object the session already holds.

*Correct when* archived means approved twice, the board shows the status, and one
department holds a routed task.

### Projects and department workflows (`projects/`, `organisation/workflow_*.py`)

*State.* A project's pipeline status and current stage, its stages with their
statuses, approvals of stages; templates; workflow graphs, draft or published.

*Operations.* Start (from a template, seeded without one, from a graph), advance,
push back, approve a stage; draw, validate, publish, clone and delete a workflow.

*Interaction.* Projects are started by customers and by tasks and are ended by tasks.

*Hard.* Parallel stages and gates under push-backs; templates with gaps; three
writers that start or end a pipeline without regard for the others.

*Correct when* no stage is skipped, a passed stage stays gated and approved, a
pipeline can always go on, and a valid graph can be published.

### The live network and its register (`network/`, `infrastructure/`)

*State.* The register: cabinets and splitter boxes, active or not. The live
network: assets, cables, connections, the last derived by rule or made by hand.
Upload sessions with staged rows, deletion sessions with matched rows.

*Operations.* Validate and commit a file of any kind; preview and execute a
deletion; create, rename, move and delete an asset; lay and remove a cable;
connect and disconnect.

*Interaction.* Every commit or deletion in the register mirrors the whole register
into the live network, and every write of the live network derives its connections anew.

*Hard.* Validation in one request and commit in a later one; two commits of one
session; a mirror that has images to overwrite, codes taken by others, and
assets that someone deleted or moved by hand; a deletion previewed in one request and
collected anew in another; walks that stop at 32 levels, and moves checked before others write.

*Correct when* the map shows the register, the connections follow the data, a
deletion takes what was shown and leaves nothing active below it, and containment has no loop.

### The design engine (`fttx_designer/engine/`)

*State.* Homes with customers, roads, then FATs (8 customers at most), then FDTs with
wings; all in memory, for one run.

*Operations.* Assign homes to roads, trim to the target coverage, group along roads,
lend short tails at junctions, pool what is short and deal it out; group FATs into
FDTs from the dead ends inwards, balance, assign wings, repair hops that are too long by moves, exchanges and
cascades; validate and link.

*Hard.* Long chains of repairs that each keep some bounds and disturb others; early
stops; refusals that abort the whole design.

*Correct when* every customer and every FAT is in one place, no audit refuses what the
stages made, and repairs do not undo each other.

### Outages (`smartolt/`, `all_modules.py`, `src/backend/app/tasks/smartolt_polling.py`)

*State.* Incidents, tasks, the ids of known alarms in Redis per tenant.

*Operations.* Poll each OLT's alarms, receive an alarm by webhook, log an outage.

*Hard.* Three writers that number rows by counting them; a cache written apart from
the database; failures between the two.

*Correct when* no alarm is hidden by the cache without being on record, and an alarm
that stays raised becomes an incident.

### Forms (`form_builder/`)

*State.* A form's live fields, its immutable versions, submissions; the table behind it
and the history of its migrations.

*Operations.* Edit fields, publish, archive, delete; save a draft, submit, approve,
reject; preview, apply and roll back a migration (not modelled).

*Hard.* All of them overlap, and check before they take a lock, if they take one.

*Correct when* one version is current, and what was filed has the values the version it names
asks of everybody, and no others.

### The rest

| Component | State and operations | Why not modelled |
|---|---|---|
| Authentication (`auth/`) | logins, refresh tokens in Redis | little state; who a caller is, is a constant here |
| Previous engineering module (`engineering/`) | designs, BOQs, deployments of the old schema | replaced by `design`, `approval`, `deployment`; two of its models name a column attribute `metadata`, which SQLAlchemy reserves, so it does not load |
| Customers, staff, roles, shifts, settings, webhooks, tenants | rows | CRUD; what others read of them is a constant here |
| Dashboards, reports, GIS tiles, audit, activity, notifications, scheduled statistics | none of their own, or append-only | reads and output |
| Front end, scripts, prototypes, container files | - | not the back end's logic |

`PROJECT.json` has every component with its sources, and every hazard at its line.

## 2. How the modules correspond to the code

**A request is an action.** `src/backend/app/core/database.py` opens one transaction per
request and commits it at the end, so a handler's changes appear together, and a
refused or failing handler changes nothing. The guard of an action is the
conjunction of the handler's checks; raising an exception is not being enabled.
`TaskSessions` is where that is taken apart.

**`DesignLifecycle`** models one design. `design` holds three columns of its row; `work`
the working set; `nver`, `frozen` and `snapshot` the versions; `req` the approval
requests; `dep` the deployments; `run` whether an engine run is queued or running.
Of a row only its lifecycle status is kept, or that there is none; everything else
a version holds (geometry, attributes, inputs, boundary, settings) is one value,
its *plan*, because versions and reviews treat it as one thing. Validation is the
set `Flawed` of plans it finds an error in. `d`, the first parameter of a handler,
is the design's row as loaded.

**`DesignPromise`** has no versions, rows or requests: a drawing is edited, put up for
review, granted, priced, built, surveyed, live. `DesignLifecycle` maps its state to
it (`phaseOf`, `drawingOf`, `reviewedOf`, `pricedOf`) and implements it.

**`EditLog`** keeps rows with the references between them: parent, the two ends of a
cable or link, the cable of a link, the FDT a FAT belongs to, and a *mark* for all
other content. `Deleted` is what the foreign keys of migrations 0087 and 0089 do on a
delete. `past` is a history variable that remembers the working set after each
operation, for stating what undo should restore. Codes, which are renamed when a
restored row's code is taken, and ports and fibres are left out.

**`TaskWorkflow`** models one task; `t` and `rt` are its row and routing as the request
loaded them. What other tasks and comments contribute (unfinished dependencies, open
actions) are two booleans that other endpoints change freely.

**`TaskSessions`** lets one slow request load the row, and the routing, before others
commit, and then decide on what it read and write the columns it changed. One slow
request with one overtaking it is enough for every pairwise race.

**`ProjectPipeline`** models one project. `template` is what the pipeline was started
from. A stage's status is `"none"` when the project has no such row. `SeedPipeline` is
the five stages that `auto_generator.py` and `customers/service.py` make without a
template. The gate on `StageFieldCompletion`, a table no code writes, is left out.

**`WorkflowGraph`** models one workflow. A cycle and reachability are stated as what
the two searches find: a set of departments each leading into the set, and membership
in every set that contains the entries and is closed under edges.

**`Outages`** gives each cause of an incident (an alarm, a report at the desk) one row at
most, and numbers instead of formatted references. A handler reads the counts and
inserts with the next numbers in one step (`Begin`, `Insert`) and commits in a later
one, while the other session does the same; a number in use fails it. `poll` is where
the poller is: OLTs to visit, the one it lists, alarms still to handle. `known` is what
Redis holds; it is written after the last alarm of a list and it expires.

**`Forms`** models one form. A field's definition is the part of it that decides whether
a submission passes: its kind, when it is required, for which role, shown or hidden on which
other field. Of the field types three kinds are left: a heading is passed over before anything
is checked (`form_builder/validation_engine.py:609`), so a required one asks for nothing; a
computed field can be required but is never stored (`:740`); everything else is a value. Two tests of
`src/backend/tests/form_builder/test_validation_engine.py` say the same
(`test_display_only_no_errors`, `test_computed_value_not_stored`). A raw value is empty, good, against a rule or of the wrong type, which
is what validation tells apart. Publishing is three steps (read, deactivate, insert) and so are
submitting and deciding two, in sessions that overlap.

**`Partition`, `EngineFats`, `EngineGroups`, `EngineFdts`** model `run_fttx_design` with the PCC cascade, for one PON or two,
stage by stage; `stage` (`phase` in `EngineFats`, `pass` in `EngineGroups`) is the place in the code. Amounts are exact and distances are
not modelled: where the code picks the nearest road, the cheapest donor or the best
seat, any of the candidates may be picked, and where it measures whether a move helps,
it may or may not. In `EngineFats` a FAT is what it serves of each home; in `EngineFdts`,
where FATs are alike, an FDT is how many of them it holds and how its wings carry them.
A pass of repairs may stop at any time, so the passes are not counted.
`EngineGroups` is `generate_fdts` in between: there a FAT is a road and its place on it, a
road is two junctions, and a group is a sequence of FATs and a road. `box` is the dead end
that is being completed, its FATs not yet committed; `inject` holds both `dead_end_inject` and
`overflow_inject`, whose positions are the two ends of a road. An iteration of each loop of the
code is an action. The literals 4 and 5 of the code are `Wing` and `Wing + 1`. `EngineFdts`
starts from groups of any sizes, and so of those that `EngineGroups` makes.

**`NetMirror`** has the tables and two pure transformations: `Mirrored`, what
`mirror_uploaded` does in three statements (upsert, retire, relink), and `Sync`, what
`sync_derived_connections` leaves. The mirror of row `i` is asset `i`. **`LiveNetwork`** has the
requests. A commit is two actions: the check of the session's status (`AskCommit`) and
the work (`Commit` or `RollBack`), with other requests between. A move of an asset is one
action (`Move`) or two (`CheckMove`, `WriteMove`), with others between the check of the new container and
the write, which looks at nothing again. The walks are as deep as the code's, whatever that is:
`MAX_CASCADE_DEPTH` of a deletion (32, `infrastructure/deletion_service.py:39`), `MAX_WALK` of
`_check_parent` (32, `network/service.py:270`), `MAX_DEPTH` of a trace (64, `network/topology.py:175`). The
columns `cabinet_id` and `parent_splitter_id` of a box are written by no code of the application, only
by `src/scripts/seed_infrastructure_test_data.py`, so the rows that have them are `Seeds`, there before the
first request. Every write of the network goes
through `WriteNet`, as every handler ends in the sync. Codes the system makes up, ports, fibres and OLT tables (which mirror as
cabinets without children do) are left out. A promoted design enters as `CreateAsset`.

## 3. What each run checks, and what it shows

| Run | Instance | States | Shows |
|---|---|---|---|
| `design_lifecycle` | a device, a cable, a sound and a flawed plan; an engineer who submits and a manager who alone may decide; 3 versions, 3 requests, 1 deployment | 526,656 | the invariants below, `NothingReplacedIsLost`, and the refinement `Promise` |
| `edit_log` | 3 devices, 2 cables, 2 links, 1 mark; 5 starting sets; 2 operations | 64,370 | undo restores, the log is a line, patches apply, no pair is linked twice |
| `task_workflow` | 3 users, 2 departments, 4 routing rows | 67,128 | approvals, board column and routing stay consistent in any order of requests |
| `task_sessions` | 2 users, 3 routing rows, 1 overtaking request | 1,819,068 | what still holds when a handler acts on a stale row |
| `project_pipeline` | 3 users, 2 departments, 4 templates, 5 stages | 1,932 | no stage skipped, gates and approvals kept, never stuck when gates point back |
| `outages` | a tenant, two OLTs with an alarm each, a report, 1 ticket for other work, 2 faults | 273,840 | nothing known is unrecorded; an alarm that stays raised gets through |
| `forms` | 2 fields, one of them a value or a computed total, 2 roles, 2 users, 2 versions, 1 submission | 3,832,020 | one current version, and submissions fit theirs, in every overlap |
| `engine_fats` | 4 homes, one a compound of 9 or 17 customers, on 3 roads, one major; 80% coverage | 6,986 | every customer served once, no audit refuses, every repair helps |
| `engine_groups` | 4 networks of 3 to 6 roads (swaps at a junction, loans of a through road, pools of dead ends, a median with 2 PONs); wings of 3, 1 early closing per walk | 41,772 | no FAT is lost on the way to its group, no group refused, one short group per combination, and one way only to share a FAT |
| `engine_fdts` | 3 FDTs; 20 or 22 FATs on 1 PON, 29 on 2; wings of 4 | 159,566 | no FAT lost, deals fit pools, one FDT short at most, repairs keep sizes |
| `live_network` | a chain of boxes in a cabinet, a cabinet entered twice, or boxes deeper than a cascade; cascade and walk of 1 step, trace of 2; 4 files, 1 upload, 1 deletion, 1 asset and 1 cable by hand, 2 edits | 1,657,012 | the map follows the register and the links the data, deletions take what was shown and containment has no loop, through overlapping commits, stale previews and moves |

The invariants of `design_lifecycle`, in words: an editable version is not frozen
(`EditableIsUnfrozen`); what is under review or approved is what was frozen
(`ReviewedIsWhatWasFrozen`); the rows' lifecycle follows the design's
(`RowsFollowStatus`); there is one open review exactly while the design is under review
(`OneOpenReview`); a request
describes the version it names, which validation accepted
(`RequestsDescribeTheirVersion`); a deployment's approvals stand to its end
(`DeploymentGated`); whatever is built or live has the rows that were reviewed and was
priced (`LiveIsWhatWasReviewed`). `VersionsAndRequestsAgree` and `EachVersionReviewedOnce` tie the
parts together; they are conjuncts of the proved invariant and have no run of their own.

`NothingReplacedIsLost` carries one exception, `ImportRun`: `import_run`
(`design/auto_design.py:439`) assigns the imported settings before `apply_output`
freezes the version it replaces, so the design's own settings are in no snapshot,
although `src/docs/plans/Network_GIS_Unification_Plan.md:305` promises that "no design
state is ever lost".

The type invariants are proved (section 4) and not repeated in the runs.

`UndoRestoresRows` compares the working set with what the newest operation done left, up to a
parent or a cable that one of the two has lost. Lost on the side of the working set, because an undo
that deletes a device the operation had created sets references to NULL in rows of which nobody took
an image. Lost on the side of what was remembered, because an undo may also write back an
older image of a row, which still has the parent that a later deletion took away: the
deletion of the top of a chain of devices shows that.

In `engine_groups`, `OnlySwapsShare` allows for one way to share a FAT. A swap
(`_find_relay_borrow_candidate`) gives an existing group a FAT nobody has committed, and the
dead end that is being completed has not committed its own: one of these may be given
away and stays in the dead end's list too. A comment (`fttx_designer/engine/fdt_generation.py:613`)
says that no FAT can belong to two groups, and the end of the function logs it when it
happens; distances, which are not modelled, make it rare. Everything else the lock covers.

In `outages`, `AlarmsGetThrough` has one way out besides the alarm being cleared: the numbers an
alarm of that OLT would get are in use. They are counts plus one, so a purged ticket
makes the count fall below a number that is taken, and every poll then fails at the
same insert until the count changes.

In `live_network`, `RegisterIsOnTheMap` says that after every sync each active row has a live
asset with its code, and allows for one that is another's: rows that share a code,
or an asset drawn by hand, keep a row off the map.
`DeletesWhatWasShown` says what an approved deletion deactivates: only rows of its preview, although
others delete and enter rows in between, and, if no box was deeper down than the cascade
goes (`Shallow`), everything active below them. The third seed is not shallow: there the cascade stops and
a box stays active below a deleted one. `NoAssetContainsItself` is about loops of as many assets as the walk up
can see, `MAX_WALK + 1`, and until a move has been written that another move overtook (`raced`).

In `forms`, `SubmissionsFitTheirVersion` asks for the values that are required always, of every role and
in every state of the other fields, and that nothing but values is stored.

**Where the code does something else than it says.** One run checks a
statement of a comment and TLC finds a behaviour that breaks it.

| Run | The statement | What happens |
|---|---|---|
| `claim_workflow` | a terminal is "never used as from_dept_id" | the validator looks for a source instead; no graph is accepted |

A second disagreement is between docstrings and code, and the model follows the code. The docstring of `advance_stage`
says that `current_stage_id` goes "to the next active non-parallel stage"
(`projects/pipeline_service.py:193`), and that of `push_back_stage` that the previous stage is found
"skipping parallel stages going backward" (`:373`, again in the comment at `:421`). The code goes to the stage numbered
one higher or one lower, parallel or not. So a parallel stage becomes the current one and
has to be advanced like any other, and a push-back may land on one. `NothingSkipped` is about what the code does: because
no stage is passed over, exactly the stages before the current one are approved; of a pipeline that did as the
docstrings say it would be false, as a parallel stage could stay open behind the current one.

While modelling, these behaviours were met too; the models contain them, and no property
excludes them. A design deleted under review can be approved, because `decide` does not look
at `deleted_at`. A BOQ request left open by a reopened version makes the next BOQ submission
fail on a unique index although the gate offers it. Undoing the deletion of a device
does not bring back references of rows of which no image was taken (`UndoRestoresRows`
says what does come back). After a push-back the creator's earlier approval of a task still
counts. Two overlapping forwards leave two current routing rows, which `HistoryKnowsDepartment`
allows for. The gate of the stage that is left is checked, not of the next, so the
seeded seven-stage template stops at stage 2 for good (`NeverStuck` assumes gates that
point back). After the last repair of the engine, two FATs exchanged between equal places
have each other's names, which is what the engine compares to decide whether to
link again, and the audit of the links then aborts the design. A deletion leaves active what is
more than 32 boxes below what it was asked to delete, because the cascade stops there. A chain of containers
longer than 32 can be closed to a loop, because the walk that looks for one stops, and so can two
assets by two moves into each other that overlap, because each is checked before the other is
written and nothing is locked. A computed field that is required always can only be sent to be thrown
away. The second of two
overlapping commits of one upload enters cabinets twice, or sets a committed session
to rolled back. One sync is not always enough: a row whose code an older image of
another row still bears is skipped until the next one. The last cut of a walk may be moved to
the start of a branch and leave a last group that is too small, although the cut before would not.
A pool of dead ends takes the first through road at its junction for its parent and
has none if that road has no FATs, even if another there has. Groups on the two sides of a median,
which the passes keep apart, can be joined through a third or paired for two PONs.

### Bounds, and why they are enough

* *Design.* Every property relates the current version to the frozen one before it and to
  the requests for either; three versions and three requests hold a rejected review, an
  approved one and its BOQ, or a reopening with an open BOQ. Restoring, importing and
  rejecting each use a version, so all pairs of them occur. One device and one cable are
  enough for a row to be added, removed, and in a state of its own; two plans are one
  that validation accepts and one it does not. At a bound the actions that would exceed it
  are disabled, nothing else; the proofs hold for every value of the bounds.
* *Edit log.* The five starting sets are the shapes on which foreign keys act: a link with
  its cable, a chain over a closure, a device in another, and in one that is itself in another. Two operations are enough for an
  operation, its undo, a second one that cuts the redo branch, and a redo; three
  operations from the same sets are more states than a run can go through. The
  proofs hold for any number and for every starting set that keeps its foreign keys.
* *Tasks.* Three users are a staff member, a team lead who created the task, and an
  administrator. Four routing rows allow to forward, return, forward and return again.
* *Sessions.* `MaxMissed = 1`: each race between two requests.
* *Pipeline.* Five stages hold two parallel ones in a row, a gate behind and a gate ahead
  of a stage, and the seeded pipeline.

* *Outages.* Two alarms on two OLTs of one tenant share its cache and its numbers; the
  report is the third writer. One ticket opened and purged for other work is enough to put
  the count behind the numbers, and with two faults the retry after a failure can fail too.
* *Forms.* The second field is a value for one role, shown when the first is filled in and required later, or a
  total that is computed and required. Two users publish at once, or one publishes while the other submits; two versions
  are the one validated against and the one that replaces it.
* *Engine.* The homes are a compound larger than a FAT, a tail to lend and homes that two
  roads reach; the totals fill three FDTs exactly, or cannot. Capacities are the code's own: 7 to 8
  customers on a FAT, wings of 4, at least 7 FATs on an FDT per PON. In `EngineGroups` wings are of 3, the
  smallest with a dead end that needs a loan (4 FATs, where 5 are enough and 6 the most): the rules
  are stated in `Wing`, and the same cases happen on fewer FATs. Each network is built for one
  rule that needs a situation of its own; all of them go through every later stage.
  `MaxClosings` bounds how often distance ends a group early in one walk; one is enough to
  leave a short group in the middle of a walk.
* *Live network.* The chain has both kinds of dependence (box in cabinet, box below box), the twins
  what overlapping commits leave, and the boxes without a cabinet are one deeper than
  the cascade. The caps are as small as they can be, a step for a cascade and a walk and two for a trace, so that three
  assets are enough to go beyond each; the proofs hold for any. Two edits by hand reach the states in which the mirror
  has to overwrite what someone did (a rename and a move, or a deletion and a new asset), and two
  moves that overlap. Edits by hand name asset 1 and two of the three codes.

Users of `Forms` and FDTs of `EngineFdts` are interchangeable, and symmetry is declared for them;
their properties are invariants and action properties, for which it is sound. The
other runs declare none.

### Fairness and deadlock

Nothing makes a person act, so no request is fair anywhere, and what would be liveness of a
workflow ("the pipeline can go on") is stated as the absence of a state in which nothing is
accepted, `NeverStuck`. `Outages` has a part that runs by itself: Celery beat starts
the poller again and again, and it goes on to the end of its list
(`src/backend/app/core/celery_app.py`), and a database session that was opened ends. Its specification
is weakly fair in the steps of the poller and in the end of each session, by success or
failure; alarms, the desk, faults and the expiry of the cache are not fair, and a bounded
number of faults is the assumption under which `AlarmsGetThrough` holds.

`CHECK_DEADLOCK FALSE` stands where the model may stop: a deleted or promoted design whose
versions, requests and deployments are used up (`MCDesignLifecycle.cfg`), a purged task
(`MCTaskSessions.cfg`), a deleted form (`MCForms.cfg`), and a network with no file and no edit left (`MCLiveNetwork.cfg`). In the
other runs deadlock is checked.

## 4. What is proved

Each proof is of the specification itself, for every value of its constants that satisfies
its `ASSUME`s; TLC evaluates those on every run.

* **`DesignLifecycleProofs`.** `TypeCorrect`: the tables stay well formed. `Safety`: the
  inductive invariant `IInv`, the conjunction of the type invariant and the state
  invariants of the run. It is needed as a whole: that a restore brings back nothing but
  DESIGNED rows rests on what was frozen while editing, which rests on
  `EditableIsUnfrozen`; that construction stays gated rests on there being no open
  review of an approved design. From it `ReviewIsHonest`, `ConstructionIsGated`,
  `FrozenIsFrozen`, and the action property `NothingLost`. Assumed: holders and admins are
  users, there is a plan, the bounds are naturals.
  `Implements`: `Spec => Promise`, by one lemma per handler that
  says which step of `DesignPromise` it is, or that it is a stutter. `LiveAsReviewed`
  follows from the invariant of `DesignPromise` through the refinement.
* **`EditLogProofs`.** `StoryHolds`: the log tells a *story*. There are outcomes
  `full[0]`, ..., `full[n]`, one per operation of the log, in which every row still has the parent and the
  cable it was given; the forward patch of operation `s` carries `full[s-1]` to `full[s]` and its
  inverse carries it back; and the working set keeps its foreign keys and is the outcome of the
  last operation done, but for parents and cables that were lost (`LostOf`). No
  variable holds these outcomes, `past` neither: it remembers working sets, which may have lost
  something already. So the invariant says that they exist. The heart is two lemmas, that a patch that carries `a` to `b` applied to a lossy `a` gives
  a lossy `b` (`PatchLands`), and that each of the eleven operations leads from a lossy outcome
  to another by the patches it logs. From it `UndoRestores`, `PatchesAlwaysApply`, `LogStaysALine`, `TypeCorrect`, and
  `LinkedOnceHolds`, which supposes of the starting sets what it says of all later ones.
  Assumed (`StartAssumption`): a version starts from rows that have the columns of their tables
  and refer to rows that are there.
* **`TaskWorkflowProofs`.** `Safety` and from it `DualApproval`, `BoardFollows`,
  `OneDepartment` and `TypeCorrect`, by one lemma per handler, for any staff,
  authority, departments and number of hops. And of `TaskSessions`, for any number of requests that
  overtake the slow one: `SessionSafety`, and from it `SessionTypes`, `HistoryKnows` and
  the action property `DeletedNotBlocked`. Needed beside the property: the rows of
  a routing that a slow request has read are still there, in the same departments, so what it
  decides on them it writes to them; and a purged task has no routing.
* **`ProjectPipelineProofs`.** `Safety`, and from it `StagesInOrder`, `GatesKept`, `NoDeadlock`,
  `EndsComplete` and `TypeCorrect`. `NothingSkipped` is the heart: a gate behind a stage
  stays approved because exactly the stages before the current one are. Of templates only
  their type is assumed; that gates may point anywhere and orders may have gaps is why
  `NeverStuck` and `CompletedByStages` carry the conditions they do.
  Of `WorkflowGraph`, `NothingIsValid`: no graph passes `validate_workflow`, because
  its terminals are departments no edge leads to and its reachability rule leaves none;
  `NothingIsPublished` follows. It is the reason `ProjectPipeline` leaves out
  `start_graph_pipeline`.
* **`FormsProofs`.** `LatestIsCurrent`, `SubmissionsFit`, `TypeCorrect`. Needed: a version, once
  inserted, is only ever deactivated; what a submitter is about to insert fits
  already; a row under decision is no draft. `ValidatedFits` is the lemma about the
  validation itself: what passes it fits. It holds because a value that is required of everybody
  and cannot be hidden is never passed over, and because only values are stored.
* **`EngineProofs`**, of `EngineFdts`. `TypeCorrect` (no FDT over its maximum, no wing over its length), `WingsCarry`
  (the wings carry what the FDT holds), `RangeKept` (`CapacityKept`), `FatsPlaced`
  (`EveryFatHasAPlace`), `DealsFit` (`PoolsHoldTheirDeal`) and `OneShort`, by one lemma per stage, for any
  FDTs, totals, PONs and limits with a floor between one wing and two. The first three rest on `EvenDeal`
  and `TailDeal`, that groups of a deal are within bounds, and `PassedOn`, that a
  cascade keeps the size of everything it passes through. The others are about sums: `LoadCounts` says that a
  sum over a finite set counts its units (pairs of an element and a number below its value),
  by `SetInduction`, which takes the sets a hypothesis holds of as a set where the
  library's rule takes an operator; from then on sums are cardinalities (`LoadSplit`,
  `LoadMoved`, `LoadRenamed`, `EvenSum`, `TailSum`). `PoolRoom` is why a pool has room for its deal: without
  the FDT that made it large enough it was not, and what is not enough for a deal at the floor
  leaves less than an FDT more to hold. `FInv` adds to the invariant that each iteration of the last resort
  makes one FDT fewer short (`ShortShrinks`). So `OneShort` has a premise, `EnoughTries`: no more FDTs
  than `MAX_REBALANCE_ITERATIONS + 1`, 51 in the code (`repair/capacity_repair.py:55`). Of larger networks nothing
  is claimed: the loop of the code may then stop before it is through.
  Of `EngineFats`, for any homes, roads and limits: `FieldTypeCorrect`, `HomesServed`
  (`EveryHomeServed`), `NothingRefused` (`NeverRefuses`) and the action property `RepairsShrink`
  (`RepairsHelp`). `FieldInv` says of the groups of the roads, and later of the FATs, that none is
  empty or over the maximum and that for every home the sum of what they serve of it is its demand. Every
  stage cuts a line of customers and deals it out; `Cuts` says that the slices have the
  sizes dealt and that those of a home sum up to the home. Assumed (`FieldAssumption`,
  `CapacityAssumption`): finitely many homes and roads, and a FAT takes at least one customer.
* **`EngineGroupsProofs`**, with the lemmas on sums of `EngineProofs`.
  For any set of finite networks with one PON or two, any wing of two or more, and
  any bound on early closings: `GroupTypeCorrect`, `FatsKept` (`EveryFatKept`), and the action properties
  `SharedOnlyBySwaps` (`OnlySwapsShare`) and `JoinsLeaveOneShort` (`OneShortPerJoin`). `GroupInv` counts: a FAT is
  *given* as often as the groups and the dead end under completion hold it, and *left* as often as pools, roads and
  what roads took over hold it, and `Accounted` says that the two are together at least one, and
  exactly one as long as it is left. The rest is what keeps each action from breaking that: a road holds
  only its own FATs (`Own`); what a road holds uncommitted is in no group (`Locked`); dead ends take nothing over while they are
  pooled (`EndsTakeNothing`); the parent of a road is walked after it and the roads not yet walked
  are those of the walk (`Planted`); a combination has dealt out what it has taken, FAT by FAT (`Combined`); and the
  bounds (`Sized`, `BoxOpen`). Each action also satisfies `Conserves`: given and left
  keep their sum and left does not grow, but for a swap of a FAT of the box. `SharedOnlyBySwaps` is that
  lemma read for two groups. Assumed (`NilAssumption`): `Nil` is none of the values `box` takes.
* **`LiveNetworkProofs`.** `NetworkInvariant`, and from it `DeletedStaysGone`, `LinksFollow`,
  `NoContainmentLoop`, `NetworkTypes` and the action properties `DeletionsAsShown` (`DeletesWhatWasShown`) and
  `RegisterShown`, for any caps of the walks and any files, sessions and numbers of rows, assets, cables and edits. The
  invariant says of the register that its references are to rows of the right kind, and that it is whole if it is
  shallow (`Sound`); of the live network that containment has no loop of `MAX_WALK + 1` assets or fewer, unless moves
  raced, and no asset is in one that was never made; of a move that was checked, that nothing but another
  move can have made its write close a loop (`MoveOK`); that no inactive row has a live image;
  that the links follow; and of the sessions that what an upload will write has codes, that what a deletion
  matched is of its kind, that what an executed one matched is inactive, and that what a pending one would
  take now was in its preview (`Previewed`). That no asset is in one that was never made is what keeps a new asset
  from closing a loop when it is put into another. The mirror, the deletions and the renames contain no
  more than before (`LessContained`), so they leave a checked move as good as it was; a move is where the walk up is
  needed (`MovedLoopless`): a loop of so many assets through the one that moves is a walk of `MAX_WALK` steps
  that finds it. Deletions and new rows only make cascades smaller (`CascadeShrinks`). A walk with as
  many steps as it has room for stands still on the way (`WalkEnds`), by induction on the steps, which
  `NumberInduction` states with a set for the hypothesis where the library's rule takes an operator. Assumed
  (`FilesAssumption`): the rows that are there before the first upload refer to rows of the right kind, are
  whole if they are shallow, and their assets contain each other without a loop; the rows of every file
  but a cable file bear codes.
  Of `Outages`: `NothingForgotten` (`KnownIsRecorded`) and `OutageTypes`. Needed beside
  the property: what the poller has listed and not to do any more is on record, or has nobody to own it.

Only model-checked: `AlarmsGetThrough`, the liveness of `Outages`, as fairness is about
`ENABLED`, which the prover does not handle. What `claim_workflow` shows by a counterexample is also proved
(`NothingIsValid`).

## 5. What is not modelled

* Overlapping requests on a design or a pipeline: their handlers are atomic here. The
  second delivery of a worker's task, which late acknowledgement allows.
* Several designs, tasks or projects at once, and so codes of the live network that two
  designs claim, circular dependencies and ticket numbers (the last are in `Outages`).
* Of the engine: distances and shapes, the LEGACY cascade, cable routing, reports, input and
  output.
* Of the live network: ports, fibres, codes the system makes up, and the cap of 5000 rows on a trace
  (`MAX_TRACE_ROWS`, `network/topology.py:176`), beyond which `Connect` may not see a loop; of forms: uniqueness
  rules, attachments, templates, and the migrations of the table behind a form; of outages: clearing and notifications.
* What the inventory lists as reads, output or CRUD.
* Permissions are constants: they do not change while a workflow runs.

## 6. Plan

What would come next, in this order.

1. `DesignSessions`: the handlers of `DesignLifecycle` on a design loaded earlier: submit
   against the worker's `apply_output`, reopen against deploy, approve against withdraw, two
   starts of a version; and an engine run delivered twice.
2. `PipelineSessions`: advance against push-back on stale stages, and the rows a failed,
   swallowed `start_pipeline` leaves behind.
3. `TaskGraph`: dependencies between tasks and the circularity check that takes no lock.
4. `topology.py` and `cable_routing.py`: the networks that `generate_fdts` may find, and the cables
   between what the engine has placed.
