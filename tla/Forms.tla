------------------------------- MODULE Forms -------------------------------
(***************************************************************************)
(* A form of the form builder: its field definitions are edited and        *)
(* published as immutable versions, and people fill the current version    *)
(* in.  Publishing, submitting and deciding each read in one statement and *)
(* write in a later one, in sessions that overlap.                         *)
(***************************************************************************)
EXTENDS Naturals, Sequences, FiniteSets

CONSTANTS
  Keys,         \* field keys
  Definitions,  \* what each field can be defined as
  Roles, Users,
  None,
  MaxVersions, MaxSubmissions  \* bounds: versions published, rows written

(* A definition: whether the field is filled in, computed or a heading, when it is
   required, the role that may edit it (None: every role), the condition on another
   field that shows, hides or requires it. *)
DefinitionType ==
  [kind : {"value", "computed", "section_header"},
   required : {"never", "later", "always"}, role : Roles \cup {None},
   action : {"none", "show", "hide", "require"}, on : Keys]

AllDefinitions == UNION {Definitions[k] : k \in Keys}

VARIABLES
  schema,       \* the form_schemas row
  live,         \* the live field definitions, None where there is none
  versions,     \* form_schema_versions, in the order of their insertion
  submissions,  \* form_submissions, likewise
  session       \* requests in the middle of a handler

vars == <<schema, live, versions, submissions, session>>

(* A raw value: coerced to nothing, acceptable, against a rule, not of the type. *)
Raw == {"empty", "good", "wrong", "malformed"}
Data == [Keys -> Raw]
Snapshots == {f \in UNION {[K -> AllDefinitions] : K \in SUBSET Keys} :
                \A k \in DOMAIN f : f[k] \in Definitions[k]}

Version == [number : Nat \ {0}, snapshot : Snapshots, current : BOOLEAN]
Submission == [version : Nat, data : SUBSET Keys,
               status : {"draft", "submitted", "approved", "rejected"}]

Idle == [at |-> "idle"]
Publishing ==
  [at : {"publish"}, status : {"draft", "published"}, number : Nat \ {0},
   snapshot : Snapshots]
Deactivated ==
  [at : {"deactivate"}, status : {"draft", "published"}, number : Nat \ {0},
   snapshot : Snapshots, seen : SUBSET Nat]
Submitting == [at : {"submit"}, version : Nat, data : SUBSET Keys]
Deciding == [at : {"decide"}, row : Nat, verdict : {"approved", "rejected"}]
Requests == {Idle} \cup Publishing \cup Deactivated \cup Submitting \cup Deciding

TypeOK ==
  /\ schema \in [status : {"draft", "published", "archived"},
                 current : Nat, deleted : BOOLEAN]
  /\ live \in [Keys -> AllDefinitions \cup {None}]
  /\ \A k \in Keys : live[k] \in Definitions[k] \cup {None}
  /\ versions \in Seq(Version) /\ submissions \in Seq(Submission)
  /\ session \in [Users -> Requests]

Current == {v \in DOMAIN versions : versions[v].current}
Fields == {k \in Keys : live[k] # None}
Closed(u) == [session EXCEPT ![u] = Idle]

Init ==
  /\ schema = [status |-> "draft", current |-> 0, deleted |-> FALSE]
  /\ live = [k \in Keys |-> None]
  /\ versions = <<>> /\ submissions = <<>>
  /\ session = [u \in Users |-> Idle]

-----------------------------------------------------------------------------
(* validation_engine.validate: conditions are evaluated on the raw data. *)

Triggered(d, data) == d.action # "none" /\ data[d.on] # "empty"
Hidden(d, data) ==
  \/ d.action = "hide" /\ Triggered(d, data)
  \/ d.action = "show" /\ ~Triggered(d, data)

(* Headings, and fields that are hidden or of another role, are passed over silently. *)
Considered(snapshot, data, role) ==
  {k \in DOMAIN snapshot : /\ snapshot[k].kind # "section_header"
                           /\ ~Hidden(snapshot[k], data) /\ snapshot[k].role \in {None, role}}

Demanded(d, data, later) ==
  \/ d.required = "always"
  \/ d.required = "later" /\ later
  \/ d.action = "require" /\ Triggered(d, data)

(* The value of a computed field is taken as it is: it has no type and no rules. *)
TypeErrors(snapshot, data, role) ==
  {k \in Considered(snapshot, data, role) : snapshot[k].kind = "value" /\ data[k] = "malformed"}

Errors(snapshot, data, role, later) ==
  TypeErrors(snapshot, data, role) \cup
  {k \in Considered(snapshot, data, role) :
     \/ snapshot[k].kind = "value" /\ data[k] = "wrong"
     \/ data[k] = "empty" /\ Demanded(snapshot[k], data, later)}

(* coerced_data: what is stored, which a computed value never is. *)
Coerced(snapshot, data, role) ==
  {k \in Considered(snapshot, data, role) : snapshot[k].kind = "value" /\ data[k] = "good"}

(* What somebody may submit, or keep as a draft, under a version. *)
Accepted(snapshot) ==
  {Coerced(snapshot, s[1], s[2]) :
     s \in {s \in Data \X Roles \X BOOLEAN : Errors(snapshot, s[1], s[2], s[3]) = {}}}
Kept(snapshot) ==
  {Coerced(snapshot, s[1], s[2]) :
     s \in {s \in Data \X Roles : TypeErrors(snapshot, s[1], s[2]) = {}}}

-----------------------------------------------------------------------------
(* The form and its fields, edited in single transactions. *)

(* create_field, update_field *)
WriteField(k, d) ==
  /\ ~schema.deleted /\ schema.status # "archived" /\ live[k] # d
  /\ live' = [live EXCEPT ![k] = d]
  /\ UNCHANGED <<schema, versions, submissions, session>>

DeleteField(k) ==
  /\ ~schema.deleted /\ schema.status # "archived" /\ live[k] # None
  /\ live' = [live EXCEPT ![k] = None]
  /\ UNCHANGED <<schema, versions, submissions, session>>

ArchiveSchema ==
  /\ ~schema.deleted /\ schema.status # "archived"
  /\ schema' = [schema EXCEPT !.status = "archived"]
  /\ UNCHANGED <<live, versions, submissions, session>>

DeleteSchema ==
  /\ ~schema.deleted /\ submissions = <<>>
  /\ schema' = [schema EXCEPT !.deleted = TRUE]
  /\ UNCHANGED <<live, versions, submissions, session>>

-----------------------------------------------------------------------------
(* publish_schema: the form and its fields are read, then the versions that
   are current updated, the new one inserted.  (The fields are stamped with it;
   nothing reads the stamp.) *)

PublishRead(u) ==
  /\ session[u] = Idle /\ ~schema.deleted /\ schema.status # "archived" /\ Fields # {}
  /\ session' = [session EXCEPT ![u] =
       [at |-> "publish", status |-> schema.status, number |-> schema.current + 1,
        snapshot |-> [k \in Fields |-> live[k]]]]
  /\ UNCHANGED <<schema, live, versions, submissions>>

(* The update waits for a publisher that is updating, but does not see the
   version that one inserts. *)
PublishDeactivate(u) ==
  /\ session[u].at = "publish"
  /\ session' = [session EXCEPT ![u] =
       [at |-> "deactivate", status |-> @.status, number |-> @.number,
        snapshot |-> @.snapshot, seen |-> Current]]
  /\ UNCHANGED <<schema, live, versions, submissions>>

(* Mutant of Inserted: the version that was current stays so. *)
InsertedBeside(s) == Append(versions, [number |-> s.number, snapshot |-> s.snapshot, current |-> TRUE])

Inserted(s) ==
  Append([v \in DOMAIN versions |-> [versions[v] EXCEPT !.current = @ /\ v \notin s.seen]],
         [number |-> s.number, snapshot |-> s.snapshot, current |-> TRUE])

(* One version is current: the unique index refuses another one.  The status
   is written only if it was read as draft. *)
PublishCommit(u) ==
  LET s == session[u] IN
  /\ s.at = "deactivate" /\ Current \subseteq s.seen
  /\ Len(versions) < MaxVersions
  /\ versions' = Inserted(s)
  /\ schema' = [schema EXCEPT !.current = s.number,
                              !.status = IF s.status = "draft" THEN "published" ELSE @]
  /\ session' = Closed(u)
  /\ UNCHANGED <<live, submissions>>

PublishRefused(u) ==
  /\ session[u].at = "deactivate" /\ ~(Current \subseteq session[u].seen)
  /\ session' = Closed(u)
  /\ UNCHANGED <<schema, live, versions, submissions>>

-----------------------------------------------------------------------------
(* Submissions.  What is validated, the version's snapshot, is read with it. *)

(* Mutant of SnapshotOf: the fields as they are now. *)
LiveSnapshotOf(v) == [k \in Fields |-> live[k]]

SnapshotOf(v) == versions[v].snapshot

(* submit_form up to the insert: published, and valid in the current version. *)
SubmitRead(u) ==
  /\ session[u] = Idle /\ ~schema.deleted /\ schema.status = "published"
  /\ \E v \in Current : \E stored \in Accepted(SnapshotOf(v)) :
       session' = [session EXCEPT ![u] = [at |-> "submit", version |-> v, data |-> stored]]
  /\ UNCHANGED <<schema, live, versions, submissions>>

SubmitCommit(u) ==
  /\ session[u].at = "submit" /\ Len(submissions) < MaxSubmissions
  /\ submissions' = Append(submissions, [version |-> session[u].version,
                             data |-> session[u].data, status |-> "submitted"])
  /\ session' = Closed(u)
  /\ UNCHANGED <<schema, live, versions>>

(* save_draft_submission: only values of the wrong type are refused.  A draft
   is a row of its own; saved again it keeps its version, whatever the data
   were validated against.  Before the first version the insert lacks one. *)
SaveDraft ==
  /\ ~schema.deleted /\ schema.status = "published"
  /\ \E v \in Current : \E stored \in Kept(SnapshotOf(v)) :
       \/ /\ Len(submissions) < MaxSubmissions
          /\ submissions' = Append(submissions,
                              [version |-> v, data |-> stored, status |-> "draft"])
       \/ \E i \in DOMAIN submissions :
            /\ submissions[i].status = "draft"
            /\ submissions' = [submissions EXCEPT ![i].data = stored]
  /\ UNCHANGED <<schema, live, versions, session>>

(* approve_submission, reject_submission: the status is checked when the row
   is read, and written without looking again. *)
DecideRead(u, i, verdict) ==
  /\ session[u] = Idle /\ submissions[i].status = "submitted"
  /\ session' = [session EXCEPT ![u] = [at |-> "decide", row |-> i, verdict |-> verdict]]
  /\ UNCHANGED <<schema, live, versions, submissions>>

DecideCommit(u) ==
  /\ session[u].at = "decide"
  /\ submissions' = [submissions EXCEPT ![session[u].row].status = session[u].verdict]
  /\ session' = Closed(u)
  /\ UNCHANGED <<schema, live, versions>>

-----------------------------------------------------------------------------
Next ==
  \/ \E k \in Keys : \E d \in Definitions[k] : WriteField(k, d)
  \/ \E k \in Keys : DeleteField(k)
  \/ ArchiveSchema \/ DeleteSchema
  \/ \E u \in Users : \/ PublishRead(u) \/ PublishDeactivate(u)
                      \/ PublishCommit(u) \/ PublishRefused(u)
                      \/ SubmitRead(u) \/ SubmitCommit(u) \/ DecideCommit(u)
  \/ SaveDraft
  \/ \E u \in Users, i \in DOMAIN submissions, verdict \in {"approved", "rejected"} :
       DecideRead(u, i, verdict)

Spec == Init /\ [][Next]_vars

-----------------------------------------------------------------------------
(* However publishers overlap, one version is current once the form has been
   published, and it is the one the form's row names: the renderer and the
   submissions use what was published last (router.py, migration 0078). *)
CurrentAgrees ==
  /\ Cardinality(Current) <= 1
  /\ schema.current > 0 <=> Current # {}
  /\ \A v \in Current : versions[v].number = schema.current
  /\ schema.status = "published" => Current # {}

(* The values a version asks of everybody are there, and none it does not ask for. *)
Fits(data, snapshot) ==
  LET Values == {k \in DOMAIN snapshot : snapshot[k].kind = "value"} IN
  /\ data \subseteq Values
  /\ \A k \in Values :
       /\ snapshot[k].required = "always" /\ snapshot[k].role = None
       /\ snapshot[k].action \in {"none", "require"}
       => k \in data

(* Every final submission has the values the version it names asks of everybody,
   and no other key, computed ones and headings among them, whatever was published
   or edited while it was being written (submission_router.py, models.py). *)
SubmissionsFitTheirVersion ==
  \A i \in DOMAIN submissions : submissions[i].status # "draft" =>
    Fits(submissions[i].data, versions[submissions[i].version].snapshot)
=============================================================================
