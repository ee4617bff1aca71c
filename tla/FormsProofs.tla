---------------------------- MODULE FormsProofs ----------------------------
(***************************************************************************)
(* However the handlers of a form overlap, one version is current, and a   *)
(* submission fits the version it names: for any fields, definitions,      *)
(* roles and number of users.                                              *)
(*                                                                         *)
(* Neither property is inductive.  The first needs that a publisher's      *)
(* number is not 0; the second, that versions are never rewritten, that    *)
(* what a submitter is about to insert fits already, and that a row under  *)
(* decision is not a draft, which could still be saved again.              *)
(***************************************************************************)
EXTENDS Forms, TLAPS, FiniteSetTheorems

(* One version at most is current, and it is the one the form names. *)
OneCurrent ==
  /\ \A v, w \in Current : v = w
  /\ \A v \in Current : versions[v].number = schema.current /\ schema.current > 0
  /\ schema.current > 0 => Current # {}
  /\ schema.status = "published" => Current # {}

(* What is on its way fits the version it was validated against. *)
OnTheirWay ==
  \A u \in Users :
    /\ session[u].at = "submit" =>
         /\ session[u].version \in DOMAIN versions
         /\ Fits(session[u].data, versions[session[u].version].snapshot)
    /\ session[u].at = "decide" =>
         /\ session[u].row \in DOMAIN submissions
         /\ submissions[session[u].row].status # "draft"

Filed ==
  \A i \in DOMAIN submissions : submissions[i].status # "draft" =>
    /\ submissions[i].version \in DOMAIN versions
    /\ Fits(submissions[i].data, versions[submissions[i].version].snapshot)

IInv == TypeOK /\ OneCurrent /\ OnTheirWay /\ Filed

(* Without a version appended or a row written, nothing that is filed or on
   its way is disturbed. *)
LEMMA Undisturbed ==
  ASSUME IInv, UNCHANGED <<versions, submissions>>,
         \A u \in Users : \/ session'[u] = session[u]
                          \/ session'[u].at \notin {"submit", "decide"}
  PROVE  OnTheirWay' /\ Filed'
  BY DEF IInv, OnTheirWay, Filed

LEMMA CurrentType ==
  ASSUME IInv, NEW v \in Current
  PROVE  v \in DOMAIN versions /\ v \in Nat /\ versions[v].snapshot \in Snapshots
<1>1. versions \in Seq(Version) /\ v \in DOMAIN versions  BY DEF IInv, TypeOK, Current
<1>2. v \in Nat /\ versions[v] \in Version  BY <1>1
<1> QED  BY <1>1, <1>2 DEF Version

(* What passes the validation fits (validate). *)
LEMMA ValidatedFits ==
  ASSUME NEW snapshot \in Snapshots, NEW data \in Data, NEW role \in Roles,
         NEW later \in BOOLEAN, Errors(snapshot, data, role, later) = {}
  PROVE  Fits(Coerced(snapshot, data, role), snapshot)
<1> DEFINE Values == {k \in DOMAIN snapshot : snapshot[k].kind = "value"}
<1>1. Coerced(snapshot, data, role) \subseteq Values
  BY DEF Coerced, Considered
<1>2. DOMAIN snapshot \subseteq Keys  BY DEF Snapshots
<1>3. ASSUME NEW k \in Values, snapshot[k].required = "always",
             snapshot[k].role = None, snapshot[k].action \in {"none", "require"}
      PROVE  k \in Coerced(snapshot, data, role)
  <2>1. ~Hidden(snapshot[k], data)  BY <1>3 DEF Hidden
  <2>2. k \in Considered(snapshot, data, role)  BY <1>3, <2>1 DEF Considered
  <2>3. Demanded(snapshot[k], data, later)  BY <1>3 DEF Demanded
  <2>4. k \notin Errors(snapshot, data, role, later)  OBVIOUS
  <2>5. data[k] \notin {"wrong", "malformed", "empty"}
    BY <1>3, <2>2, <2>3, <2>4 DEF Errors, TypeErrors
  <2>6. data[k] = "good"  BY <1>2, <2>5 DEF Data, Raw
  <2> QED  BY <1>3, <2>2, <2>6 DEF Coerced
<1> QED  BY <1>1, <1>3 DEF Fits

LEMMA AcceptedFits ==
  ASSUME NEW snapshot \in Snapshots, NEW stored \in Accepted(snapshot)
  PROVE  Fits(stored, snapshot) /\ stored \in SUBSET Keys
<1>1. PICK s \in Data \X Roles \X BOOLEAN :
        Errors(snapshot, s[1], s[2], s[3]) = {} /\ stored = Coerced(snapshot, s[1], s[2])
  BY DEF Accepted
<1>2. s[1] \in Data /\ s[2] \in Roles /\ s[3] \in BOOLEAN  OBVIOUS
<1>3. Fits(stored, snapshot)  BY <1>1, <1>2, ValidatedFits
<1>4. stored \in SUBSET Keys  BY <1>1 DEF Coerced, Considered, Snapshots
<1> QED  BY <1>3, <1>4

LEMMA KeptKeys ==
  ASSUME NEW snapshot \in Snapshots, NEW stored \in Kept(snapshot)
  PROVE  stored \in SUBSET Keys
BY DEF Kept, Coerced, Considered, Snapshots

LEMMA InitIInv == Init => IInv
<1> SUFFICES ASSUME Init PROVE IInv  OBVIOUS
<1>1. Current = {}  BY DEF Init, Current
<1>2. TypeOK  BY DEF Init, TypeOK, Requests
<1>3. OneCurrent  BY <1>1 DEF Init, OneCurrent
<1>4. OnTheirWay /\ Filed  BY DEF Init, OnTheirWay, Filed, Idle
<1> QED  BY <1>2, <1>3, <1>4 DEF IInv

(* The version a publisher inserts is the only one that is current, and the
   others are as they were but for that. *)
LEMMA Publishes ==
  ASSUME IInv, NEW u \in Users, PublishCommit(u)
  PROVE  IInv'
<1> DEFINE s == session[u]
           old == [v \in DOMAIN versions |-> [versions[v] EXCEPT !.current = @ /\ v \notin s.seen]]
           new == [number |-> s.number, snapshot |-> s.snapshot, current |-> TRUE]
<1>1. s \in Deactivated
  BY DEF IInv, TypeOK, PublishCommit, Requests, Idle, Publishing, Submitting, Deciding
<1>2. /\ s.number \in Nat /\ s.number > 0 /\ s.snapshot \in Snapshots
      /\ s.status \in {"draft", "published"}
  BY <1>1 DEF Deactivated
<1>3. versions \in Seq(Version) /\ Len(versions) \in Nat
      /\ DOMAIN versions = 1..Len(versions)
  BY DEF IInv, TypeOK
<1>4. \A v \in DOMAIN versions : versions[v] \in Version  BY <1>3
<1>5. \A v \in DOMAIN versions : old[v] \in Version  BY <1>4 DEF Version
<1>6. old \in Seq(Version) /\ Len(old) = Len(versions)  BY <1>3, <1>5
<1>7. new \in Version  BY <1>2 DEF Version
<1>8. versions' = Append(old, new)  BY DEF PublishCommit, Inserted
<1> DEFINE n == Len(versions)
<1> HIDE DEF s, old, new
<1>9. /\ versions' \in Seq(Version) /\ DOMAIN versions' = 1..n+1
      /\ \A v \in 1..n : versions'[v] = old[v]
      /\ versions'[n+1] = new
  BY <1>3, <1>6, <1>7, <1>8
<1>10. \A v \in 1..n : /\ old[v].number = versions[v].number
                       /\ old[v].snapshot = versions[v].snapshot
                       /\ old[v].current = (versions[v].current /\ v \notin s.seen)
  BY <1>3, <1>4 DEF old, Version
<1>11. new.current /\ new.number = s.number  BY DEF new
<1>12. Current \subseteq s.seen  BY DEF PublishCommit, s
<1>13. \A v \in 1..n : ~old[v].current  BY <1>3, <1>10, <1>12 DEF Current
<1>14. Current' = {n + 1}  BY <1>3, <1>9, <1>11, <1>13 DEF Current
<1>15. schema' = [schema EXCEPT !.current = s.number,
                    !.status = IF s.status = "draft" THEN "published" ELSE @]
  BY DEF PublishCommit, s
<1>16. /\ schema' \in [status : {"draft", "published", "archived"}, current : Nat,
                       deleted : BOOLEAN]
       /\ schema'.current = s.number
  BY <1>2, <1>15 DEF IInv, TypeOK
<1>17. OneCurrent'
  BY <1>2, <1>9, <1>11, <1>14, <1>16 DEF OneCurrent
<1>18. UNCHANGED <<live, submissions>> /\ session' = [session EXCEPT ![u] = Idle]
  BY DEF PublishCommit, Closed
<1>19. TypeOK'  BY <1>9, <1>16, <1>18 DEF IInv, TypeOK, Requests
<1>20. \A v \in DOMAIN versions : v \in DOMAIN versions' /\ versions'[v].snapshot = versions[v].snapshot
  BY <1>3, <1>9, <1>10
<1>21. Filed'  BY <1>18, <1>20 DEF IInv, Filed
<1>22. OnTheirWay'
  <2> SUFFICES ASSUME NEW x \in Users
               PROVE  /\ session'[x].at = "submit" =>
                           /\ session'[x].version \in DOMAIN versions'
                           /\ Fits(session'[x].data, versions'[session'[x].version].snapshot)
                      /\ session'[x].at = "decide" =>
                           /\ session'[x].row \in DOMAIN submissions'
                           /\ submissions'[session'[x].row].status # "draft"
    BY DEF OnTheirWay
  <2>1. CASE x = u  BY <2>1, <1>18 DEF Idle, IInv, TypeOK
  <2>2. CASE x # u  BY <2>2, <1>18, <1>20 DEF IInv, TypeOK, OnTheirWay
  <2> QED  BY <2>1, <2>2
<1> QED  BY <1>17, <1>19, <1>21, <1>22 DEF IInv

(* A submission that is inserted, or a draft, does not disturb the others. *)
LEMMA Inserts ==
  ASSUME IInv, NEW row \in Submission,
         row.status # "draft" =>
           row.version \in DOMAIN versions /\ Fits(row.data, versions[row.version].snapshot),
         submissions' = Append(submissions, row), UNCHANGED <<schema, live, versions>>,
         session' \in [Users -> Requests],
         \A u \in Users : session'[u] = session[u] \/ session'[u] = Idle
  PROVE  IInv'
<1>1. submissions \in Seq(Submission)  BY DEF IInv, TypeOK
<1>2. /\ submissions' \in Seq(Submission)
      /\ DOMAIN submissions' = 1..Len(submissions)+1 /\ Len(submissions) \in Nat
      /\ DOMAIN submissions = 1..Len(submissions)
      /\ \A i \in DOMAIN submissions : submissions'[i] = submissions[i]
      /\ submissions'[Len(submissions)+1] = row
  BY <1>1
<1>3. TypeOK' /\ OneCurrent'  BY <1>2 DEF IInv, TypeOK, OneCurrent, Current
<1>4. Filed'
  <2> SUFFICES ASSUME NEW i \in DOMAIN submissions', submissions'[i].status # "draft"
               PROVE  /\ submissions'[i].version \in DOMAIN versions
                      /\ Fits(submissions'[i].data, versions[submissions'[i].version].snapshot)
    BY DEF Filed
  <2>1. CASE i = Len(submissions) + 1  BY <2>1, <1>2
  <2>2. CASE i # Len(submissions) + 1
    <3>1. i \in DOMAIN submissions  BY <2>2, <1>2
    <3> QED  BY <3>1, <1>2 DEF IInv, Filed
  <2> QED  BY <2>1, <2>2
<1>5. OnTheirWay'
  <2> SUFFICES ASSUME NEW x \in Users
               PROVE  /\ session'[x].at = "submit" =>
                           /\ session'[x].version \in DOMAIN versions
                           /\ Fits(session'[x].data, versions[session'[x].version].snapshot)
                      /\ session'[x].at = "decide" =>
                           /\ session'[x].row \in DOMAIN submissions'
                           /\ submissions'[session'[x].row].status # "draft"
    BY DEF OnTheirWay
  <2>1. CASE session'[x] = Idle  BY <2>1 DEF Idle
  <2>2. CASE session'[x] = session[x]  BY <2>2, <1>2 DEF IInv, OnTheirWay
  <2> QED  BY <2>1, <2>2
<1> QED  BY <1>3, <1>4, <1>5 DEF IInv

(* A row that is rewritten keeps its place; if it is final it keeps its data
   and its version. *)
LEMMA Rewrites ==
  ASSUME IInv, NEW i \in DOMAIN submissions, NEW row \in Submission,
         \/ row.status = "draft" /\ submissions[i].status = "draft"
         \/ /\ row.status # "draft" /\ submissions[i].status # "draft"
            /\ row.version = submissions[i].version /\ row.data = submissions[i].data,
         submissions' = [submissions EXCEPT ![i] = row], UNCHANGED <<schema, live, versions>>,
         session' \in [Users -> Requests],
         \A u \in Users : session'[u] = session[u] \/ session'[u] = Idle
  PROVE  IInv'
<1>1. submissions \in Seq(Submission)  BY DEF IInv, TypeOK
<1>2. /\ submissions' \in Seq(Submission)
      /\ DOMAIN submissions' = DOMAIN submissions
      /\ submissions'[i] = row
      /\ \A j \in DOMAIN submissions : j # i => submissions'[j] = submissions[j]
  BY <1>1
<1>3. TypeOK' /\ OneCurrent'  BY <1>2 DEF IInv, TypeOK, OneCurrent, Current
<1>4. Filed'  BY <1>2 DEF IInv, Filed
<1>5. OnTheirWay'
  <2> SUFFICES ASSUME NEW x \in Users
               PROVE  /\ session'[x].at = "submit" =>
                           /\ session'[x].version \in DOMAIN versions
                           /\ Fits(session'[x].data, versions[session'[x].version].snapshot)
                      /\ session'[x].at = "decide" =>
                           /\ session'[x].row \in DOMAIN submissions'
                           /\ submissions'[session'[x].row].status # "draft"
    BY DEF OnTheirWay
  <2>1. CASE session'[x] = Idle  BY <2>1 DEF Idle
  <2>2. CASE session'[x] = session[x]  BY <2>2, <1>2 DEF IInv, OnTheirWay
  <2> QED  BY <2>1, <2>2
<1> QED  BY <1>3, <1>4, <1>5 DEF IInv

LEMMA NextIInv == IInv /\ [Next]_vars => IInv'
<1> SUFFICES ASSUME IInv, [Next]_vars PROVE IInv'  OBVIOUS
<1>1. ASSUME NEW k \in Keys, NEW d \in Definitions[k], WriteField(k, d) PROVE IInv'
  <2>1. /\ live' = [live EXCEPT ![k] = d]
        /\ UNCHANGED <<schema, versions, submissions, session>>
    BY <1>1 DEF WriteField
  <2>2. d \in AllDefinitions  BY DEF AllDefinitions
  <2>3. TypeOK' /\ OneCurrent'
    BY <2>1, <2>2 DEF IInv, TypeOK, OneCurrent, Current
  <2> QED  BY <2>1, <2>3, Undisturbed DEF IInv
<1>2. ASSUME NEW k \in Keys, DeleteField(k) PROVE IInv'
  <2>1. /\ live' = [live EXCEPT ![k] = None]
        /\ UNCHANGED <<schema, versions, submissions, session>>
    BY <1>2 DEF DeleteField
  <2>2. TypeOK' /\ OneCurrent'  BY <2>1 DEF IInv, TypeOK, OneCurrent, Current
  <2> QED  BY <2>1, <2>2, Undisturbed DEF IInv
<1>3. CASE ArchiveSchema \/ DeleteSchema
  <2>1. /\ schema' = [schema EXCEPT !.status = "archived"]
           \/ schema' = [schema EXCEPT !.deleted = TRUE]
        /\ UNCHANGED <<live, versions, submissions, session>>
    BY <1>3 DEF ArchiveSchema, DeleteSchema
  <2>2. TypeOK' /\ OneCurrent'  BY <2>1 DEF IInv, TypeOK, OneCurrent, Current
  <2> QED  BY <2>1, <2>2, Undisturbed DEF IInv
<1>4. ASSUME NEW u \in Users, PublishRead(u) PROVE IInv'
  <2> DEFINE n == [at |-> "publish", status |-> schema.status, number |-> schema.current + 1,
                   snapshot |-> [k \in Fields |-> live[k]]]
  <2>1. session' = [session EXCEPT ![u] = n] /\ UNCHANGED <<schema, live, versions, submissions>>
    BY <1>4 DEF PublishRead
  <2>2. [k \in Fields |-> live[k]] \in Snapshots
    <3>1. Fields \subseteq Keys  BY DEF Fields
    <3>2. \A k \in Fields : live[k] \in Definitions[k] /\ live[k] \in AllDefinitions
      BY DEF IInv, TypeOK, Fields, AllDefinitions
    <3> QED  BY <3>1, <3>2 DEF Snapshots
  <2>3. n \in Requests
    BY <1>4, <2>2 DEF IInv, TypeOK, Publishing, PublishRead, Requests
  <2>4. n.at = "publish"  OBVIOUS
  <2> HIDE DEF n
  <2>5. session' \in [Users -> Requests]  BY <2>1, <2>3 DEF IInv, TypeOK
  <2>6. TypeOK' /\ OneCurrent'  BY <2>1, <2>5 DEF IInv, TypeOK, OneCurrent, Current
  <2>7. \A x \in Users : session'[x] = session[x] \/ session'[x].at = "publish"
    BY <2>1, <2>4 DEF IInv, TypeOK
  <2> QED  BY <2>1, <2>6, <2>7, Undisturbed DEF IInv
<1>5. ASSUME NEW u \in Users, PublishDeactivate(u) PROVE IInv'
  <2> DEFINE s == session[u]
             n == [at |-> "deactivate", status |-> s.status, number |-> s.number,
                   snapshot |-> s.snapshot, seen |-> Current]
  <2>1. session' = [session EXCEPT ![u] = n] /\ UNCHANGED <<schema, live, versions, submissions>>
    BY <1>5 DEF PublishDeactivate
  <2>2. s \in Publishing
    BY <1>5 DEF IInv, TypeOK, PublishDeactivate, Requests, Idle, Deactivated, Submitting, Deciding
  <2>3. Current \in SUBSET Nat  BY DEF IInv, TypeOK, Current
  <2>4. n \in Requests  BY <2>2, <2>3 DEF Publishing, Deactivated, Requests
  <2>5. n.at = "deactivate"  OBVIOUS
  <2> HIDE DEF n
  <2>6. session' \in [Users -> Requests]  BY <2>1, <2>4 DEF IInv, TypeOK
  <2>7. TypeOK' /\ OneCurrent'  BY <2>1, <2>6 DEF IInv, TypeOK, OneCurrent, Current
  <2>8. \A x \in Users : session'[x] = session[x] \/ session'[x].at = "deactivate"
    BY <2>1, <2>5 DEF IInv, TypeOK
  <2> QED  BY <2>1, <2>7, <2>8, Undisturbed DEF IInv
<1>6. ASSUME NEW u \in Users, PublishCommit(u) PROVE IInv'
  BY <1>6, Publishes
<1>7. ASSUME NEW u \in Users, PublishRefused(u) PROVE IInv'
  <2>1. session' = [session EXCEPT ![u] = Idle] /\ UNCHANGED <<schema, live, versions, submissions>>
    BY <1>7 DEF PublishRefused, Closed
  <2>2. TypeOK' /\ OneCurrent'
    BY <2>1 DEF IInv, TypeOK, OneCurrent, Current, Requests
  <2>3. \A x \in Users : session'[x] = session[x] \/ session'[x].at = "idle"
    BY <2>1 DEF IInv, TypeOK, Idle
  <2> QED  BY <2>1, <2>2, <2>3, Undisturbed DEF IInv
<1>8. ASSUME NEW u \in Users, SubmitRead(u) PROVE IInv'
  <2>1. PICK v \in Current : \E stored \in Accepted(versions[v].snapshot) :
          session' = [session EXCEPT ![u] = [at |-> "submit", version |-> v, data |-> stored]]
    BY <1>8 DEF SubmitRead, SnapshotOf
  <2>1a. PICK stored \in Accepted(versions[v].snapshot) :
          session' = [session EXCEPT ![u] = [at |-> "submit", version |-> v, data |-> stored]]
    BY <2>1
  <2> DEFINE n == [at |-> "submit", version |-> v, data |-> stored]
  <2>2. v \in DOMAIN versions /\ v \in Nat /\ versions[v].snapshot \in Snapshots
    BY CurrentType
  <2>3. Fits(stored, versions[v].snapshot)  BY <2>2, AcceptedFits
  <2>4. stored \in SUBSET Keys  BY <2>2, AcceptedFits
  <2>5. n \in Requests  BY <2>2, <2>4 DEF Submitting, Requests
  <2>6. n.at = "submit" /\ n.version = v /\ n.data = stored  OBVIOUS
  <2>7. session' = [session EXCEPT ![u] = n]  BY <2>1a
  <2> HIDE DEF n
  <2>8. UNCHANGED <<schema, live, versions, submissions>>  BY <1>8 DEF SubmitRead
  <2>9. session' \in [Users -> Requests]  BY <2>5, <2>7 DEF IInv, TypeOK
  <2>10. TypeOK' /\ OneCurrent'  BY <2>8, <2>9 DEF IInv, TypeOK, OneCurrent, Current
  <2>11. OnTheirWay'
    BY <2>2, <2>3, <2>6, <2>7, <2>8 DEF IInv, TypeOK, OnTheirWay
  <2>12. Filed'  BY <2>8 DEF IInv, Filed
  <2> QED  BY <2>10, <2>11, <2>12 DEF IInv
<1>9. ASSUME NEW u \in Users, SubmitCommit(u) PROVE IInv'
  <2> DEFINE s == session[u]
             row == [version |-> s.version, data |-> s.data, status |-> "submitted"]
  <2>1. s \in Submitting /\ s.at = "submit"
    BY <1>9 DEF IInv, TypeOK, SubmitCommit, Requests, Idle, Deactivated, Publishing, Deciding
  <2>2. row \in Submission  BY <2>1 DEF Submitting, Submission
  <2>3. row.version \in DOMAIN versions /\ Fits(row.data, versions[row.version].snapshot)
    BY <2>1 DEF IInv, OnTheirWay
  <2>4. /\ submissions' = Append(submissions, row) /\ UNCHANGED <<schema, live, versions>>
        /\ session' = [session EXCEPT ![u] = Idle]
    BY <1>9 DEF SubmitCommit, Closed
  <2> HIDE DEF row
  <2>5. session' \in [Users -> Requests]  BY <2>4 DEF IInv, TypeOK, Requests
  <2>6. \A x \in Users : session'[x] = session[x] \/ session'[x] = Idle
    BY <2>4 DEF IInv, TypeOK
  <2> QED  BY <2>2, <2>3, <2>4, <2>5, <2>6, Inserts
<1>10. ASSUME SaveDraft PROVE IInv'
  <2>1. PICK v \in Current : \E stored \in Kept(versions[v].snapshot) :
          \/ submissions' = Append(submissions,
                              [version |-> v, data |-> stored, status |-> "draft"])
          \/ \E i \in DOMAIN submissions :
               /\ submissions[i].status = "draft"
               /\ submissions' = [submissions EXCEPT ![i].data = stored]
    BY <1>10 DEF SaveDraft, SnapshotOf
  <2>1a. PICK stored \in Kept(versions[v].snapshot) :
          \/ submissions' = Append(submissions,
                              [version |-> v, data |-> stored, status |-> "draft"])
          \/ \E i \in DOMAIN submissions :
               /\ submissions[i].status = "draft"
               /\ submissions' = [submissions EXCEPT ![i].data = stored]
    BY <2>1
  <2> DEFINE row == [version |-> v, data |-> stored, status |-> "draft"]
  <2>2. v \in Nat /\ versions[v].snapshot \in Snapshots  BY CurrentType
  <2>3. stored \in SUBSET Keys  BY <2>2, KeptKeys
  <2>4. UNCHANGED <<schema, live, versions, session>>  BY <1>10 DEF SaveDraft
  <2>5. session' \in [Users -> Requests]  BY <2>4 DEF IInv, TypeOK
  <2>6. CASE submissions' = Append(submissions, row)
    <3>1. row \in Submission /\ row.status = "draft"  BY <2>2, <2>3 DEF Submission
    <3> HIDE DEF row
    <3> QED  BY <2>4, <2>5, <2>6, <3>1, Inserts
  <2>7. ASSUME NEW i \in DOMAIN submissions, submissions[i].status = "draft",
               submissions' = [submissions EXCEPT ![i].data = stored]
        PROVE  IInv'
    <3> DEFINE new == [submissions[i] EXCEPT !.data = stored]
    <3>1. submissions[i] \in Submission  BY DEF IInv, TypeOK
    <3>2. new \in Submission /\ new.status = "draft"
      BY <2>3, <2>7, <3>1 DEF Submission
    <3>3. submissions' = [submissions EXCEPT ![i] = new]  BY <2>7
    <3> HIDE DEF new
    <3> QED  BY <2>4, <2>5, <2>7, <3>2, <3>3, Rewrites
  <2> QED  BY <2>1a, <2>6, <2>7
<1>11. ASSUME NEW u \in Users, NEW i \in DOMAIN submissions,
              NEW verdict \in {"approved", "rejected"}, DecideRead(u, i, verdict)
       PROVE  IInv'
  <2> DEFINE n == [at |-> "decide", row |-> i, verdict |-> verdict]
  <2>1. session' = [session EXCEPT ![u] = n] /\ UNCHANGED <<schema, live, versions, submissions>>
    BY <1>11 DEF DecideRead
  <2>2. i \in Nat  BY DEF IInv, TypeOK
  <2>3. n \in Requests /\ n.at = "decide" /\ n.row = i
    BY <2>2 DEF Deciding, Requests
  <2> HIDE DEF n
  <2>4. session' \in [Users -> Requests]  BY <2>1, <2>3 DEF IInv, TypeOK
  <2>5. TypeOK' /\ OneCurrent'  BY <2>1, <2>4 DEF IInv, TypeOK, OneCurrent, Current
  <2>6. submissions[i].status # "draft"  BY <1>11 DEF DecideRead
  <2>7. OnTheirWay'  BY <2>1, <2>3, <2>6 DEF IInv, TypeOK, OnTheirWay
  <2>8. Filed'  BY <2>1 DEF IInv, Filed
  <2> QED  BY <2>5, <2>7, <2>8 DEF IInv
<1>12. ASSUME NEW u \in Users, DecideCommit(u) PROVE IInv'
  <2> DEFINE s == session[u]
             new == [submissions[s.row] EXCEPT !.status = s.verdict]
  <2>1. s \in Deciding /\ s.at = "decide"
    BY <1>12 DEF IInv, TypeOK, DecideCommit, Requests, Idle, Deactivated, Publishing, Submitting
  <2>2. s.row \in DOMAIN submissions /\ submissions[s.row].status # "draft"
    BY <2>1 DEF IInv, OnTheirWay
  <2>3. submissions[s.row] \in Submission  BY <2>2 DEF IInv, TypeOK
  <2>4. /\ new \in Submission /\ new.status # "draft"
        /\ new.version = submissions[s.row].version /\ new.data = submissions[s.row].data
    BY <2>1, <2>3 DEF Submission, Deciding
  <2>5. /\ submissions' = [submissions EXCEPT ![s.row] = new]
        /\ UNCHANGED <<schema, live, versions>> /\ session' = [session EXCEPT ![u] = Idle]
    BY <1>12 DEF DecideCommit, Closed
  <2> HIDE DEF new, s
  <2>6. session' \in [Users -> Requests]  BY <2>5 DEF IInv, TypeOK, Requests
  <2>7. \A x \in Users : session'[x] = session[x] \/ session'[x] = Idle
    BY <2>5 DEF IInv, TypeOK
  <2> QED  BY <2>2, <2>4, <2>5, <2>6, <2>7, Rewrites
<1>13. CASE UNCHANGED vars
  BY <1>13 DEF vars, IInv, TypeOK, OneCurrent, Current, OnTheirWay, Filed
<1> QED
  BY <1>1, <1>2, <1>3, <1>4, <1>5, <1>6, <1>7, <1>8, <1>9, <1>10, <1>11, <1>12, <1>13
  DEF Next

(* Every state of the form builder's tables is well typed. *)
THEOREM TypeCorrect == Spec => []TypeOK
<1>1. IInv => TypeOK  BY DEF IInv
<1> QED  BY <1>1, InitIInv, NextIInv, PTL DEF Spec

(* The version that is current is unique, and the one the form names, for any
   number of publishers in any order (publish_schema, migration 0078). *)
THEOREM LatestIsCurrent == Spec => []CurrentAgrees
<1>1. IInv => CurrentAgrees
  <2> SUFFICES ASSUME IInv PROVE CurrentAgrees  OBVIOUS
  <2>1. Cardinality(Current) <= 1
    <3>1. CASE Current = {}  BY <3>1, FS_EmptySet
    <3>2. ASSUME NEW v \in Current PROVE Cardinality(Current) = 1
      <4>1. Current = {v}  BY DEF IInv, OneCurrent
      <4> QED  BY <4>1, FS_Singleton
    <3> QED  BY <3>1, <3>2
  <2> QED  BY <2>1 DEF IInv, OneCurrent, CurrentAgrees, TypeOK
<1> QED  BY <1>1, InitIInv, NextIInv, PTL DEF Spec

(* No edit or publication that comes between changes what a final submission
   answers to (submit_form). *)
THEOREM SubmissionsFit == Spec => []SubmissionsFitTheirVersion
<1>1. IInv => SubmissionsFitTheirVersion
  BY DEF IInv, Filed, SubmissionsFitTheirVersion
<1> QED  BY <1>1, InitIInv, NextIInv, PTL DEF Spec
=============================================================================
