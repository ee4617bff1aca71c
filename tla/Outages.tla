------------------------------ MODULE Outages ------------------------------
(***************************************************************************)
(* How outage incidents come to be: alarms that SmartOLT lists, found by   *)
(* the poller or pushed to the webhook, and reports logged at the desk.    *)
(* Every handler reads the numbers in use, inserts with the next ones and  *)
(* commits, in a session of its own, while the others do the same.         *)
(***************************************************************************)
EXTENDS Naturals, FiniteSets

CONSTANTS
  Tenants, OLTs, Alarms, Reports, Ids,
  Owner,      \* the tenant of an OLT or a report
  Source,     \* the OLT of an alarm
  EventId,    \* the id SmartOLT gives an alarm
  Staffed,    \* tenants with an active user to own an incident
  NoOLT,
  MaxTasks,   \* bound: numbers of the tickets opened for other work
  MaxFaults   \* bound: failed calls, lost connections, purged tickets

Causes == Alarms \cup Reports
TenantOf(c) == IF c \in Alarms THEN Owner[Source[c]] ELSE Owner[c]

ASSUME CausesAssumption ==
  /\ Owner \in [OLTs \cup Reports -> Tenants]
  /\ Source \in [Alarms -> OLTs]
  /\ EventId \in [Alarms -> Ids]
  /\ Staffed \subseteq Tenants
  /\ NoOLT \notin OLTs
  /\ IsFiniteSet(Causes) /\ Alarms \cap Reports = {}

(* Within a tenant's SmartOLT account an id names one alarm. *)
ASSUME IdsAssumption ==
  \A a, b \in Alarms : EventId[a] = EventId[b] /\ TenantOf(a) = TenantOf(b) => a = b

ASSUME BoundsAssumption == MaxTasks \in Nat /\ MaxFaults \in Nat

VARIABLES
  raised,    \* alarms the SmartOLT API lists now
  known,     \* per tenant, the alarm ids cached in Redis
  reference, \* per cause, the number of its row in outage_incidents, 0 if none
  tickets,   \* per tenant, the ticket numbers in use
  session,   \* database sessions in the middle of a handler
  poll,      \* the poller: the OLTs to visit, the OLT being handled
  faults

outageVars == <<raised, known, reference, tickets, session, poll, faults>>

DbSessions == {"poll", "request"}
Idle == [at |-> "idle"]
Handling == [at : {"open", "sent"}, cause : Causes, ref : Nat, ticket : Nat]
NoPoll == [left |-> {}, olt |-> NoOLT, listed |-> {}, todo |-> {}]

OutageTypeOK ==
  /\ raised \subseteq Alarms
  /\ known \in [Tenants -> SUBSET Ids]
  /\ reference \in [Causes -> Nat]
  /\ tickets \in [Tenants -> SUBSET Nat]
  /\ session \in [DbSessions -> {Idle} \cup Handling]
  /\ poll \in [left : SUBSET OLTs, olt : OLTs \cup {NoOLT},
               listed : SUBSET Alarms, todo : SUBSET Alarms]
  /\ faults \in 0..MaxFaults

Recorded == {c \in Causes : reference[c] # 0}
Fault == faults < MaxFaults /\ faults' = faults + 1

OutageInit ==
  /\ raised = {} /\ reference = [c \in Causes |-> 0]
  /\ known = [t \in Tenants |-> {}] /\ tickets = [t \in Tenants |-> {}]
  /\ session = [s \in DbSessions |-> Idle] /\ poll = NoPoll /\ faults = 0

-----------------------------------------------------------------------------
(* Outside: alarms come and go; other work opens tickets with the next number
   after the highest, keeps them, or is purged. *)

Raise(a) ==
  /\ a \notin raised /\ raised' = raised \cup {a}
  /\ UNCHANGED <<known, reference, tickets, session, poll, faults>>

Clear(a) ==
  /\ a \in raised /\ raised' = raised \ {a}
  /\ UNCHANGED <<known, reference, tickets, session, poll, faults>>

OpenTicket(t) ==
  /\ \E n \in 1..MaxTasks : /\ \A k \in tickets[t] : k < n
                            /\ n > 1 => n - 1 \in tickets[t]
                            /\ tickets' = [tickets EXCEPT ![t] = @ \cup {n}]
  /\ UNCHANGED <<raised, known, reference, session, poll, faults>>

PurgeTicket(t) ==
  /\ Fault
  /\ \E n \in tickets[t] : tickets' = [tickets EXCEPT ![t] = @ \ {n}]
  /\ UNCHANGED <<raised, known, reference, session, poll>>

-----------------------------------------------------------------------------
(* handle_smartolt_event and log_outage, in a session s. *)

(* Both numbers are counts of the tenant's rows, plus one.  The tickets are
   counted a statement later than the incidents; here both are read at once. *)
Opened(c) ==
  [at |-> "open", cause |-> c,
   ref |-> Cardinality({d \in Recorded : TenantOf(d) = TenantOf(c)}) + 1,
   ticket |-> Cardinality(tickets[TenantOf(c)]) + 1]

(* Not yet recorded, and somebody to own the incident. *)
Handles(a) == a \notin Recorded /\ TenantOf(a) \in Staffed

Begin(s, c) == session[s] = Idle /\ session' = [session EXCEPT ![s] = Opened(c)]

(* The unique constraints: the reference and the event id hold across
   tenants, the ticket number within one.  A report has neither an event id
   nor a ticket. *)
Collides(c, d) ==
  \/ c.ref = d.ref
  \/ /\ c.cause \in Alarms /\ d.cause \in Alarms
     /\ \/ EventId[c.cause] = EventId[d.cause]
        \/ TenantOf(c.cause) = TenantOf(d.cause) /\ c.ticket = d.ticket

Clashes(c) ==
  \/ \E d \in Recorded : reference[d] = c.ref
  \/ /\ c.cause \in Alarms
     /\ \/ \E d \in Recorded \cap Alarms : EventId[d] = EventId[c.cause]
        \/ c.ticket \in tickets[TenantOf(c.cause)]

(* The insert waits for a session that has inserted a number it needs. *)
Insert(s) ==
  /\ session[s].at = "open" /\ ~Clashes(session[s])
  /\ \A o \in DbSessions \ {s} : session[o].at = "sent" => ~Collides(session[s], session[o])
  /\ session' = [session EXCEPT ![s].at = "sent"]
  /\ UNCHANGED <<raised, known, reference, tickets, poll, faults>>

(* Mutant of Abandoned: only the alarm is skipped, and then remembered. *)
AbandonedAlarmOnly(s) ==
  IF s = "poll" THEN [poll EXCEPT !.todo = @ \ {session[s].cause}] ELSE poll

(* An OLT whose handling fails is left until the next poll. *)
Abandoned(s) == IF s = "poll" THEN [NoPoll EXCEPT !.left = poll.left] ELSE poll

(* A clash ends the session: the failed flush of the ticket is caught, but the
   session it leaves behind refuses the timeline entry that follows. *)
Fail(s) ==
  /\ session[s].at = "open" /\ Clashes(session[s])
  /\ session' = [session EXCEPT ![s] = Idle] /\ poll' = Abandoned(s)
  /\ UNCHANGED <<raised, known, reference, tickets, faults>>

CommitIncident(s) ==
  LET c == session[s] IN
  /\ c.at = "sent"
  /\ reference' = [reference EXCEPT ![c.cause] = c.ref]
  /\ tickets' = IF c.cause \in Alarms
                THEN [tickets EXCEPT ![TenantOf(c.cause)] = @ \cup {c.ticket}]
                ELSE tickets
  /\ session' = [session EXCEPT ![s] = Idle]
  /\ poll' = IF s = "poll" THEN [poll EXCEPT !.todo = @ \ {c.cause}] ELSE poll
  /\ UNCHANGED <<raised, known, faults>>

(* The connection or the process is lost before the commit. *)
Lose(s) ==
  /\ session[s] # Idle /\ Fault
  /\ session' = [session EXCEPT ![s] = Idle] /\ poll' = Abandoned(s)
  /\ UNCHANGED <<raised, known, reference, tickets>>

Webhook(a) ==
  /\ Handles(a) /\ Begin("request", a)
  /\ UNCHANGED <<raised, known, reference, tickets, poll, faults>>

LogOutage(r) ==
  /\ r \notin Recorded /\ Begin("request", r)
  /\ UNCHANGED <<raised, known, reference, tickets, poll, faults>>

-----------------------------------------------------------------------------
(* smartolt.poll_alarms *)

PollStart ==
  /\ poll = NoPoll /\ poll' = [NoPoll EXCEPT !.left = OLTs]
  /\ UNCHANGED <<raised, known, reference, tickets, session, faults>>

(* The alarms of OLT o; to handle are those whose id is not in the cache. *)
Fetch(o) ==
  LET listed == {a \in raised : Source[a] = o} IN
  /\ o \in poll.left /\ poll.olt = NoOLT
  /\ poll' = [left |-> poll.left \ {o}, olt |-> o, listed |-> listed,
              todo |-> {a \in listed : EventId[a] \notin known[Owner[o]]}]
  /\ UNCHANGED <<raised, known, reference, tickets, session, faults>>

FetchFails(o) ==
  /\ o \in poll.left /\ poll.olt = NoOLT /\ Fault
  /\ poll' = [poll EXCEPT !.left = @ \ {o}]
  /\ UNCHANGED <<raised, known, reference, tickets, session>>

Handle(a) ==
  /\ a \in poll.todo /\ session["poll"] = Idle
  /\ IF Handles(a)
     THEN Begin("poll", a) /\ UNCHANGED poll
     ELSE poll' = [poll EXCEPT !.todo = @ \ {a}] /\ UNCHANGED session
  /\ UNCHANGED <<raised, known, reference, tickets, faults>>

(* Mutant of Remember: the alarms listed by then, not those that were handled. *)
RememberLatest ==
  /\ poll.olt # NoOLT /\ poll.todo = {}
  /\ known' = [known EXCEPT ![Owner[poll.olt]] = {EventId[a] : a \in raised}]
  /\ poll' = [NoPoll EXCEPT !.left = poll.left]
  /\ UNCHANGED <<raised, reference, tickets, session, faults>>

(* One cache entry per tenant: each OLT's list replaces the one before. *)
Remember ==
  /\ poll.olt # NoOLT /\ poll.todo = {}
  /\ known' = [known EXCEPT ![Owner[poll.olt]] = {EventId[a] : a \in poll.listed}]
  /\ poll' = [NoPoll EXCEPT !.left = poll.left]
  /\ UNCHANGED <<raised, reference, tickets, session, faults>>

(* The cache entry expires after 300 seconds. *)
Expire(t) ==
  /\ known[t] # {} /\ known' = [known EXCEPT ![t] = {}]
  /\ UNCHANGED <<raised, reference, tickets, session, poll, faults>>

-----------------------------------------------------------------------------
OutageNext ==
  \/ \E a \in Alarms : Raise(a) \/ Clear(a) \/ Webhook(a) \/ Handle(a)
  \/ \E t \in Tenants : OpenTicket(t) \/ PurgeTicket(t) \/ Expire(t)
  \/ \E r \in Reports : LogOutage(r)
  \/ \E s \in DbSessions : Insert(s) \/ Fail(s) \/ CommitIncident(s) \/ Lose(s)
  \/ \E o \in OLTs : Fetch(o) \/ FetchFails(o)
  \/ PollStart \/ Remember

(* The beat schedule starts the poller every minute, it goes on to its end,
   and a session that is open ends.  Nobody has to raise an alarm or to log
   an outage. *)
Poller == \/ PollStart \/ Remember
          \/ \E o \in OLTs : Fetch(o)
          \/ \E a \in Alarms : Handle(a)

Fairness ==
  /\ WF_outageVars(Poller)
  /\ \A s \in DbSessions : WF_outageVars(Insert(s) \/ Fail(s) \/ CommitIncident(s))

OutageSpec == OutageInit /\ [][OutageNext]_outageVars /\ Fairness

-----------------------------------------------------------------------------
(* What the cache keeps from the handler is on record: no failure between the
   list and the commit makes the poller forget an alarm, and the entries of
   several OLTs do not hide each other's (smartolt_polling.py). *)
KnownIsRecorded ==
  \A a \in Alarms : /\ TenantOf(a) \in Staffed
                    /\ EventId[a] \in known[TenantOf(a)]
                    => a \in Recorded

(* The numbers an alarm would get now are in use: each is a count. *)
NumbersInUse(a) == Clashes(Opened(a))

(* Whatever fails on the way, an alarm that stays raised becomes an incident,
   unless the numbers it would get are taken (handler.py, smartolt_polling.py). *)
AlarmsGetThrough ==
  \A a \in Alarms :
    a \in raised /\ TenantOf(a) \in Staffed
      ~> \/ a \notin raised \/ a \in Recorded
         \/ \E b \in Alarms : Source[b] = Source[a] /\ NumbersInUse(b)
=============================================================================
