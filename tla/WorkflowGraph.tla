---------------------------- MODULE WorkflowGraph ----------------------------
(***************************************************************************)
(* A department workflow: a graph of departments that is drawn as a draft, *)
(* validated (organisation/workflow_validator.py) and published            *)
(* (organisation/workflow_service.py).  A published one starts a project's *)
(* pipeline and is never changed again.                                    *)
(*                                                                         *)
(* Left out: names, labels and the order of edges, which no rule reads;    *)
(* clone_workflow, whose new draft has the edges of the old one.           *)
(***************************************************************************)
CONSTANTS Depts, Groups,
          EdgeIds, \* bound: the rows a workflow may have
          None     \* no department, no group

VARIABLES edges, \* the rows of dept_workflow_edges, by id
          draft  \* is_draft

vars == <<edges, draft>>

(* An edge from no department is an entry point. *)
Edge == [from : Depts \cup {None}, to : Depts, group : Groups \cup {None}, gate : Groups \cup {None}]
Graphs == UNION {[S -> Edge] : S \in SUBSET EdgeIds}

TypeOK == edges \in Graphs /\ draft \in BOOLEAN

---------------------------------------------------------------------------
(* The rules of validate_workflow *)

from_set(g) == {g[i].from : i \in DOMAIN g} \ {None}
to_set(g) == {g[i].to : i \in DOMAIN g}
entry_dept_ids(g) == {g[i].to : i \in {j \in DOMAIN g : g[j].from = None}}

find_terminal_departments(g) == from_set(g) \ to_set(g)

(* A graph has a cycle if it has departments each of which leads to one of them. *)
detect_cycle(g) ==
  \E S \in SUBSET Depts \ {{}} : \A d \in S : \E i \in DOMAIN g : g[i].from = d /\ g[i].to \in S

Closed(S, g) == entry_dept_ids(g) \subseteq S /\ \A i \in DOMAIN g : g[i].from \in S => g[i].to \in S
find_reachable_departments(g) == {d \in Depts : \A S \in SUBSET Depts : Closed(S, g) => d \in S}

validate_parallel_groups(g) ==
  \A i, j \in DOMAIN g : g[i].group # None /\ g[i].group = g[j].group => g[i].from = g[j].from

validate_gate_references(g) ==
  \A i \in DOMAIN g : g[i].gate # None => \E j \in DOMAIN g : g[j].group = g[i].gate

NoDuplicates(g) == \A i, j \in DOMAIN g : g[i].from = g[j].from /\ g[i].to = g[j].to => i = j

(* Every rule but the second. *)
OtherRules(g) ==
  /\ entry_dept_ids(g) # {}
  /\ ~ detect_cycle(g)
  /\ validate_parallel_groups(g) /\ validate_gate_references(g)
  /\ from_set(g) \cup to_set(g) \subseteq find_reachable_departments(g)
  /\ NoDuplicates(g)

validate_workflow(g) == find_terminal_departments(g) # {} /\ OtherRules(g)

---------------------------------------------------------------------------
(* Drawing and publishing *)

Init == edges \in {[i \in {} |-> None]} /\ draft = TRUE

(* uq_workflow_edge: NULLs are distinct, so only an entry may come twice. *)
AddEdge(i, e) ==
  /\ draft /\ i \notin DOMAIN edges
  /\ e.from = None \/ \A j \in DOMAIN edges : edges[j].from # e.from \/ edges[j].to # e.to
  /\ edges' = [j \in DOMAIN edges \cup {i} |-> IF j = i THEN e ELSE edges[j]]
  /\ UNCHANGED draft

RemoveEdge(i) ==
  /\ draft
  /\ edges' = [j \in DOMAIN edges \ {i} |-> edges[j]]
  /\ UNCHANGED draft

(* The departments of an edge are not in the request. *)
UpdateEdge(i, group, gate) ==
  /\ draft
  /\ edges' = [edges EXCEPT ![i].group = group, ![i].gate = gate]
  /\ UNCHANGED draft

Publish ==
  /\ draft /\ validate_workflow(edges)
  /\ draft' = FALSE
  /\ UNCHANGED edges

Next ==
  \/ \E i \in EdgeIds, e \in Edge : AddEdge(i, e)
  \/ \E i \in DOMAIN edges : RemoveEdge(i)
  \/ \E i \in DOMAIN edges, group, gate \in Groups \cup {None} : UpdateEdge(i, group, gate)
  \/ Publish

Spec == Init /\ [][Next]_vars

---------------------------------------------------------------------------
(* What the validator says of a terminal node: "At least one department must be a
   sink (never used as from_dept_id)", the docstring: "nothing follows them". *)
Sinks(g) == to_set(g) \ from_set(g)

(* A graph that keeps the seven rules as their messages state them can be published.
   find_terminal_departments returns the sources instead of the sinks, and rule 6
   leaves no department a source: no graph is ever valid. *)
WellFormedIsAccepted == Sinks(edges) # {} /\ OtherRules(edges) => validate_workflow(edges)
==============================================================================
