----------------------------- MODULE NetMirror -----------------------------
(***************************************************************************)
(* What the SQL of network/backfill.py and network/topology.py computes:   *)
(* the assets the register of uploaded cabinets and splitter boxes is      *)
(* mirrored to, and the connections the data of the live network implies.  *)
(* OLTs are mirrored like cabinets that nothing hangs from; codes that     *)
(* differ only in case are one code.                                       *)
(***************************************************************************)
EXTENDS Naturals, Sequences, FiniteSets

CONSTANTS
  Codes,
  Hands,    \* assets that mirror nothing: drawn by hand, imported, promoted
  Cables,
  MaxReg,   \* bound: rows of the register
  None

ASSUME MirrorAssumption ==
  /\ MaxReg \in Nat /\ IsFiniteSet(Hands)
  /\ Hands \cap (1..MaxReg) = {} /\ None \notin Hands \cup Cables \cup Codes \cup (1..MaxReg)

Mirrors == 1..MaxReg          \* asset i mirrors row i of the register
Assets == Mirrors \cup Hands
Tables == {"CABINET", "SPLITTER"}
Types == Tables \cup {"FDT", "FAT"}

(* cabinet and parent are columns of splitter boxes. *)
Row == [kind : Tables, code : Codes, active : BOOLEAN,
        cabinet : Mirrors \cup {None}, parent : Mirrors \cup {None}]

(* within is parent_id; cab, par and fdt are the keys legacy_cabinet_asset_id, *)
(* legacy_parent_splitter_asset_id and parent_fdt_code of the attributes.      *)
Asset == [state : {"unused", "live", "gone"}, type : Types \cup {None},
          code : Codes \cup {None}, within : Assets \cup {None},
          cab : Assets \cup {None}, par : Assets \cup {None}, fdt : Codes \cup {None}]
Blank == [state |-> "unused", type |-> None, code |-> None, within |-> None,
          cab |-> None, par |-> None, fdt |-> None]

Live(n) == {a \in Assets : n[a].state = "live"}
Holders(n, type, code) == {a \in Live(n) : n[a].type = type /\ n[a].code = code}
Named(n, code) == {a \in Live(n) : n[a].code = code}

(* All that n steps or fewer along the pairs in E reach from S.              *)
Beyond(E, X) == X \cup {e[2] : e \in {e \in E : e[1] \in X}}
Reach(E, S, n) ==
  LET level[k \in Nat] == IF k = 0 THEN S ELSE Beyond(E, level[k - 1]) IN level[n]

-----------------------------------------------------------------------------
(* The mirror: insert or revive, retire, refresh the references. *)

(* Active rows whose code no other live asset of the type holds. *)
Eligible(r, n) ==
  {i \in DOMAIN r : r[i].active /\ Holders(n, r[i].kind, r[i].code) \subseteq {i}}

(* Two rows that become live with one code violate uq_net_assets_live_code. *)
Clash(r, n) ==
  LET eligible == Eligible(r, n) IN
  \E i, j \in eligible : i # j /\ r[i].kind = r[j].kind /\ r[i].code = r[j].code

(* Mutant of Upserted: an asset that was deleted is left deleted. *)
UpsertedAsItWas(r, n) ==
  LET eligible == Eligible(r, n)
  IN [a \in Assets |-> IF a \in eligible
        THEN [n[a] EXCEPT !.state = IF @ = "unused" THEN "live" ELSE @,
                          !.type = r[a].kind, !.code = r[a].code]
        ELSE n[a]]

Upserted(r, n) ==
  LET eligible == Eligible(r, n)
  IN [a \in Assets |-> IF a \in eligible
        THEN [n[a] EXCEPT !.state = "live", !.type = r[a].kind, !.code = r[a].code]
        ELSE n[a]]

(* Mutant of Retired: orphans are retired only when they still bear the code. *)
RetiredByCode(r, n) ==
  [a \in Assets |-> IF a \in DOMAIN r /\ n[a].state = "live" /\ ~r[a].active
                       /\ n[a].code = r[a].code
                    THEN [n[a] EXCEPT !.state = "gone"] ELSE n[a]]

Retired(r, n) ==
  [a \in Assets |-> IF a \in DOMAIN r /\ n[a].state = "live" /\ ~r[a].active
                    THEN [n[a] EXCEPT !.state = "gone"] ELSE n[a]]

LiveMirror(n, i) == IF i \in Live(n) THEN i ELSE None

Relinked(r, n) ==
  [a \in Assets |-> IF a \in DOMAIN r /\ n[a].state = "live" /\ r[a].kind = "SPLITTER"
     THEN [n[a] EXCEPT !.cab = LiveMirror(n, r[a].cabinet), !.par = LiveMirror(n, r[a].parent)]
     ELSE n[a]]

Mirrored(r, n) ==
  LET upserted == Upserted(r, n)
      retired == Retired(r, upserted)
  IN Relinked(r, retired)

-----------------------------------------------------------------------------
(* The connections: manual ones, and one per source row for each rule. *)

Link(rule, of, from, to, via) ==
  [rule |-> rule, of |-> of, from |-> from, to |-> to, via |-> via]

CableRule(n, c) ==
  {Link("cable", k, c[k].from, c[k].to, k) :
     k \in {k \in Cables : /\ c[k].state = "live" /\ c[k].from # c[k].to
                           /\ {c[k].from, c[k].to} \subseteq Live(n)}}

OfType(n, type) == {a \in Live(n) : n[a].type = type}

ParentRule(n) ==
  {Link("parent_splitter", x, n[x].par, x, None) :
     x \in {x \in OfType(n, "SPLITTER") : n[x].par \in Live(n) \ {x}}}

CabinetRule(n) ==
  {Link("cabinet", x, n[x].cab, x, None) :
     x \in {x \in OfType(n, "SPLITTER") : n[x].par = None /\ n[x].cab \in Live(n)}}

FdtRule(n) ==
  {l \in {Link("parent_fdt", x, f, x, None) : f \in OfType(n, "FDT"), x \in OfType(n, "FAT")} :
     Holders(n, "FDT", n[l.to].fdt) = {l.from}}

Rules(n, c) == CableRule(n, c) \cup ParentRule(n) \cup CabinetRule(n) \cup FdtRule(n)

(* A rule that yields a link of an asset with itself violates the CHECK. *)
Linkable(n) == \A l \in CabinetRule(n) : l.from # l.to

(* Mutant of Sync: links with a dead end are left alone. *)
SyncDeadKept(n, c, l) == Rules(n, c) \cup {k \in l : k.rule = "manual"}

(* sync_derived_connections: add what the rules yield, retire what they do *)
(* not yield any more, retire what has lost an end.                        *)
Sync(n, c, l) ==
  LET live == Live(n)
  IN Rules(n, c) \cup {k \in l : k.rule = "manual" /\ {k.from, k.to} \subseteq live}

Feeds(l) == {<<k.from, k.to>> : k \in l}
=============================================================================
