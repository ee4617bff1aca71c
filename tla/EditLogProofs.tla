--------------------------- MODULE EditLogProofs ---------------------------
(***************************************************************************)
(* Theorems about EditLog, for every number of devices, cables, links and  *)
(* operations, and every working set that keeps its foreign keys.          *)
(***************************************************************************)
EXTENDS EditLog, TLAPS

WorkingSets == [Ids -> Images \cup {Gone}]

Closed(r) == \A i \in Present(r) : References(r[i]) \subseteq Present(r)
EndsIn(r) == \A i \in Present(r) : {r[i].src, r[i].dst} \ {Null} \subseteq Present(r)
NoEnds(r) == \A i \in Devices \cap Present(r) : r[i].src = Null /\ r[i].dst = Null
OnceIn(r) ==
  \A l, k \in Links \cap Present(r) : r[l].src = r[k].src /\ r[l].dst = r[k].dst => l = k

(* x is y with its parent or its cable perhaps lost. *)
LostOf(x, y) ==
  IF y = Gone THEN x = Gone
  ELSE /\ x # Gone /\ x \in Images
       /\ x.head = y.head /\ x.src = y.src /\ x.dst = y.dst /\ x.mark = y.mark
       /\ x.parent \in {y.parent, Null} /\ x.via \in {y.via, Null}
Reads(r, full) == \A i \in Ids : LostOf(r[i], full[i])

(* Patch p leads from a to b: rows that stay and that it does not write are equal. *)
Carries(p, a, b) ==
  /\ p.delete = Present(a) \ Present(b)
  /\ DOMAIN p.restore = Present(b) \ Present(a)
  /\ DOMAIN p.update \subseteq Present(a) \cap Present(b)
  /\ \A i \in DOMAIN p.restore : LostOf(p.restore[i], b[i]) /\ References(p.restore[i]) \subseteq Present(b)
  /\ \A i \in DOMAIN p.update : LostOf(p.update[i], b[i]) /\ References(p.update[i]) \subseteq Present(b)
  /\ \A i \in (Present(a) \cap Present(b)) \ DOMAIN p.update : a[i] = b[i]
  /\ \A l \in Links \cap Present(a) \cap Present(b) : a[l].src = b[l].src /\ a[l].dst = b[l].dst

---------------------------------------------------------------------------
(* Foreign keys *)

(* The rows a DELETE takes: those named and the connections at them. *)
Taken(r, S) == S \cup {l \in Links \cap Present(r) : {r[l].src, r[l].dst} \cap S # {}}
Kept(r, S, x) == IF x \in Taken(r, S) THEN Null ELSE x

LEMMA DeletedRows ==
  ASSUME NEW r \in WorkingSets, NEW S
  PROVE  /\ Deleted(r, S) \in WorkingSets
         /\ \A i \in Ids : Deleted(r, S)[i] = Gone <=> r[i] = Gone \/ i \in Taken(r, S)
         /\ \A i \in Ids : Deleted(r, S)[i] # Gone =>
              /\ Deleted(r, S)[i] \in Images
              /\ Deleted(r, S)[i].head = r[i].head /\ Deleted(r, S)[i].mark = r[i].mark
              /\ Deleted(r, S)[i].src = Kept(r, S, r[i].src)
              /\ Deleted(r, S)[i].dst = Kept(r, S, r[i].dst)
              /\ Deleted(r, S)[i].parent = Kept(r, S, r[i].parent)
              /\ Deleted(r, S)[i].via = Kept(r, S, r[i].via)
<1> DEFINE row(i) == [r[i] EXCEPT !.parent = Kept(r, S, @), !.src = Kept(r, S, @),
                                  !.dst = Kept(r, S, @), !.via = Kept(r, S, @)]
<1>1. Deleted(r, S) = [i \in Ids |-> IF i \in Taken(r, S) \/ r[i] = Gone THEN Gone ELSE row(i)]
  BY DEF Deleted, Taken, Kept
<1>2. ASSUME NEW i \in Ids, r[i] # Gone
      PROVE  /\ row(i) \in Images /\ row(i) # Gone
             /\ row(i).head = r[i].head /\ row(i).mark = r[i].mark
             /\ row(i).src = Kept(r, S, r[i].src) /\ row(i).dst = Kept(r, S, r[i].dst)
             /\ row(i).parent = Kept(r, S, r[i].parent) /\ row(i).via = Kept(r, S, r[i].via)
  <2>1. r[i] \in Images
    BY <1>2 DEF WorkingSets
  <2>2. /\ Kept(r, S, r[i].parent) \in Devices \cup {Null} /\ Kept(r, S, r[i].src) \in Devices \cup {Null}
        /\ Kept(r, S, r[i].dst) \in Devices \cup {Null} /\ Kept(r, S, r[i].via) \in Cables \cup {Null}
    BY <2>1 DEF Kept, Images
  <2>3. row(i) \in Images
    BY <2>1, <2>2 DEF Images
  <2> QED  BY <2>1, <2>3, StartAssumption DEF Images
<1> HIDE DEF row
<1> QED  BY <1>1, <1>2 DEF WorkingSets

(* The foreign keys hold after a DELETE if they held before. *)
LEMMA DeletedClosed ==
  ASSUME NEW r \in WorkingSets, NEW S, Closed(r)
  PROVE  Closed(Deleted(r, S)) /\ Present(Deleted(r, S)) = Present(r) \ Taken(r, S)
<1>1. Present(Deleted(r, S)) = Present(r) \ Taken(r, S)
  BY DeletedRows DEF Present
<1>2. ASSUME NEW i \in Present(Deleted(r, S)), NEW x \in References(Deleted(r, S)[i])
      PROVE  x \in Present(r) \ Taken(r, S)
  <2>1. /\ i \in Ids /\ Deleted(r, S)[i] # Gone /\ i \in Present(r)
    BY <1>1, <1>2 DEF Present
  <2>2. PICK y \in {r[i].parent, r[i].src, r[i].dst, r[i].via} : x = Kept(r, S, y)
    BY <1>2, <2>1, DeletedRows DEF References
  <2>3. x # Null
    BY <1>2 DEF References
  <2>4. x = y /\ y \notin Taken(r, S) /\ y \in References(r[i])
    BY <2>2, <2>3 DEF Kept, References
  <2> QED  BY <2>1, <2>4 DEF Closed
<1> QED  BY <1>1, <1>2 DEF Closed

---------------------------------------------------------------------------
(* Patches *)

LEMMA PatchedRows ==
  ASSUME NEW r \in WorkingSets, NEW p, NEW i \in Ids
  PROVE  /\ Restored(r, p)[i] = IF i \in DOMAIN p.restore THEN p.restore[i] ELSE Deleted(r, p.delete)[i]
         /\ Patched(r, p)[i] = IF i \in DOMAIN p.update /\ Restored(r, p)[i] # Gone
                               THEN p.update[i] ELSE Restored(r, p)[i]
<1>1. Restored(r, p)[i] = IF i \in DOMAIN p.restore THEN p.restore[i] ELSE Deleted(r, p.delete)[i]
  BY DEF Restored, Overwritten
<1> DEFINE there == DOMAIN p.update \cap Present(Restored(r, p))
           f == Restrict(p.update, there)
<1>2. Patched(r, p) = [j \in Ids |-> IF j \in DOMAIN f THEN f[j] ELSE Restored(r, p)[j]]
  BY DEF Patched, Overwritten
<1>3. DOMAIN f = there /\ \A j \in there : f[j] = p.update[j]
  BY DEF Restrict
<1>4. i \in there <=> i \in DOMAIN p.update /\ Restored(r, p)[i] # Gone
  BY DEF Present
<1> HIDE DEF f, there
<1> QED  BY <1>1, <1>2, <1>3, <1>4

(* A patch that leads from a to b, applied to what is left of a, is not refused and
   gives what is left of b, with its foreign keys kept. *)
LEMMA PatchLands ==
  ASSUME NEW r \in WorkingSets, NEW a \in WorkingSets, NEW b \in WorkingSets, NEW p,
         Reads(r, a), Closed(r), EndsIn(b), Carries(p, a, b)
  PROVE  /\ PatchApplies(r, p)
         /\ Patched(r, p) \in WorkingSets /\ Reads(Patched(r, p), b) /\ Closed(Patched(r, p))
<1> DEFINE cut == Deleted(r, p.delete)
           new == Patched(r, p)
<1>0. /\ Present(r) = Present(a)
      /\ \A i \in Present(a) : r[i] \in Images /\ LostOf(r[i], a[i])
  BY DEF Reads, LostOf, Present
(* The connections that go with the rows deleted are among those the patch deletes. *)
<1>1. Taken(r, p.delete) \cap Present(a) = p.delete
  <2>1. ASSUME NEW l \in Links, l \in Present(r), l \notin p.delete, {r[l].src, r[l].dst} \cap p.delete # {}
        PROVE  FALSE
    <3>1. l \in Present(a) /\ l \in Present(b)
      BY <1>0, <2>1 DEF Carries
    <3>2. r[l].src = b[l].src /\ r[l].dst = b[l].dst
      BY <1>0, <2>1, <3>1 DEF Carries, LostOf, Present
    <3>3. PICK d \in p.delete : d \in {b[l].src, b[l].dst}
      BY <2>1, <3>2
    <3>4. d \in Ids /\ d # Null
      BY <3>3, StartAssumption DEF Carries, Present
    <3> QED  BY <3>1, <3>3, <3>4 DEF EndsIn, Carries
  <2> QED  BY <2>1, <1>0 DEF Taken, Carries
(* A row that neither is written nor goes stays as it was. *)
<1>2. ASSUME NEW i \in Ids, a[i] # Gone, b[i] # Gone, i \notin DOMAIN p.update
      PROVE  cut[i] # Gone /\ LostOf(cut[i], b[i])
  <2>1. i \in Present(a) \cap Present(b) /\ a[i] = b[i] /\ i \notin p.delete
    BY <1>2 DEF Present, Carries
  <2>2. cut[i] # Gone
    BY <1>0, <1>1, <2>1, DeletedRows DEF Present
  <2>3. \A x \in {r[i].src, r[i].dst} : Kept(r, p.delete, x) = x
    <3> SUFFICES ASSUME NEW x \in {r[i].src, r[i].dst}, x # Null PROVE x \notin Taken(r, p.delete)
      BY DEF Kept
    <3>1. x \in {b[i].src, b[i].dst}
      BY <1>0, <2>1, <1>2 DEF LostOf
    <3>2. x \in Present(b)
      BY <2>1, <3>1 DEF EndsIn
    <3>3. x \in Present(r)
      BY <1>0, <2>1 DEF Closed, References
    <3> QED  BY <1>0, <1>1, <3>2, <3>3 DEF Carries
  <2>4. cut[i] \in Images /\ cut[i].head = r[i].head /\ cut[i].mark = r[i].mark
        /\ cut[i].src = r[i].src /\ cut[i].dst = r[i].dst
        /\ cut[i].parent \in {r[i].parent, Null} /\ cut[i].via \in {r[i].via, Null}
    BY <2>2, <2>3, DeletedRows DEF Kept
  <2> HIDE DEF cut
  <2> QED  BY <1>0, <1>2, <2>1, <2>2, <2>4 DEF LostOf
<1>3. ASSUME NEW i \in Ids
      PROVE  /\ i \in DOMAIN p.restore => new[i] = p.restore[i] /\ cut[i] = Gone /\ LostOf(new[i], b[i])
             /\ i \in DOMAIN p.update => new[i] = p.update[i] /\ LostOf(new[i], b[i])
             /\ i \notin DOMAIN p.restore /\ i \notin DOMAIN p.update => new[i] = cut[i] /\ LostOf(new[i], b[i])
  <2>1. CASE i \in DOMAIN p.restore
    <3>1. i \in Present(b) /\ i \notin Present(a) /\ i \notin DOMAIN p.update
      BY <2>1 DEF Carries
    <3>2. cut[i] = Gone
      BY <1>0, <3>1, DeletedRows DEF Present
    <3> QED  BY <2>1, <3>1, <3>2, PatchedRows DEF Carries
  <2>2. CASE i \in DOMAIN p.update
    <3>1. i \in Present(a) /\ i \in Present(b) /\ i \notin p.delete /\ i \notin DOMAIN p.restore
      BY <2>2 DEF Carries
    <3>2. cut[i] # Gone
      BY <1>0, <1>1, <3>1, DeletedRows DEF Present
    <3>3. new[i] = p.update[i]
      BY <2>2, <3>1, <3>2, PatchedRows
    <3>4. LostOf(p.update[i], b[i])
      BY <2>2 DEF Carries
    <3> HIDE DEF new, cut
    <3> QED  BY <2>2, <3>1, <3>3, <3>4
  <2>3. CASE i \notin DOMAIN p.restore /\ i \notin DOMAIN p.update
    <3>1. new[i] = cut[i]
      BY <2>3, PatchedRows
    <3>2. CASE a[i] # Gone /\ b[i] # Gone
      BY <1>2, <2>3, <3>1, <3>2
    <3>3. CASE a[i] = Gone
      <4>1. i \notin Present(b) /\ r[i] = Gone
        BY <2>3, <3>3 DEF Carries, Present, Reads, LostOf
      <4> QED  BY <2>3, <3>1, <4>1, DeletedRows DEF Present, LostOf
    <3>4. CASE a[i] # Gone /\ b[i] = Gone
      <4>1. i \in p.delete
        BY <3>4 DEF Carries, Present
      <4> QED  BY <2>3, <3>1, <3>4, <4>1, DeletedRows DEF Taken, LostOf
    <3> QED  BY <3>2, <3>3, <3>4
  <2> HIDE DEF new, cut
  <2> QED  BY <2>1, <2>2, <2>3
<1>4. Reads(new, b)
  <2> HIDE DEF new
  <2> QED  BY <1>3 DEF Reads
<1>5. Present(new) = Present(b) /\ \A i \in Present(b) : new[i] \in Images
  BY <1>4 DEF Reads, LostOf, Present
<1>6. new \in WorkingSets
  <2>1. new = [i \in Ids |-> new[i]]
    BY DEF Patched, Overwritten
  <2>2. \A i \in Ids : new[i] \in Images \cup {Gone}
    BY <1>4 DEF Reads, LostOf
  <2> HIDE DEF new
  <2> QED  BY <2>1, <2>2 DEF WorkingSets
<1>7. \A i \in DOMAIN p.restore \cup DOMAIN p.update : i \in Ids /\ References(new[i]) \subseteq Present(b)
  <2> HIDE DEF new
  <2> QED  BY <1>3 DEF Carries, Present
<1>8. Closed(new)
  <2> SUFFICES ASSUME NEW i \in Present(b), i \notin DOMAIN p.restore, i \notin DOMAIN p.update
               PROVE  References(new[i]) \subseteq Present(b)
    BY <1>5, <1>7 DEF Closed
  <2>1. new[i] = cut[i] /\ i \in Ids /\ cut[i] # Gone
    BY <1>3, <1>5 DEF Present
  <2>2. References(cut[i]) \subseteq Present(r) \ Taken(r, p.delete)
    BY <2>1, DeletedClosed DEF Closed, Present
  <2> QED  BY <1>0, <1>1, <2>1, <2>2 DEF Carries
<1>9. PatchApplies(r, p)
  <2>1. DOMAIN p.restore \cap Present(cut) = {}
    BY <1>3, <1>7 DEF Present
  <2> QED  BY <1>5, <1>7, <2>1 DEF PatchApplies
<1> QED  BY <1>4, <1>6, <1>8, <1>9

---------------------------------------------------------------------------
(* What the operations do to the rows, and what they take images of *)

Keeping == rows \in WorkingSets /\ Closed(rows) /\ NoEnds(rows)

(* The rows an operation turned rows into: those that go were touched, and of those
   that stay without being touched at most the parent or the cable is lost. *)
Sound(r, touched, made) ==
  /\ r \in WorkingSets /\ Closed(r) /\ NoEnds(r)
  /\ made = Present(r) \ Present(rows)
  /\ Present(rows) \ Present(r) \subseteq touched /\ touched \subseteq Present(rows)
  /\ \A i \in Present(rows) \cap Present(r) :
       /\ r[i].parent \in {rows[i].parent, Null} /\ r[i].via \in {rows[i].via, Null}
       /\ i \notin touched => /\ r[i].head = rows[i].head /\ r[i].mark = rows[i].mark
                              /\ r[i].src = rows[i].src /\ r[i].dst = rows[i].dst
       /\ i \in Links => r[i].src = rows[i].src /\ r[i].dst = rows[i].dst
  /\ OnceIn(rows) => OnceIn(r)

(* An operation that deletes nothing: it writes the rows T and makes the rows M. *)
Edits(r, T, M) ==
  /\ r \in WorkingSets
  /\ T \subseteq Present(rows) /\ M \subseteq Ids \ Present(rows)
  /\ \A i \in Ids \ (T \cup M) : r[i] = rows[i]
  /\ \A i \in T \cup M : /\ r[i] # Gone /\ References(r[i]) \subseteq Present(rows) \cup M
                         /\ i \in Devices => r[i].src = Null /\ r[i].dst = Null
  /\ \A i \in T : /\ r[i].parent = rows[i].parent /\ r[i].via = rows[i].via
                  /\ i \in Links => r[i].src = rows[i].src /\ r[i].dst = rows[i].dst
NotAgain(r, M) ==
  \A l \in Links \cap M, k \in Links \cap Present(r) :
    r[l].src = r[k].src /\ r[l].dst = r[k].dst => l = k

LEMMA EditSound ==
  ASSUME Keeping, NEW r, NEW T, NEW M, Edits(r, T, M), NotAgain(r, M)
  PROVE  Sound(r, T, M)
<1>1. Present(r) = Present(rows) \cup M
  BY DEF Edits, Present
<1>2. Closed(r)
  <2> SUFFICES ASSUME NEW i \in Present(r) PROVE References(r[i]) \subseteq Present(rows) \cup M
    BY <1>1 DEF Closed
  <2>1. CASE i \in T \cup M
    BY <2>1 DEF Edits
  <2>2. CASE i \notin T \cup M
    BY <1>1, <2>2 DEF Edits, Keeping, Closed, Present
  <2> QED  BY <2>1, <2>2
<1>3. ASSUME NEW i \in Present(rows)
      PROVE  /\ r[i].parent = rows[i].parent /\ r[i].via = rows[i].via
             /\ i \notin T => r[i] = rows[i]
             /\ i \in Links => r[i].src = rows[i].src /\ r[i].dst = rows[i].dst
  BY DEF Edits, Present
<1>4. ASSUME OnceIn(rows) PROVE OnceIn(r)
  <2> SUFFICES ASSUME NEW l \in Links \cap Present(r), NEW k \in Links \cap Present(r),
                      r[l].src = r[k].src, r[l].dst = r[k].dst
               PROVE  l = k
    BY DEF OnceIn
  <2>1. CASE l \in M \/ k \in M
    BY <2>1 DEF NotAgain
  <2>2. CASE l \notin M /\ k \notin M
    BY <1>1, <1>3, <1>4, <2>2 DEF OnceIn
  <2> QED  BY <2>1, <2>2
<1>5. NoEnds(r)
  BY <1>1, <1>3 DEF Edits, Keeping, NoEnds, Present
<1> QED  BY <1>1, <1>2, <1>3, <1>4, <1>5 DEF Sound, Edits

(* An operation that deletes the rows S, having written only rows of T: it must have
   touched what goes, and whatever has one of its ends there. *)
LEMMA DeleteSound ==
  ASSUME Keeping, NEW r \in WorkingSets, NEW S, NEW T, S \subseteq Ids,
         \A i \in Ids : r[i] = Gone <=> rows[i] = Gone,
         \A i \in Present(rows) :
           /\ r[i].parent = rows[i].parent /\ r[i].via = rows[i].via
           /\ r[i].src = rows[i].src /\ r[i].dst = rows[i].dst
           /\ i \notin T => r[i].head = rows[i].head /\ r[i].mark = rows[i].mark
                            /\ {rows[i].src, rows[i].dst} \cap S = {},
         S \subseteq T, T \subseteq Present(rows)
  PROVE  Sound(Deleted(r, S), T, {})
<1> DEFINE new == Deleted(r, S)
<1>1. Present(r) = Present(rows) /\ Closed(r)
  <2>1. Present(r) = Present(rows)
    BY DEF Present
  <2>2. \A i \in Present(rows) : References(r[i]) = References(rows[i])
    BY DEF References
  <2> QED  BY <2>1, <2>2 DEF Keeping, Closed
<1>2. new \in WorkingSets /\ Closed(new) /\ Present(new) = Present(rows) \ Taken(r, S)
  BY <1>1, DeletedRows, DeletedClosed
<1>3. ASSUME NEW i \in Present(rows), i \in Taken(r, S) PROVE i \in T
  BY <1>3 DEF Taken
<1>4. ASSUME NEW i \in Present(rows), i \in Links \/ i \notin T, i \notin Taken(r, S)
      PROVE  new[i].src = rows[i].src /\ new[i].dst = rows[i].dst
  <2>1. i \in Ids /\ r[i] \in Images /\ new[i] # Gone
    BY <1>1, <1>4, DeletedRows DEF Present, WorkingSets
  <2>2. {r[i].src, r[i].dst} \cap S = {}
    BY <1>1, <1>4 DEF Taken
  <2>3. r[i].src \notin Links /\ r[i].dst \notin Links
    BY <2>1, StartAssumption DEF Images, Ids
  <2>4. r[i].src \notin Taken(r, S) /\ r[i].dst \notin Taken(r, S)
    BY <2>2, <2>3 DEF Taken
  <2> QED  BY <1>4, <2>1, <2>4, DeletedRows DEF Kept
<1>5. ASSUME NEW i \in Present(rows) \cap Present(new)
      PROVE  /\ new[i].parent \in {rows[i].parent, Null} /\ new[i].via \in {rows[i].via, Null}
             /\ new[i].head = r[i].head /\ new[i].mark = r[i].mark
  BY DeletedRows DEF Present, Kept
<1>6. ASSUME OnceIn(rows) PROVE OnceIn(new)
  BY <1>2, <1>4, <1>6 DEF OnceIn
<1>7. NoEnds(new)
  <2> SUFFICES ASSUME NEW i \in Devices \cap Present(new)
               PROVE  new[i].src = Null /\ new[i].dst = Null
    BY DEF NoEnds
  <2>1. rows[i].src = Null /\ rows[i].dst = Null /\ i \in Present(rows)
    BY <1>2 DEF Keeping, NoEnds
  <2>2. new[i].src = Kept(r, S, Null) /\ new[i].dst = Kept(r, S, Null)
    BY <2>1, DeletedRows DEF Present
  <2> QED  BY <2>2 DEF Kept
<1> HIDE DEF new
<1>8. Sound(new, T, {})
  BY <1>2, <1>3, <1>4, <1>5, <1>6, <1>7 DEF Sound
<1> QED  BY <1>8 DEF new

LEMMA NewDeviceRow ==
  ASSUME NEW p \in Devices \cup {Null}, NEW h \in FDTs \cup {Null}, NEW m \in Marks \cup {Null}
  PROVE  /\ NewDevice(p, h, m) \in Images /\ References(NewDevice(p, h, m)) = {p} \ {Null}
         /\ NewDevice(p, h, m).src = Null /\ NewDevice(p, h, m).dst = Null
BY DEF NewDevice, NewRow, Images, References

LEMMA NewCableRow ==
  ASSUME NEW a \in Devices \cup {Null}, NEW b \in Devices \cup {Null}, NEW m \in Marks \cup {Null}
  PROVE  NewCable(a, b, m) \in Images /\ References(NewCable(a, b, m)) = {a, b} \ {Null}
BY DEF NewCable, NewRow, Images, References

LEMMA NewLinkRow ==
  ASSUME NEW a \in Devices \cup {Null}, NEW b \in Devices \cup {Null}, NEW c \in Cables \cup {Null}
  PROVE  /\ NewLink(a, b, c) \in Images /\ References(NewLink(a, b, c)) = {a, b, c} \ {Null}
         /\ NewLink(a, b, c).src = a /\ NewLink(a, b, c).dst = b
BY DEF NewLink, NewRow, Images, References

(* An operation of the right kind was committed. *)
Committed == \E r, T, M : Sound(r, T, M) /\ Commit(r, T, M)

LEMMA AddAssetSound == ASSUME Keeping, AddAsset PROVE Committed
<1>1. PICK a \in Unused(Devices), p \in (Devices \cap Present(rows)) \cup {Null}, h \in Heads, m \in Marks :
        Commit([rows EXCEPT ![a] = NewDevice(p, h, m)], {}, {a})
  BY DEF AddAsset
<1> DEFINE r == [rows EXCEPT ![a] = NewDevice(p, h, m)]
<1>2. /\ NewDevice(p, h, m) \in Images /\ References(NewDevice(p, h, m)) \subseteq Present(rows)
      /\ NewDevice(p, h, m).src = Null /\ NewDevice(p, h, m).dst = Null
  <2>1. p \in Devices \cup {Null} /\ h \in FDTs \cup {Null} /\ m \in Marks \cup {Null}
    BY DEF Heads
  <2>2. {p} \ {Null} \subseteq Present(rows)
    OBVIOUS
  <2>3. /\ NewDevice(p, h, m) \in Images /\ References(NewDevice(p, h, m)) = {p} \ {Null}
        /\ NewDevice(p, h, m).src = Null /\ NewDevice(p, h, m).dst = Null
    BY <2>1, NewDeviceRow
  <2> QED  BY <2>2, <2>3
<1>3. a \in Ids \ Present(rows) /\ a \notin Links
  BY StartAssumption DEF Unused, Ids
<1>4. /\ r \in WorkingSets /\ r[a] = NewDevice(p, h, m) /\ r[a] # Gone
      /\ \A i \in Ids \ {a} : r[i] = rows[i]
  BY <1>2, <1>3, StartAssumption DEF Keeping, WorkingSets
<1> HIDE DEF r
<1>5. Edits(r, {}, {a}) /\ NotAgain(r, {a})
  BY <1>2, <1>3, <1>4 DEF Edits, NotAgain
<1>6. Sound(r, {}, {a})
  BY <1>5, EditSound
<1> QED  BY <1>1, <1>6 DEF Committed, r

(* Rows that get a new mark, and perhaps a new head, refer to what they did. *)
LEMMA MarkedSound ==
  ASSUME Keeping, NEW S, S \subseteq Present(rows), NEW r \in WorkingSets,
         \A i \in Ids \ S : r[i] = rows[i],
         \A i \in S : /\ r[i] # Gone /\ r[i].parent = rows[i].parent /\ r[i].via = rows[i].via
                      /\ r[i].src = rows[i].src /\ r[i].dst = rows[i].dst
  PROVE  Sound(r, S, {})
<1>1. \A i \in S : References(r[i]) \subseteq Present(rows)
  BY DEF References, Keeping, Closed
<1>2. Edits(r, S, {}) /\ NotAgain(r, {})
  BY <1>1 DEF Edits, NotAgain, Keeping, NoEnds
<1> QED  BY <1>2, EditSound

LEMMA RemarkedSound ==
  ASSUME Keeping, NEW S, S \subseteq Present(rows), NEW m \in Marks
  PROVE  Sound(Remarked(rows, S, m), S, {})
<1> DEFINE r == Remarked(rows, S, m)
           row(i) == [rows[i] EXCEPT !.mark = m]
<1>1. r = [i \in Ids |-> IF i \in S THEN row(i) ELSE rows[i]]
  BY DEF Remarked
<1>2. \A i \in S : /\ row(i) \in Images
                   /\ row(i).parent = rows[i].parent /\ row(i).via = rows[i].via
                   /\ row(i).src = rows[i].src /\ row(i).dst = rows[i].dst
  BY DEF Keeping, WorkingSets, Present, Images
<1>3. S \subseteq Ids
  BY DEF Present
<1> HIDE DEF row
<1>4. /\ r \in WorkingSets /\ \A i \in Ids \ S : r[i] = rows[i]
      /\ \A i \in S : /\ r[i] # Gone /\ r[i].parent = rows[i].parent /\ r[i].via = rows[i].via
                      /\ r[i].src = rows[i].src /\ r[i].dst = rows[i].dst
  BY <1>1, <1>2, <1>3, StartAssumption DEF Keeping, WorkingSets
<1> HIDE DEF r
<1>5. Sound(r, S, {})
  BY <1>4, MarkedSound
<1> QED  BY <1>5 DEF r

LEMMA MoveAssetSound == ASSUME Keeping, NEW a \in Devices, NEW recalc \in BOOLEAN, MoveAsset(a, recalc) PROVE Committed
<1> DEFINE moved == {a} \cup Children(a)
           T == moved \cup CablesAt(IF recalc THEN moved ELSE {a})
<1>1. PICK m \in Marks : Commit(Remarked(rows, T, m), T, {})
  BY DEF MoveAsset
<1>2. T \subseteq Present(rows)
  BY DEF MoveAsset, Asset, Children, CablesAt
<1> HIDE DEF T
<1> QED  BY <1>1, <1>2, RemarkedSound DEF Committed

LEMMA UpdateAttrsSound == ASSUME Keeping, NEW i \in Ids, UpdateAttrs(i) PROVE Committed
<1>1. PICK m \in Marks, h \in Heads : Commit([rows EXCEPT ![i] = [@ EXCEPT !.mark = m, !.head = h]], {i}, {})
  BY DEF UpdateAttrs, Heads
<1> DEFINE row == [rows[i] EXCEPT !.mark = m, !.head = h]
           r == [rows EXCEPT ![i] = row]
<1>2. i \in Present(rows)
  BY DEF UpdateAttrs, Asset, Cable
<1>3. /\ row \in Images /\ row.parent = rows[i].parent /\ row.via = rows[i].via
      /\ row.src = rows[i].src /\ row.dst = rows[i].dst
  BY <1>2 DEF Keeping, WorkingSets, Present, Images, Heads
<1> HIDE DEF row
<1>4. r \in WorkingSets /\ r[i] = row /\ row # Gone /\ \A j \in Ids \ {i} : r[j] = rows[j]
  BY <1>2, <1>3, StartAssumption DEF Keeping, WorkingSets
<1>5. Commit(r, {i}, {})
  BY <1>1 DEF row
<1> HIDE DEF r
<1>6. Sound(r, {i}, {})
  BY <1>2, <1>3, <1>4, MarkedSound
<1> QED  BY <1>5, <1>6 DEF Committed

LEMMA EditCableGeomSound == ASSUME Keeping, NEW c \in Cables, EditCableGeom(c) PROVE Committed
<1>1. PICK m \in Marks : Commit(Remarked(rows, {c}, m), {c}, {})
  BY DEF EditCableGeom
<1> QED  BY <1>1, RemarkedSound DEF Committed, EditCableGeom, Cable

LEMMA DeleteAssetSound == ASSUME Keeping, NEW a \in Devices, NEW keep \in BOOLEAN, DeleteAsset(a, keep) PROVE Committed
<1> DEFINE ids == {a} \cup Children(a)
           S == ids \cup (IF keep THEN {} ELSE CablesAt(ids))
           T == ids \cup Headed(a) \cup LinksAt(ids) \cup CablesAt(ids)
           r == Beheaded(rows, Headed(a))
           row(i) == [rows[i] EXCEPT !.head = Null]
<1>1. Commit(Deleted(r, S), T, {})
  BY DEF DeleteAsset
<1>2. ids \subseteq Devices \cap Present(rows) /\ T \subseteq Present(rows) /\ Headed(a) \subseteq Present(rows)
      /\ S \subseteq T /\ S \subseteq Ids /\ Headed(a) \subseteq T
  BY DEF DeleteAsset, Asset, Children, CablesAt, LinksAt, Headed, Present
<1>3. \A i \in Present(rows) : /\ row(i) \in Images
                               /\ row(i).parent = rows[i].parent /\ row(i).via = rows[i].via
                               /\ row(i).src = rows[i].src /\ row(i).dst = rows[i].dst
  BY DEF Keeping, WorkingSets, Present, Images
<1>4. r = [i \in Ids |-> IF i \in Headed(a) THEN row(i) ELSE rows[i]]
  BY DEF Beheaded
<1> HIDE DEF row
<1>5. /\ r \in WorkingSets
      /\ \A i \in Ids : r[i] = Gone <=> rows[i] = Gone
      /\ \A i \in Present(rows) : /\ r[i].parent = rows[i].parent /\ r[i].via = rows[i].via
                                  /\ r[i].src = rows[i].src /\ r[i].dst = rows[i].dst
                                  /\ i \notin Headed(a) => r[i] = rows[i]
  BY <1>2, <1>3, <1>4, StartAssumption DEF Keeping, WorkingSets, Present
(* Cables and connections with an end there were touched; the devices have none. *)
<1>6. ASSUME NEW i \in Present(rows), i \notin T PROVE {rows[i].src, rows[i].dst} \cap S = {}
  <2>1. {rows[i].src, rows[i].dst} \subseteq Devices \cup {Null}
    BY DEF Keeping, WorkingSets, Present, Images
  <2>2. CablesAt(ids) \cap (Devices \cup {Null}) = {}
    BY StartAssumption DEF CablesAt, Ids
  <2>3. CASE i \in Cables \cup Links
    <3>1. {rows[i].src, rows[i].dst} \cap ids = {}
      BY <1>6, <2>3 DEF CablesAt, LinksAt
    <3> QED  BY <2>1, <2>2, <3>1
  <2>4. CASE i \in Devices
    <3>1. rows[i].src = Null /\ rows[i].dst = Null
      BY <2>4 DEF Keeping, NoEnds
    <3>2. Null \notin S
      BY <1>2, StartAssumption
    <3> QED  BY <3>1, <3>2
  <2> QED  BY <2>3, <2>4 DEF Present, Ids
<1> HIDE DEF ids, S, T, r
<1>7. Sound(Deleted(r, S), T, {})
  BY <1>2, <1>5, <1>6, DeleteSound
<1> QED  BY <1>1, <1>7 DEF Committed

LEMMA DeleteOneSound ==
  ASSUME Keeping, NEW i \in (Cables \cup Links) \cap Present(rows), NEW T, T \subseteq Present(rows), i \in T
  PROVE  Sound(Deleted(rows, {i}), T, {})
<1>1. \A j \in Present(rows) : {rows[j].src, rows[j].dst} \cap {i} = {}
  BY StartAssumption DEF Keeping, WorkingSets, Present, Images, Ids
<1>2. rows \in WorkingSets /\ {i} \subseteq Ids /\ {i} \subseteq T
  BY DEF Keeping, Present
<1> QED  BY <1>1, <1>2, DeleteSound

LEMMA DeleteCableSound == ASSUME Keeping, NEW c \in Cables, DeleteCable(c) PROVE Committed
<1>1. c \in Present(rows) /\ Commit(Deleted(rows, {c}), {c} \cup LinksVia(c), {})
  BY DEF DeleteCable, Cable
<1>2. Sound(Deleted(rows, {c}), {c} \cup LinksVia(c), {})
  BY <1>1, DeleteOneSound DEF LinksVia
<1> QED  BY <1>1, <1>2 DEF Committed

LEMMA DisconnectSound == ASSUME Keeping, NEW l \in Links, Disconnect(l) PROVE Committed
<1>1. l \in Present(rows) /\ Commit(Deleted(rows, {l}), {l}, {})
  BY DEF Disconnect
<1>2. Sound(Deleted(rows, {l}), {l}, {})
  BY <1>1, DeleteOneSound
<1> QED  BY <1>1, <1>2 DEF Committed

(* A connection is added on top of what the operation did to devices and cables, if
   the pair has none, and the FAT at its end gets its head. *)
LEMMA LinkAdded ==
  ASSUME Keeping, NEW r, NEW T, NEW M, Edits(r, T, M), (T \cup M) \cap Links = {},
         NEW a \in Devices \cap Present(rows), NEW b \in Devices \cap Present(rows),
         NEW c \in (Cables \cap (Present(rows) \cup M)) \cup {Null},
         NEW l \in Unused(Links), ~ Linked(a, b),
         NEW r1, r1 = [i \in Ids |-> IF i = l THEN NewLink(a, b, c) ELSE r[i]]
  PROVE  Edits(r1, T, M \cup {l}) /\ NotAgain(r1, M \cup {l})
<1>1. /\ NewLink(a, b, c) \in Images /\ References(NewLink(a, b, c)) = {a, b, c} \ {Null}
      /\ NewLink(a, b, c).src = a /\ NewLink(a, b, c).dst = b /\ NewLink(a, b, c) # Gone
  BY NewLinkRow, StartAssumption
<1>2. l \in Ids \ Present(rows) /\ l \in Links /\ l \notin Devices /\ l \notin T /\ l \notin M
  BY StartAssumption DEF Unused, Ids, Edits
<1>3. r \in WorkingSets /\ \A i \in Ids \ {l} : r1[i] = r[i]
  BY DEF Edits
<1>4. r1 \in WorkingSets /\ r1[l] = NewLink(a, b, c)
  BY <1>1, <1>2, <1>3 DEF WorkingSets
<1>5. T \subseteq Ids \ {l} /\ M \subseteq Ids \ {l}
  BY <1>2 DEF Edits, Present
<1>6. Edits(r1, T, M \cup {l})
  BY <1>1, <1>2, <1>3, <1>4, <1>5 DEF Edits
<1>7. NotAgain(r1, M \cup {l})
  <2> SUFFICES ASSUME NEW k \in Links \cap Present(r1), k # l, r1[l].src = r1[k].src, r1[l].dst = r1[k].dst
               PROVE  FALSE
    BY DEF NotAgain
  <2>1. k \in Ids \ (T \cup M) /\ r1[k] = rows[k] /\ r1[k] # Gone
    BY <1>3 DEF Present, Edits
  <2> QED  BY <1>1, <1>4, <2>1 DEF Linked, Present
<1> QED  BY <1>6, <1>7

LEMMA HeadGiven ==
  ASSUME Keeping, NEW r, NEW T, NEW M, Edits(r, T, M), NotAgain(r, M),
         NEW b \in Devices \cap Present(rows), NEW h \in FDTs
  PROVE  Sound([r EXCEPT ![b].head = h], T \cup {b}, M)
<1> DEFINE row == [r[b] EXCEPT !.head = h]
           r2 == [r EXCEPT ![b] = row]
<1>1. b \in Ids /\ b \notin M /\ r \in WorkingSets /\ r[b] # Gone /\ r[b] \in Images
  BY DEF Edits, Present, WorkingSets
<1>2. /\ r[b].parent = rows[b].parent /\ r[b].via = rows[b].via
      /\ r[b].src = Null /\ r[b].dst = Null
      /\ References(r[b]) \subseteq Present(rows) \cup M
  <2>1. CASE b \in T
    BY <2>1 DEF Edits
  <2>2. CASE b \notin T
    BY <1>1, <2>2 DEF Edits, Keeping, NoEnds, Closed
  <2> QED  BY <2>1, <2>2
<1>3. /\ row \in Images /\ row.parent = r[b].parent /\ row.via = r[b].via
      /\ row.src = r[b].src /\ row.dst = r[b].dst /\ row # Gone
  BY <1>1, StartAssumption DEF Images
<1>4. References(row) = References(r[b])
  BY <1>3 DEF References
<1> HIDE DEF row
<1>5. r2 \in WorkingSets /\ r2[b] = row /\ \A i \in Ids \ {b} : r2[i] = r[i]
  BY <1>1, <1>3 DEF WorkingSets
<1> HIDE DEF r2
<1>6. b \notin Links
  BY StartAssumption
<1>7. Edits(r2, T \cup {b}, M)
  <2>1. T \subseteq Ids /\ M \subseteq Ids
    BY DEF Edits, Present
  <2> QED  BY <1>1, <1>2, <1>3, <1>4, <1>5, <1>6, <2>1 DEF Edits
<1>8. NotAgain(r2, M)
  BY <1>1, <1>3, <1>5, <1>6 DEF NotAgain, Present, Ids
<1>9. Sound(r2, T \cup {b}, M)
  BY <1>7, <1>8, EditSound
<1> QED  BY <1>9 DEF r2, row

LEMMA FeedLinkSound ==
  ASSUME Keeping, NEW r, NEW T, NEW M, Edits(r, T, M), (T \cup M) \cap Links = {},
         NEW a \in Devices \cap Present(rows), NEW b \in Devices \cap Present(rows),
         NEW c \in (Cables \cap (Present(rows) \cup M)) \cup {Null},
         FeedLink(r, a, b, c, T, M)
  PROVE  Committed
<1>1. PICK new \in IF Linked(a, b) THEN {{}} ELSE {{l} : l \in Unused(Links)} :
        LET r1 == [i \in Ids |-> IF i \in new THEN NewLink(a, b, c) ELSE r[i]]
        IN  IF b \in FATs /\ HeadFrom(a) \notin {Null, rows[b].head}
            THEN Commit([r1 EXCEPT ![b].head = HeadFrom(a)], T \cup {b}, M \cup new)
            ELSE Commit(r1, T, M \cup new)
  BY DEF FeedLink
<1> DEFINE r1 == [i \in Ids |-> IF i \in new THEN NewLink(a, b, c) ELSE r[i]]
<1>2. Edits(r1, T, M \cup new) /\ NotAgain(r1, M \cup new)
  <2>1. CASE new = {}
    <3>1. r1 = r /\ M \cup new = M
      BY <2>1 DEF Edits, WorkingSets
    <3> HIDE DEF r1
    <3> QED  BY <3>1 DEF NotAgain
  <2>2. CASE ~ Linked(a, b)
    <3>1. PICK l \in Unused(Links) : new = {l}
      BY <1>1, <2>2
    <3>2. r1 = [i \in Ids |-> IF i = l THEN NewLink(a, b, c) ELSE r[i]]
      BY <3>1
    <3> HIDE DEF r1
    <3> QED  BY <2>2, <3>1, <3>2, LinkAdded
  <2> QED  BY <1>1, <2>1, <2>2
<1>3. CASE b \in FATs /\ HeadFrom(a) \notin {Null, rows[b].head}
  <2>1. HeadFrom(a) \in FDTs
    BY <1>3 DEF HeadFrom, Keeping, WorkingSets, Present, Images
  <2>2. Commit([r1 EXCEPT ![b].head = HeadFrom(a)], T \cup {b}, M \cup new)
    BY <1>1, <1>3
  <2> HIDE DEF r1
  <2>3. Sound([r1 EXCEPT ![b].head = HeadFrom(a)], T \cup {b}, M \cup new)
    BY <1>2, <2>1, HeadGiven
  <2> QED  BY <2>2, <2>3 DEF Committed
<1>4. CASE ~ (b \in FATs /\ HeadFrom(a) \notin {Null, rows[b].head})
  <2>1. Commit(r1, T, M \cup new)
    BY <1>1, <1>4
  <2> HIDE DEF r1
  <2>2. Sound(r1, T, M \cup new)
    BY <1>2, EditSound
  <2> QED  BY <2>1, <2>2 DEF Committed
<1> QED  BY <1>3, <1>4

LEMMA CableDrawn ==
  ASSUME Keeping, NEW c \in Unused(Cables), NEW a \in Ends, NEW b \in Ends, NEW m \in Marks,
         NEW r, r = [rows EXCEPT ![c] = NewCable(a, b, m)]
  PROVE  Edits(r, {}, {c}) /\ NotAgain(r, {c})
<1>1. a \in Devices \cup {Null} /\ b \in Devices \cup {Null} /\ {a, b} \ {Null} \subseteq Present(rows)
  BY DEF Ends
<1>2. NewCable(a, b, m) \in Images /\ References(NewCable(a, b, m)) \subseteq Present(rows)
      /\ NewCable(a, b, m) # Gone
  BY <1>1, NewCableRow, StartAssumption
<1>3. c \in Ids \ Present(rows) /\ c \notin Links /\ c \notin Devices
  BY StartAssumption DEF Unused, Ids
<1>4. r \in WorkingSets /\ r[c] = NewCable(a, b, m) /\ \A i \in Ids \ {c} : r[i] = rows[i]
  BY <1>2, <1>3 DEF Keeping, WorkingSets
<1> QED  BY <1>2, <1>3, <1>4 DEF Edits, NotAgain

LEMMA DrawCableSound == ASSUME Keeping, NEW feeds \in BOOLEAN, DrawCable(feeds) PROVE Committed
<1>1. PICK c \in Unused(Cables), a \in Ends, b \in Ends, m \in Marks :
        LET r == [rows EXCEPT ![c] = NewCable(a, b, m)]
        IN  IF feeds /\ a # Null /\ b # Null THEN FeedLink(r, a, b, c, {}, {c}) ELSE Commit(r, {}, {c})
  BY DEF DrawCable
<1> DEFINE r == [rows EXCEPT ![c] = NewCable(a, b, m)]
<1>2. Edits(r, {}, {c}) /\ NotAgain(r, {c})
  BY CableDrawn
<1>3. IF feeds /\ a # Null /\ b # Null THEN FeedLink(r, a, b, c, {}, {c}) ELSE Commit(r, {}, {c})
  BY <1>1
<1> HIDE DEF r
<1>4. CASE feeds /\ a # Null /\ b # Null
  <2>1. a \in Devices \cap Present(rows) /\ b \in Devices \cap Present(rows)
    BY <1>4 DEF Ends
  <2>2. c \in (Cables \cap (Present(rows) \cup {c})) \cup {Null} /\ ({} \cup {c}) \cap Links = {}
    BY StartAssumption DEF Unused
  <2> QED  BY <1>2, <1>3, <1>4, <2>1, <2>2, FeedLinkSound
<1>5. CASE ~ (feeds /\ a # Null /\ b # Null)
  BY <1>2, <1>3, <1>5, EditSound DEF Committed
<1> QED  BY <1>4, <1>5

LEMMA SplitCableSound == ASSUME Keeping, NEW c \in Cables, SplitCable(c) PROVE Committed
<1>1. PICK b \in Unused(Cables), new \in {{}} \cup {{x} : x \in Unused(Devices)}, m \in Marks :
        LET cut == IF new = {} THEN Null ELSE CHOOSE x \in new : TRUE
            r == [i \in Ids |-> CASE i \in new -> NewDevice(Null, Null, m)
                                  [] i = b -> NewCable(cut, rows[c].dst, m)
                                  [] i = c -> [rows[c] EXCEPT !.dst = cut, !.mark = m]
                                  [] OTHER -> rows[i]]
        IN  Commit(r, {c}, {b} \cup new)
  BY DEF SplitCable
<1> DEFINE cut == IF new = {} THEN Null ELSE CHOOSE x \in new : TRUE
           half == [rows[c] EXCEPT !.dst = cut, !.mark = m]
           r == [i \in Ids |-> CASE i \in new -> NewDevice(Null, Null, m)
                                 [] i = b -> NewCable(cut, rows[c].dst, m)
                                 [] i = c -> half
                                 [] OTHER -> rows[i]]
<1>2. Commit(r, {c}, {b} \cup new)
  BY <1>1
<1>3. c \in Ids /\ c \in Present(rows) /\ rows[c] \in Images /\ rows[c] # Gone
  BY DEF SplitCable, Cable, Keeping, WorkingSets, Present
<1>4. /\ new \subseteq Devices \ Present(rows) /\ new \subseteq Ids
      /\ cut \in Devices \cup {Null} /\ {cut} \ {Null} \subseteq new
  BY DEF Unused, Ids
<1>5. b \in Ids \ Present(rows) /\ b \in Cables /\ b # c
  BY <1>3 DEF Unused, Ids
<1> HIDE DEF cut
<1>6. /\ NewDevice(Null, Null, m) \in Images /\ References(NewDevice(Null, Null, m)) = {}
      /\ NewDevice(Null, Null, m).src = Null /\ NewDevice(Null, Null, m).dst = Null
  BY NewDeviceRow
<1>7. rows[c].dst \in Devices \cup {Null} /\ {rows[c].dst} \ {Null} \subseteq Present(rows)
  BY <1>3 DEF Images, Keeping, Closed, References
<1>8. /\ NewCable(cut, rows[c].dst, m) \in Images
      /\ References(NewCable(cut, rows[c].dst, m)) \subseteq Present(rows) \cup new
  <2>1. m \in Marks \cup {Null}
    OBVIOUS
  <2>2. cut \in Devices \cup {Null} /\ rows[c].dst \in Devices \cup {Null}
    BY <1>4, <1>7
  <2> DEFINE far == rows[c].dst
  <2>3. far \in Devices \cup {Null} /\ {far} \ {Null} \subseteq Present(rows)
    BY <1>7
  <2> HIDE DEF far
  <2>4. NewCable(cut, far, m) \in Images /\ References(NewCable(cut, far, m)) = {cut, far} \ {Null}
    BY <2>1, <2>2, <2>3, NewCableRow
  <2>5. References(NewCable(cut, far, m)) \subseteq Present(rows) \cup new
    BY <2>3, <2>4, <1>4
  <2> QED  BY <2>4, <2>5 DEF far
<1>9. /\ half \in Images /\ half.parent = rows[c].parent /\ half.via = rows[c].via
      /\ half.src = rows[c].src /\ half.dst = cut
  BY <1>3, <1>4 DEF Images
<1>10. References(half) \subseteq Present(rows) \cup new
  <2>1. References(half) \subseteq References(rows[c]) \cup ({cut} \ {Null})
    BY <1>9 DEF References
  <2> QED  BY <1>3, <1>4, <2>1 DEF Keeping, Closed
<1> HIDE DEF half
<1>11. /\ b \notin new /\ c \notin new /\ b \notin Devices \cup Links /\ c \notin Devices \cup Links
       /\ new \cap Links = {}
  BY <1>3, <1>4, <1>5, StartAssumption
<1>12. /\ \A i \in new : r[i] = NewDevice(Null, Null, m)
       /\ r[b] = NewCable(cut, rows[c].dst, m) /\ r[c] = half
       /\ \A i \in Ids \ (new \cup {b, c}) : r[i] = rows[i]
       /\ r = [i \in Ids |-> r[i]]
  BY <1>3, <1>4, <1>5, <1>11
<1> HIDE DEF r
<1>13. r \in WorkingSets
  <2>1. \A i \in Ids : r[i] \in Images \cup {Gone}
    BY <1>6, <1>8, <1>9, <1>12 DEF Keeping, WorkingSets
  <2> QED  BY <1>12, <2>1 DEF WorkingSets
<1>14. Edits(r, {c}, {b} \cup new) /\ NotAgain(r, {b} \cup new)
  BY <1>3, <1>4, <1>5, <1>6, <1>8, <1>9, <1>10, <1>11, <1>12, <1>13, StartAssumption DEF Edits, NotAgain
<1>15. Sound(r, {c}, {b} \cup new)
  BY <1>14, EditSound
<1> QED  BY <1>2, <1>15 DEF Committed

LEMMA ExtendCableSound == ASSUME Keeping, NEW c \in Cables, NEW feeds \in BOOLEAN, ExtendCable(c, feeds) PROVE Committed
<1>1. PICK t \in Ends, atStart \in BOOLEAN, m \in Marks :
        LET a == IF atStart THEN t ELSE rows[c].src
            b == IF atStart THEN rows[c].dst ELSE t
            r == [rows EXCEPT ![c] = [@ EXCEPT !.src = a, !.dst = b, !.mark = m]]
        IN  IF feeds /\ a # Null /\ b # Null
            THEN a # b /\ FeedLink(r, a, b, c, {c}, {})
            ELSE Commit(r, {c}, {})
  BY DEF ExtendCable
<1> DEFINE a == IF atStart THEN t ELSE rows[c].src
           b == IF atStart THEN rows[c].dst ELSE t
           row == [rows[c] EXCEPT !.src = a, !.dst = b, !.mark = m]
           r == [rows EXCEPT ![c] = row]
<1>2. IF feeds /\ a # Null /\ b # Null THEN FeedLink(r, a, b, c, {c}, {}) ELSE Commit(r, {c}, {})
  BY <1>1
<1>3. c \in Ids /\ c \in Present(rows) /\ rows[c] \in Images /\ rows[c] # Gone /\ c \notin Devices \cup Links
  BY StartAssumption DEF ExtendCable, Cable, Keeping, WorkingSets, Present, Ids
<1>4. a \in Ends /\ b \in Ends
  BY <1>3 DEF Images, Keeping, Closed, References, Ends
<1> HIDE DEF a, b
<1>5. /\ row \in Images /\ row.parent = rows[c].parent /\ row.via = rows[c].via
      /\ row.src = a /\ row.dst = b
  BY <1>3, <1>4 DEF Images, Ends
<1>6. References(row) \subseteq Present(rows)
  <2>1. References(row) \subseteq References(rows[c]) \cup ({a, b} \ {Null})
    BY <1>5 DEF References
  <2> QED  BY <1>3, <1>4, <2>1 DEF Keeping, Closed, Ends
<1> HIDE DEF row
<1>7. r \in WorkingSets /\ r[c] = row /\ row # Gone /\ \A i \in Ids \ {c} : r[i] = rows[i]
  BY <1>3, <1>5, StartAssumption DEF Keeping, WorkingSets
<1> HIDE DEF r
<1>8. Edits(r, {c}, {}) /\ NotAgain(r, {})
  BY <1>3, <1>5, <1>6, <1>7 DEF Edits, NotAgain
<1>9. CASE feeds /\ a # Null /\ b # Null
  <2>1. a \in Devices \cap Present(rows) /\ b \in Devices \cap Present(rows)
    BY <1>4, <1>9 DEF Ends
  <2>2. c \in (Cables \cap (Present(rows) \cup {})) \cup {Null} /\ ({c} \cup {}) \cap Links = {}
    BY <1>3
  <2> QED  BY <1>2, <1>8, <1>9, <2>1, <2>2, FeedLinkSound
<1>10. CASE ~ (feeds /\ a # Null /\ b # Null)
  BY <1>2, <1>8, <1>10, EditSound DEF Committed
<1> QED  BY <1>9, <1>10

LEMMA ConnectSound ==
  ASSUME Keeping, NEW a \in Devices, NEW b \in Devices, NEW feeds \in BOOLEAN, Connect(a, b, feeds)
  PROVE  Committed
<1>1. a \in Devices \cap Present(rows) /\ b \in Devices \cap Present(rows) /\ ~ Linked(a, b)
  BY DEF Connect, Asset
<1>2. Edits(rows, {}, {}) /\ Null \in (Cables \cap (Present(rows) \cup {})) \cup {Null}
  BY DEF Edits, Keeping
<1>3. CASE feeds
  BY <1>1, <1>2, <1>3, FeedLinkSound DEF Connect
<1>4. CASE ~ feeds
  <2>1. PICK l \in Unused(Links) : Commit([rows EXCEPT ![l] = NewLink(a, b, Null)], {}, {l})
    BY <1>4 DEF Connect
  <2> DEFINE r == [rows EXCEPT ![l] = NewLink(a, b, Null)]
  <2>2. r = [i \in Ids |-> IF i = l THEN NewLink(a, b, Null) ELSE rows[i]]
    BY DEF Keeping, WorkingSets
  <2> HIDE DEF r
  <2>3. Edits(r, {}, {} \cup {l}) /\ NotAgain(r, {} \cup {l})
    BY <1>1, <1>2, <2>2, LinkAdded
  <2>4. Sound(r, {}, {l})
    BY <2>3, EditSound
  <2> QED  BY <2>1, <2>4 DEF Committed, r
<1> QED  BY <1>3, <1>4

LEMMA OperationSound == ASSUME Keeping, ApplyOperation PROVE Committed
<1>1. CASE AddAsset
  BY <1>1, AddAssetSound
<1>2. CASE \E a \in Devices : EditDevice(a)
  <2>1. PICK a \in Devices : EditDevice(a)
    BY <1>2
  <2>2. a \in Ids
    BY DEF Ids
  <2> QED  BY <2>1, <2>2, MoveAssetSound, DeleteAssetSound, UpdateAttrsSound DEF EditDevice
<1>3. CASE \E feeds \in BOOLEAN : DrawCable(feeds)
  BY <1>3, DrawCableSound
<1>4. CASE \E c \in Cables : EditCable(c)
  <2>1. PICK c \in Cables : EditCable(c)
    BY <1>4
  <2>2. c \in Ids
    BY DEF Ids
  <2> QED  BY <2>1, <2>2, UpdateAttrsSound, DeleteCableSound, EditCableGeomSound, SplitCableSound,
              ExtendCableSound DEF EditCable
<1>5. CASE \E a, b \in Devices, feeds \in BOOLEAN : Connect(a, b, feeds)
  BY <1>5, ConnectSound
<1>6. CASE \E l \in Links : Disconnect(l)
  BY <1>6, DisconnectSound
<1> QED  BY <1>1, <1>2, <1>3, <1>4, <1>5, <1>6 DEF ApplyOperation

---------------------------------------------------------------------------
(* The log *)

(* The outcome of an operation, of which full is what was there before, where every
   row still has the parent and the cable it was given. *)
Outcome(full, r) ==
  [i \in Ids |-> IF r[i] = Gone THEN Gone
                 ELSE IF rows[i] = Gone THEN r[i]
                 ELSE [r[i] EXCEPT !.parent = full[i].parent, !.via = full[i].via]]

LEMMA OutcomeRows ==
  ASSUME Keeping, NEW F \in WorkingSets, Reads(rows, F), NEW r, NEW T, NEW M, Sound(r, T, M)
  PROVE  /\ Outcome(F, r) \in WorkingSets
         /\ Reads(r, Outcome(F, r))
         /\ Present(F) = Present(rows) /\ Present(Outcome(F, r)) = Present(r)
         /\ \A i \in Present(r) : Outcome(F, r)[i].src = r[i].src /\ Outcome(F, r)[i].dst = r[i].dst
         /\ \A i \in Present(r) \cap Present(rows) :
              r[i].head = rows[i].head /\ r[i].mark = rows[i].mark
                /\ r[i].src = rows[i].src /\ r[i].dst = rows[i].dst => Outcome(F, r)[i] = F[i]
<1> DEFINE G == Outcome(F, r)
           row(i) == [r[i] EXCEPT !.parent = F[i].parent, !.via = F[i].via]
<1>1. ASSUME NEW i \in Ids
      PROVE  /\ r[i] = Gone => G[i] = Gone
             /\ r[i] # Gone /\ rows[i] = Gone => G[i] = r[i]
             /\ r[i] # Gone /\ rows[i] # Gone => G[i] = row(i)
  BY DEF Outcome
<1>2. ASSUME NEW i \in Ids, r[i] # Gone, rows[i] # Gone
      PROVE  /\ row(i) \in Images /\ row(i) # Gone
             /\ row(i).parent = F[i].parent /\ row(i).via = F[i].via /\ row(i).head = r[i].head
             /\ row(i).src = r[i].src /\ row(i).dst = r[i].dst /\ row(i).mark = r[i].mark
             /\ r[i].parent \in {F[i].parent, Null} /\ r[i].via \in {F[i].via, Null}
             /\ r[i].head = rows[i].head /\ r[i].mark = rows[i].mark
                  /\ r[i].src = rows[i].src /\ r[i].dst = rows[i].dst => row(i) = F[i]
  <2>1. r[i] \in Images /\ i \in Present(r) /\ i \in Present(rows)
    BY <1>2 DEF Sound, WorkingSets, Present
  <2>2. F[i] \in Images /\ LostOf(rows[i], F[i]) /\ F[i] # Gone
    BY <1>2 DEF Reads, LostOf, WorkingSets
  <2>3. /\ rows[i].parent \in {F[i].parent, Null} /\ rows[i].via \in {F[i].via, Null}
        /\ rows[i].head = F[i].head /\ rows[i].src = F[i].src
        /\ rows[i].dst = F[i].dst /\ rows[i].mark = F[i].mark
    BY <2>2 DEF LostOf
  <2>4. r[i].parent \in {rows[i].parent, Null} /\ r[i].via \in {rows[i].via, Null}
    BY <2>1 DEF Sound
  <2>5. row(i) \in Images /\ row(i).parent = F[i].parent /\ row(i).via = F[i].via /\ row(i).head = r[i].head
        /\ row(i).src = r[i].src /\ row(i).dst = r[i].dst /\ row(i).mark = r[i].mark
    BY <2>1, <2>2 DEF Images
  <2>6. row(i) # Gone
    BY <2>5, StartAssumption
  <2>7. ASSUME row(i).head = F[i].head, row(i).src = F[i].src, row(i).dst = F[i].dst, row(i).mark = F[i].mark,
               row(i).parent = F[i].parent, row(i).via = F[i].via
        PROVE  row(i) = F[i]
    <3> HIDE DEF row
    <3> QED  BY <2>2, <2>5, <2>7 DEF Images
  <2> HIDE DEF row
  <2> QED  BY <2>3, <2>4, <2>5, <2>6, <2>7
<1>3. ASSUME NEW i \in Ids, r[i] # Gone PROVE r[i] \in Images
  BY <1>3 DEF Sound, WorkingSets
<1> HIDE DEF row
<1>4. \A i \in Ids : G[i] = Gone <=> r[i] = Gone
  BY <1>1, <1>2
<1>5. \A i \in Ids : G[i] \in Images \cup {Gone}
  BY <1>1, <1>2, <1>3
<1>6. G \in WorkingSets
  <2>1. G = [i \in Ids |-> G[i]]
    BY DEF Outcome
  <2> HIDE DEF G
  <2> QED  BY <1>5, <2>1 DEF WorkingSets
<1> HIDE DEF G
<1>7. Reads(r, G)
  BY <1>1, <1>2, <1>3 DEF Reads, LostOf
<1>8. Present(F) = Present(rows)
  BY DEF Reads, LostOf, Present
<1>9. Present(G) = Present(r)
  BY <1>4 DEF Present
<1>10. \A i \in Present(r) : G[i].src = r[i].src /\ G[i].dst = r[i].dst
  BY <1>1, <1>2 DEF Present
<1>11. ASSUME NEW i \in Present(r) \cap Present(rows), r[i].head = rows[i].head, r[i].mark = rows[i].mark,
              r[i].src = rows[i].src, r[i].dst = rows[i].dst
       PROVE  G[i] = F[i]
  BY <1>1, <1>2, <1>11 DEF Present
<1> QED  BY <1>6, <1>7, <1>8, <1>9, <1>10, <1>11 DEF G

(* The patches an operation logs lead from what was there to its outcome and back. *)
LEMMA LoggedPatches ==
  ASSUME Keeping, NEW F \in WorkingSets, Reads(rows, F), NEW r, NEW T, NEW M, Sound(r, T, M)
  PROVE  /\ Carries(Forward(r, T, M), F, Outcome(F, r))
         /\ Carries(Backward(r, T, M), Outcome(F, r), F)
<1> DEFINE G == Outcome(F, r)
           W == {i \in T \cap Present(r) : r[i] # rows[i]}
<1>1. /\ G \in WorkingSets /\ Reads(r, G) /\ Present(F) = Present(rows) /\ Present(G) = Present(r)
      /\ \A i \in Present(r) : G[i].src = r[i].src /\ G[i].dst = r[i].dst
      /\ \A i \in Present(r) \cap Present(rows) :
           r[i].head = rows[i].head /\ r[i].mark = rows[i].mark
             /\ r[i].src = rows[i].src /\ r[i].dst = rows[i].dst => G[i] = F[i]
  BY OutcomeRows
<1> HIDE DEF G
<1>2. T \ Present(r) = Present(F) \ Present(G) /\ M = Present(G) \ Present(F)
  BY <1>1 DEF Sound
<1>3. W \subseteq Present(F) \cap Present(G)
  BY <1>1 DEF Sound
<1>4. \A i \in Present(r) : i \in Ids /\ LostOf(r[i], G[i]) /\ References(r[i]) \subseteq Present(G)
  BY <1>1 DEF Reads, Present, Sound, Closed
<1>5. \A i \in Present(rows) : i \in Ids /\ LostOf(rows[i], F[i]) /\ References(rows[i]) \subseteq Present(F)
  BY <1>1 DEF Reads, Present, Keeping, Closed
<1>6. \A i \in (Present(F) \cap Present(G)) \ W : F[i] = G[i]
  BY <1>1 DEF Sound
<1>7. \A l \in Links \cap Present(F) \cap Present(G) : F[l].src = G[l].src /\ F[l].dst = G[l].dst
  <2> SUFFICES ASSUME NEW l \in Links, l \in Present(F), l \in Present(G)
               PROVE  F[l].src = G[l].src /\ F[l].dst = G[l].dst
    OBVIOUS
  <2>1. r[l].src = rows[l].src /\ r[l].dst = rows[l].dst
    BY <1>1 DEF Sound
  <2>2. rows[l].src = F[l].src /\ rows[l].dst = F[l].dst
    BY <1>1, <1>5 DEF LostOf, Present
  <2> QED  BY <1>1, <2>1, <2>2
<1>8. /\ Forward(r, T, M).delete = T \ Present(r)
      /\ Forward(r, T, M).restore = [i \in M |-> r[i]] /\ Forward(r, T, M).update = [i \in W |-> r[i]]
      /\ Backward(r, T, M).delete = M
      /\ Backward(r, T, M).restore = [i \in T \ Present(r) |-> rows[i]]
      /\ Backward(r, T, M).update = [i \in W |-> rows[i]]
  BY DEF Forward, Backward, Restrict
<1> HIDE DEF W
<1>9. Carries(Forward(r, T, M), F, G)
  <2> DEFINE p == Forward(r, T, M)
  <2>1. /\ p.delete = Present(F) \ Present(G)
        /\ DOMAIN p.restore = Present(G) \ Present(F) /\ DOMAIN p.update = W
    BY <1>2, <1>8
  <2>2. /\ \A i \in DOMAIN p.restore : p.restore[i] = r[i] /\ i \in Present(r)
        /\ \A i \in DOMAIN p.update : p.update[i] = r[i] /\ i \in Present(r)
    BY <1>1, <1>2, <1>3, <1>8
  <2> HIDE DEF p
  <2>3. /\ \A i \in DOMAIN p.restore : LostOf(p.restore[i], G[i]) /\ References(p.restore[i]) \subseteq Present(G)
        /\ \A i \in DOMAIN p.update : LostOf(p.update[i], G[i]) /\ References(p.update[i]) \subseteq Present(G)
    BY <1>4, <2>2
  <2>4. \A i \in (Present(F) \cap Present(G)) \ DOMAIN p.update : F[i] = G[i]
    BY <1>6, <2>1
  <2>5. DOMAIN p.update \subseteq Present(F) \cap Present(G)
    BY <1>3, <2>1
  <2>6. Carries(p, F, G)
    BY <1>7, <2>1, <2>3, <2>4, <2>5 DEF Carries
  <2> QED  BY <2>6 DEF p
<1>10. Carries(Backward(r, T, M), G, F)
  <2> DEFINE p == Backward(r, T, M)
  <2>1. /\ p.delete = Present(G) \ Present(F)
        /\ DOMAIN p.restore = Present(F) \ Present(G) /\ DOMAIN p.update = W
    BY <1>2, <1>8
  <2>2. /\ \A i \in DOMAIN p.restore : p.restore[i] = rows[i] /\ i \in Present(rows)
        /\ \A i \in DOMAIN p.update : p.update[i] = rows[i] /\ i \in Present(rows)
    BY <1>1, <1>2, <1>3, <1>8
  <2> HIDE DEF p
  <2>3. /\ \A i \in DOMAIN p.restore : LostOf(p.restore[i], F[i]) /\ References(p.restore[i]) \subseteq Present(F)
        /\ \A i \in DOMAIN p.update : LostOf(p.update[i], F[i]) /\ References(p.update[i]) \subseteq Present(F)
    BY <1>5, <2>2
  <2>4. \A i \in (Present(G) \cap Present(F)) \ DOMAIN p.update : G[i] = F[i]
    BY <1>6, <2>1
  <2>5. DOMAIN p.update \subseteq Present(G) \cap Present(F)
    BY <1>3, <2>1
  <2>6. \A l \in Links \cap Present(G) \cap Present(F) : G[l].src = F[l].src /\ G[l].dst = F[l].dst
    BY <1>7
  <2>7. Carries(p, G, F)
    BY <2>1, <2>3, <2>4, <2>5, <2>6 DEF Carries
  <2> QED  BY <2>7 DEF p
<1> QED  BY <1>9, <1>10 DEF G

---------------------------------------------------------------------------
(* The inductive invariant.  It names what the log implies but no variable keeps:   *)
(* full[s], what operation s left, where every row still has the parent and cable   *)
(* it was given.  The working set is full[k] but for what was lost, and the patches *)
(* of operation s lead from full[s - 1] to full[s] and back.                        *)

Line(n, k) ==
  /\ n \in 0..MaxOps /\ k \in 0..n
  /\ DOMAIN log = 1..n
  /\ \A s \in 1..n : log[s] = [fwd |-> log[s].fwd, inv |-> log[s].inv, undone |-> (s > k)]
Outcomes(full, n) ==
  /\ full \in [0..n -> WorkingSets]
  /\ DOMAIN past = 0..n
  /\ \A s \in 0..n : /\ past[s] \in WorkingSets /\ Reads(past[s], full[s])
                     /\ EndsIn(full[s]) /\ NoEnds(full[s])
  /\ (\A r \in StartRows : OnceIn(r)) => \A s \in 0..n : OnceIn(full[s])
Patches(full, n) ==
  \A s \in 1..n : Carries(log[s].fwd, full[s-1], full[s]) /\ Carries(log[s].inv, full[s], full[s-1])
Story(full, n, k) ==
  /\ Line(n, k) /\ Outcomes(full, n) /\ Patches(full, n)
  /\ rows \in WorkingSets /\ Closed(rows) /\ Reads(rows, full[k])
IInv == \E full, n, k : Story(full, n, k)

LEMMA OnTheLine ==
  ASSUME NEW n, NEW k, Line(n, k)
  PROVE  /\ Done = 1..k /\ Undone = (k+1)..n /\ n \in Nat /\ k \in Nat /\ k <= n /\ n <= MaxOps
         /\ k > 0 => Done # {} /\ Newest(Done) = k
         /\ k = 0 => Done = {}
         /\ k < n => Undone # {} /\ Oldest(Undone) = k + 1
         /\ k = n => Undone = {}
         /\ Now = k
<1>1. n \in Nat /\ k \in Nat /\ k <= n /\ n <= MaxOps /\ MaxOps \in Nat
  BY StartAssumption DEF Line
<1>2. \A s \in 1..n : log[s].undone <=> s > k
  <2> TAKE s \in 1..n
  <2>1. log[s] = [fwd |-> log[s].fwd, inv |-> log[s].inv, undone |-> (s > k)]
    BY DEF Line
  <2> DEFINE f == log[s].fwd
             g == log[s].inv
  <2> HIDE DEF f, g
  <2>2. [fwd |-> f, inv |-> g, undone |-> (s > k)].undone = (s > k)
    BY Zenon
  <2> QED  BY <2>1, <2>2, Zenon DEF f, g
<1>3. Done = 1..k /\ Undone = (k+1)..n
  <2>1. Done = {s \in 1..n : ~ (s > k)} /\ Undone = {s \in 1..n : s > k}
    BY <1>2, Zenon DEF Line, Done, Undone
  <2> QED  BY <1>1, <2>1
<1>4. ASSUME k > 0 PROVE Done # {} /\ Newest(Done) = k
  <2>1. k \in Done /\ \A t \in Done : t <= k
    BY <1>1, <1>3, <1>4
  <2>2. Newest(Done) \in Done /\ \A t \in Done : t <= Newest(Done)
    BY <2>1 DEF Newest
  <2> QED  BY <1>1, <1>3, <2>1, <2>2
<1>5. ASSUME k < n PROVE Undone # {} /\ Oldest(Undone) = k + 1
  <2>1. k + 1 \in Undone /\ \A t \in Undone : k + 1 <= t
    BY <1>1, <1>3, <1>5
  <2>2. Oldest(Undone) \in Undone /\ \A t \in Undone : Oldest(Undone) <= t
    BY <2>1 DEF Oldest
  <2> QED  BY <1>1, <1>3, <2>1, <2>2
<1>6. (k = 0 => Done = {}) /\ (k = n => Undone = {})
  BY <1>1, <1>3
<1>7. Now = k
  BY <1>1, <1>4, <1>6 DEF Now
<1> QED  BY <1>1, <1>3, <1>4, <1>5, <1>6, <1>7

(* The rows start with no more than they keep: a version starts a story of no operations. *)
LEMMA Started ==
  ASSUME NEW r \in StartRows
  PROVE  r \in WorkingSets /\ Closed(r) /\ NoEnds(r) /\ EndsIn(r) /\ Reads(r, r)
<1>1. r \in WorkingSets /\ Closed(r) /\ \A i \in Present(r) : InTable(i, r[i])
  BY StartAssumption DEF WorkingSets, Closed
<1>2. NoEnds(r)
  BY <1>1 DEF NoEnds, InTable
<1>3. EndsIn(r)
  BY <1>1 DEF EndsIn, Closed, References
<1>4. Reads(r, r)
  BY <1>1 DEF Reads, LostOf, WorkingSets
<1> QED  BY <1>1, <1>2, <1>3, <1>4

LEMMA InitStory == Init => Story([s \in {0} |-> rows], 0, 0)
<1> SUFFICES ASSUME Init PROVE Story([s \in {0} |-> rows], 0, 0)
  OBVIOUS
<1> DEFINE full == [s \in {0} |-> rows]
<1>1. rows \in WorkingSets /\ Closed(rows) /\ NoEnds(rows) /\ EndsIn(rows) /\ Reads(rows, rows)
  BY Started DEF Init
<1>2. 0..0 = {0} /\ 1..0 = {} /\ 0 \in 0..MaxOps
  BY StartAssumption
<1>3. Line(0, 0)
  BY <1>2 DEF Line, Init
<1>4. full \in [0..0 -> WorkingSets] /\ full[0] = rows
  BY <1>1, <1>2
<1>5. DOMAIN past = 0..0 /\ past[0] = rows
  BY <1>2 DEF Init
<1>6. (\A r \in StartRows : OnceIn(r)) => OnceIn(rows)
  BY DEF Init
<1> HIDE DEF full
<1>7. Outcomes(full, 0)
  BY <1>1, <1>2, <1>4, <1>5, <1>6 DEF Outcomes
<1>8. Patches(full, 0)
  BY <1>2 DEF Patches
<1>9. Story(full, 0, 0)
  BY <1>1, <1>3, <1>4, <1>7, <1>8 DEF Story
<1> QED  BY <1>9 DEF full

LEMMA NewVersionStory == NewVersion => IInv'
<1> SUFFICES ASSUME NewVersion PROVE IInv'
  OBVIOUS
<1>0. PICK full : full = [s \in {0} |-> rows']
  OBVIOUS
<1>1. /\ rows' \in WorkingSets /\ Closed(rows') /\ NoEnds(rows') /\ EndsIn(rows') /\ Reads(rows', rows')
  BY Started DEF NewVersion
<1>2. 0..0 = {0} /\ 1..0 = {} /\ 0 \in 0..MaxOps
  BY StartAssumption
<1>3. Line(0, 0)'
  BY <1>2 DEF Line, NewVersion
<1>4. full \in [0..0 -> WorkingSets] /\ full[0] = rows'
  BY <1>0, <1>1, <1>2
<1>5. DOMAIN past' = 0..0 /\ past'[0] = rows'
  BY <1>2 DEF NewVersion
<1>6. (\A r \in StartRows : OnceIn(r)) => OnceIn(rows')
  BY DEF NewVersion
<1>7. DOMAIN past' = 0..0 /\ \A s \in 0..0 : /\ past'[s] \in WorkingSets /\ Reads(past'[s], full[s])
                                             /\ EndsIn(full[s]) /\ NoEnds(full[s])
  BY <1>1, <1>2, <1>4, <1>5
<1>8. (\A r \in StartRows : OnceIn(r)) => \A s \in 0..0 : OnceIn(full[s])
  BY <1>2, <1>4, <1>6
<1>9. /\ Line(0, 0)'
      /\ full \in [0..0 -> WorkingSets]
      /\ \A s \in 1..0 : Carries(log'[s].fwd, full[s-1], full[s]) /\ Carries(log'[s].inv, full[s], full[s-1])
      /\ Reads(rows', full[0])
  BY <1>1, <1>2, <1>3, <1>4
<1>10. Outcomes(full, 0)'
  BY <1>7, <1>8, <1>9 DEF Outcomes
<1>11. Patches(full, 0)'
  BY <1>9 DEF Patches
<1>12. Story(full, 0, 0)'
  BY <1>1, <1>9, <1>10, <1>11 DEF Story
<1> QED  BY <1>12 DEF IInv

LEMMA StoryKeeps ==
  ASSUME NEW full, NEW n, NEW k, Story(full, n, k)
  PROVE  Keeping /\ full[k] \in WorkingSets /\ k \in 0..n /\ n \in Nat
<1>1. k \in 0..n /\ n \in Nat /\ full[k] \in WorkingSets /\ NoEnds(full[k])
  BY StartAssumption DEF Story, Line, Outcomes
<1>2. NoEnds(rows)
  BY <1>1 DEF Story, Reads, LostOf, NoEnds, Present
<1> QED  BY <1>1, <1>2 DEF Story, Keeping

(* An operation: what it leaves is put after what was there, and the redo branch goes. *)
LEMMA CommitStory ==
  ASSUME NEW full, NEW n, NEW k, Story(full, n, k), NEW r, NEW T, NEW M, Sound(r, T, M), Commit(r, T, M)
  PROVE  IInv'
<1>0. PICK G, new : /\ G = Outcome(full[k], r)
                    /\ new = [s \in 0..(k+1) |-> IF s = k + 1 THEN G ELSE full[s]]
  OBVIOUS
<1> DEFINE entry == [fwd |-> Forward(r, T, M), inv |-> Backward(r, T, M), undone |-> FALSE]
<1>1. /\ Keeping /\ full[k] \in WorkingSets /\ k \in 0..n /\ n \in Nat /\ k \in Nat
      /\ Reads(rows, full[k])
  <2>1. Keeping /\ full[k] \in WorkingSets /\ k \in 0..n /\ n \in Nat
    BY StoryKeeps
  <2>2. Reads(rows, full[k])
    BY DEF Story
  <2> QED  BY <2>1, <2>2
<1>2. Done = 1..k /\ (k > 0 => Done # {} /\ Newest(Done) = k) /\ (k = 0 => Done = {}) /\ k <= n
  BY OnTheLine DEF Story
<1>3. /\ k + 1 <= MaxOps /\ rows' = r
      /\ log' = [s \in 1..(k+1) |-> IF s = k + 1 THEN entry ELSE log[s]]
      /\ past' = [s \in 0..(k+1) |-> IF s < k + 1 THEN past[s] ELSE r]
  <2> DEFINE seq == IF Done = {} THEN 1 ELSE Newest(Done) + 1
  <2>1. seq = k + 1
    BY <1>1, <1>2
  <2>2. Done \cup {seq} = 1..(k+1)
    BY <1>1, <1>2, <2>1
  <2>3. /\ seq <= MaxOps /\ rows' = r
        /\ log' = [s \in Done \cup {seq} |-> IF s = seq THEN entry ELSE log[s]]
        /\ past' = [s \in 0..seq |-> IF s < seq THEN past[s] ELSE r]
    BY DEF Commit
  <2> HIDE DEF seq, entry
  <2> QED  BY <2>1, <2>2, <2>3
<1>4. /\ G \in WorkingSets /\ Reads(r, G) /\ Present(full[k]) = Present(rows) /\ Present(G) = Present(r)
      /\ \A i \in Present(r) : G[i].src = r[i].src /\ G[i].dst = r[i].dst
  BY <1>0, <1>1, OutcomeRows
<1>5. Carries(Forward(r, T, M), full[k], G) /\ Carries(Backward(r, T, M), G, full[k])
  BY <1>0, <1>1, LoggedPatches
<1>6. r \in WorkingSets /\ Closed(r) /\ NoEnds(r)
  BY DEF Sound
<1>7. EndsIn(G) /\ NoEnds(G)
  BY <1>4, <1>6 DEF EndsIn, NoEnds, Closed, References
<1>8. ASSUME \A x \in StartRows : OnceIn(x) PROVE OnceIn(G)
  <2>1. OnceIn(full[k])
    BY <1>1, <1>8 DEF Story, Outcomes
  <2>2. \A l \in Links \cap Present(rows) : rows[l].src = full[k][l].src /\ rows[l].dst = full[k][l].dst
    BY <1>1 DEF Reads, LostOf, Present
  <2>3. OnceIn(rows)
    BY <1>4, <2>1, <2>2 DEF OnceIn
  <2>4. OnceIn(r)
    BY <2>3 DEF Sound
  <2> QED  BY <1>4, <2>4 DEF OnceIn
<1>9. /\ new \in [0..(k+1) -> WorkingSets] /\ new[k+1] = G
      /\ \A s \in 0..k : s \in 0..n /\ new[s] = full[s] /\ s # k + 1
  <2>1. \A s \in 0..k : s \in 0..n /\ full[s] \in WorkingSets /\ s # k + 1
    BY <1>1 DEF Story, Outcomes
  <2>2. \A s \in 0..(k+1) : s = k + 1 \/ s \in 0..k
    BY <1>1
  <2>3. 0..k \subseteq 0..(k+1) /\ k + 1 \in 0..(k+1)
    BY <1>1
  <2> QED  BY <1>0, <1>4, <2>1, <2>2, <2>3
<1>10. Line(k+1, k+1)'
  <2>1. k + 1 \in 0..MaxOps /\ k + 1 \in 0..(k+1)
    BY <1>1, <1>3, StartAssumption
  <2>2. DOMAIN log' = 1..(k+1)
    BY <1>3
  <2>3. ASSUME NEW s \in 1..(k+1)
        PROVE  log'[s] = [fwd |-> log'[s].fwd, inv |-> log'[s].inv, undone |-> (s > k + 1)]
    <3>1. (s > k + 1) = FALSE
      BY <1>1
    <3>2. CASE s = k + 1
      BY <1>3, <3>1, <3>2
    <3>3. CASE s # k + 1
      <4>1. s \in 1..n /\ (s > k) = FALSE
        BY <1>1, <3>3
      <4>2. log'[s] = log[s]
        BY <1>3, <3>3
      <4>3. log[s] = [fwd |-> log[s].fwd, inv |-> log[s].inv, undone |-> (s > k)]
        BY <4>1 DEF Story, Line
      <4> QED  BY <3>1, <4>1, <4>2, <4>3
    <3> QED  BY <3>2, <3>3
  <2> QED  BY <2>1, <2>2, <2>3 DEF Line
<1>11. /\ DOMAIN past' = 0..(k+1)
       /\ \A s \in 0..(k+1) : /\ past'[s] \in WorkingSets /\ Reads(past'[s], new[s])
                              /\ EndsIn(new[s]) /\ NoEnds(new[s])
  <2> SUFFICES ASSUME NEW s \in 0..(k+1)
               PROVE  /\ past'[s] \in WorkingSets /\ Reads(past'[s], new[s])
                      /\ EndsIn(new[s]) /\ NoEnds(new[s])
    BY <1>3
  <2>1. CASE s = k + 1
    BY <1>1, <1>3, <1>4, <1>6, <1>7, <1>9, <2>1
  <2>2. CASE s # k + 1
    <3>1. s \in 0..k /\ s < k + 1
      BY <1>1, <2>2
    <3> QED  BY <1>3, <1>9, <3>1 DEF Story, Outcomes
  <2> QED  BY <2>1, <2>2
<1>12. (\A x \in StartRows : OnceIn(x)) => \A s \in 0..(k+1) : OnceIn(new[s])
  <2> SUFFICES ASSUME \A x \in StartRows : OnceIn(x), NEW s \in 0..(k+1) PROVE OnceIn(new[s])
    OBVIOUS
  <2>1. s = k + 1 \/ s \in 0..k
    BY <1>1
  <2> QED  BY <1>8, <1>9, <2>1 DEF Story, Outcomes
<1>13. \A s \in 1..(k+1) : Carries(log'[s].fwd, new[s-1], new[s]) /\ Carries(log'[s].inv, new[s], new[s-1])
  <2> SUFFICES ASSUME NEW s \in 1..(k+1)
               PROVE  Carries(log'[s].fwd, new[s-1], new[s]) /\ Carries(log'[s].inv, new[s], new[s-1])
    OBVIOUS
  <2>1. CASE s = k + 1
    <3>1. s - 1 = k /\ k \in 0..k
      BY <1>1, <2>1
    <3>2. log'[s].fwd = Forward(r, T, M) /\ log'[s].inv = Backward(r, T, M)
      BY <1>3, <2>1
    <3> QED  BY <1>5, <1>9, <2>1, <3>1, <3>2
  <2>2. CASE s # k + 1
    <3>1. s \in 0..k /\ s - 1 \in 0..k /\ s \in 1..n
      BY <1>1, <2>2
    <3>2. log'[s] = log[s]
      BY <1>3, <2>2
    <3> QED  BY <1>9, <3>1, <3>2 DEF Story, Patches
  <2> QED  BY <2>1, <2>2
<1>14. rows' \in WorkingSets /\ Closed(rows') /\ Reads(rows', new[k+1])
  BY <1>3, <1>4, <1>6, <1>9
<1>16. Outcomes(new, k+1)'
  BY <1>9, <1>11, <1>12 DEF Outcomes
<1>17. Patches(new, k+1)'
  BY <1>13 DEF Patches
<1>18. Story(new, k+1, k+1)'
  BY <1>10, <1>14, <1>16, <1>17 DEF Story
<1> QED  BY <1>18 DEF IInv

(* A step that writes the patch p of one entry, over what was there before or after it. *)
LEMMA TurnedStory ==
  ASSUME NEW full, NEW n, NEW k, Story(full, n, k), NEW j \in 0..n, NEW p,
         Carries(p, full[k], full[j]), rows' = Patched(rows, p),
         Line(n, j)', past' = past,
         \A s \in 1..n : log'[s].fwd = log[s].fwd /\ log'[s].inv = log[s].inv
  PROVE  Story(full, n, j)'
<1>1. /\ full[k] \in WorkingSets /\ full[j] \in WorkingSets /\ EndsIn(full[j])
      /\ rows \in WorkingSets /\ Reads(rows, full[k]) /\ Closed(rows)
  BY DEF Story, Outcomes, Line
<1>2. Patched(rows, p) \in WorkingSets /\ Reads(Patched(rows, p), full[j]) /\ Closed(Patched(rows, p))
  BY <1>1, PatchLands
<1>3. Outcomes(full, n)'
  BY DEF Story, Outcomes
<1>4. Patches(full, n)'
  BY DEF Story, Patches
<1> QED  BY <1>2, <1>3, <1>4 DEF Story

LEMMA UndoStory == ASSUME NEW full, NEW n, NEW k, Story(full, n, k), Undo PROVE Story(full, n, k - 1)'
<1>1. Line(n, k) /\ Patches(full, n)
  BY DEF Story
<1>2. /\ k \in 1..n /\ Newest(Done) = k /\ n \in Nat /\ n <= MaxOps /\ k \in Nat /\ k > 0
  BY <1>1, OnTheLine DEF Undo
<1>3. /\ rows' = Patched(rows, log[k].inv) /\ log' = [log EXCEPT ![k].undone = TRUE] /\ past' = past
  BY <1>2 DEF Undo
<1>4. Carries(log[k].inv, full[k], full[k - 1])
  BY <1>1, <1>2 DEF Patches
<1>5. ASSUME NEW s \in 1..n
      PROVE  log'[s] = [fwd |-> log[s].fwd, inv |-> log[s].inv, undone |-> (s > k - 1)]
  <2>1. log[s] = [fwd |-> log[s].fwd, inv |-> log[s].inv, undone |-> (s > k)]
    BY <1>1 DEF Line
  <2>2. CASE s = k
    <3>1. (s > k - 1) = TRUE
      BY <1>2, <2>2
    <3>2. log'[s] = [log[s] EXCEPT !.undone = TRUE]
      BY <1>1, <1>2, <1>3, <2>2 DEF Line
    <3> QED  BY <2>1, <3>1, <3>2
  <2>3. CASE s # k
    <3>1. (s > k - 1) = (s > k)
      BY <1>2, <2>3
    <3>2. log'[s] = log[s]
      BY <1>1, <1>3, <2>3 DEF Line
    <3> QED  BY <2>1, <3>1, <3>2
  <2> QED  BY <2>2, <2>3
<1>6. ASSUME NEW s \in 1..n PROVE log'[s].fwd = log[s].fwd /\ log'[s].inv = log[s].inv
  <2> PICK f, g, u : f = log[s].fwd /\ g = log[s].inv /\ u = (s > k - 1)
    OBVIOUS
  <2>1. log'[s] = [fwd |-> f, inv |-> g, undone |-> u]
    BY <1>5
  <2> QED  BY <2>1
<1>7. Line(n, k - 1)'
  <2>1. n \in 0..MaxOps /\ k - 1 \in 0..n
    BY <1>1, <1>2 DEF Line
  <2>2. DOMAIN log' = 1..n
    BY <1>1, <1>3 DEF Line
  <2> QED  BY <1>5, <1>6, <2>1, <2>2 DEF Line
<1>8. k - 1 \in 0..n
  BY <1>2
<1> QED  BY <1>3, <1>4, <1>6, <1>7, <1>8, TurnedStory

LEMMA RedoStory == ASSUME NEW full, NEW n, NEW k, Story(full, n, k), Redo PROVE Story(full, n, k + 1)'
<1>1. Line(n, k) /\ Patches(full, n)
  BY DEF Story
<1>2. /\ k + 1 \in 1..n /\ Oldest(Undone) = k + 1 /\ n \in Nat /\ n <= MaxOps /\ k \in Nat
  BY <1>1, OnTheLine DEF Redo
<1>3. /\ rows' = Patched(rows, log[k + 1].fwd) /\ log' = [log EXCEPT ![k + 1].undone = FALSE] /\ past' = past
  BY <1>2 DEF Redo
<1>4. Carries(log[k + 1].fwd, full[k], full[k + 1])
  <2>1. (k + 1) - 1 = k
    BY <1>2
  <2> QED  BY <1>1, <1>2, <2>1 DEF Patches
<1>5. ASSUME NEW s \in 1..n
      PROVE  log'[s] = [fwd |-> log[s].fwd, inv |-> log[s].inv, undone |-> (s > k + 1)]
  <2>1. log[s] = [fwd |-> log[s].fwd, inv |-> log[s].inv, undone |-> (s > k)]
    BY <1>1 DEF Line
  <2>2. CASE s = k + 1
    <3>1. (s > k + 1) = FALSE
      BY <1>2, <2>2
    <3>2. log'[s] = [log[s] EXCEPT !.undone = FALSE]
      BY <1>1, <1>2, <1>3, <2>2 DEF Line
    <3> QED  BY <2>1, <3>1, <3>2
  <2>3. CASE s # k + 1
    <3>1. (s > k + 1) = (s > k)
      BY <1>2, <2>3
    <3>2. log'[s] = log[s]
      BY <1>1, <1>3, <2>3 DEF Line
    <3> QED  BY <2>1, <3>1, <3>2
  <2> QED  BY <2>2, <2>3
<1>6. ASSUME NEW s \in 1..n PROVE log'[s].fwd = log[s].fwd /\ log'[s].inv = log[s].inv
  <2> PICK f, g, u : f = log[s].fwd /\ g = log[s].inv /\ u = (s > k + 1)
    OBVIOUS
  <2>1. log'[s] = [fwd |-> f, inv |-> g, undone |-> u]
    BY <1>5
  <2> QED  BY <2>1
<1>7. Line(n, k + 1)'
  <2>1. n \in 0..MaxOps /\ k + 1 \in 0..n
    BY <1>1, <1>2 DEF Line
  <2>2. DOMAIN log' = 1..n
    BY <1>1, <1>3 DEF Line
  <2> QED  BY <1>5, <1>6, <2>1, <2>2 DEF Line
<1>8. k + 1 \in 0..n
  BY <1>2
<1> QED  BY <1>3, <1>4, <1>6, <1>7, <1>8, TurnedStory

---------------------------------------------------------------------------
(* Theorems *)

(* In every run there is a story the log tells: outcomes of the operations that its
   patches lead to and from, of which the working set is the last one done. *)
THEOREM StoryHolds == Spec => []IInv
<1>1. Init => IInv
  BY InitStory DEF IInv
<1>2. IInv /\ [Next]_vars => IInv'
  <2> SUFFICES ASSUME IInv, [Next]_vars PROVE IInv'
    OBVIOUS
  <2>1. PICK full, n, k : Story(full, n, k)
    BY DEF IInv
  <2>2. CASE ApplyOperation
    <3>1. Keeping
      BY <2>1, StoryKeeps
    <3>2. PICK r, T, M : Sound(r, T, M) /\ Commit(r, T, M)
      BY <2>2, <3>1, OperationSound DEF Committed
    <3> QED  BY <2>1, <3>2, CommitStory
  <2>3. CASE Undo
    BY <2>1, <2>3, UndoStory DEF IInv
  <2>4. CASE Redo
    BY <2>1, <2>4, RedoStory DEF IInv
  <2>5. CASE NewVersion
    BY <2>5, NewVersionStory
  <2>6. CASE UNCHANGED vars
    <3>1. Story(full, n, k)'
      BY <2>1, <2>6 DEF vars, Story, Line, Outcomes, Patches
    <3> QED  BY <3>1 DEF IInv
  <2> QED  BY <2>2, <2>3, <2>4, <2>5, <2>6 DEF Next
<1> QED  BY <1>1, <1>2, PTL DEF Spec

(* Type correctness: rows, log and history keep their shapes, within the bound. *)
THEOREM TypeCorrect == Spec => []TypeOK
<1>1. IInv => TypeOK
  <2> SUFFICES ASSUME NEW full, NEW n, NEW k, Story(full, n, k) PROVE TypeOK
    BY DEF IInv
  <2>1. /\ n \in Nat /\ k \in Nat /\ n <= MaxOps /\ MaxOps \in Nat
        /\ DOMAIN log = 1..n /\ DOMAIN past = 0..n
        /\ Done \cup Undone = 1..n
    BY OnTheLine, StartAssumption DEF Story, Line, Outcomes
  <2>2. 1..n \subseteq 1..MaxOps /\ 0..n \subseteq 0..MaxOps /\ 0 \in 0..n
    BY <2>1
  <2>3. ASSUME NEW s \in 1..n PROVE log[s].undone \in BOOLEAN
    <3>1. log[s] = [fwd |-> log[s].fwd, inv |-> log[s].inv, undone |-> (s > k)]
      BY DEF Story, Line
    <3> PICK f, g, u : f = log[s].fwd /\ g = log[s].inv /\ u = (s > k)
      OBVIOUS
    <3>2. u \in BOOLEAN
      BY <2>1
    <3>3. log[s] = [fwd |-> f, inv |-> g, undone |-> u]
      BY <3>1
    <3> QED  BY <3>2, <3>3
  <2>4. rows \in WorkingSets /\ \A s \in 0..n : past[s] \in WorkingSets
    BY DEF Story, Outcomes
  <2> QED  BY <2>1, <2>2, <2>3, <2>4 DEF TypeOK, WorkingSets
<1> QED  BY <1>1, StoryHolds, PTL

(* Undo takes back the newest operation done and redo brings back the oldest undone:
   the log never has an operation done after one undone, a gap or a number twice. *)
THEOREM LogStaysALine == Spec => []LogIsALine
<1>1. IInv => LogIsALine
  <2> SUFFICES ASSUME NEW full, NEW n, NEW k, Story(full, n, k) PROVE LogIsALine
    BY DEF IInv
  <2>1. /\ n \in 0..MaxOps /\ k \in 0..MaxOps /\ k <= n /\ DOMAIN log = 1..n
    BY StartAssumption DEF Story, Line
  <2>2. ASSUME NEW s \in 1..n PROVE log[s].undone = (s > k)
    <3>1. log[s] = [fwd |-> log[s].fwd, inv |-> log[s].inv, undone |-> (s > k)]
      BY DEF Story, Line
    <3> DEFINE f == log[s].fwd
               g == log[s].inv
    <3> HIDE DEF f, g
    <3>2. [fwd |-> f, inv |-> g, undone |-> (s > k)].undone = (s > k)
      BY Zenon
    <3> QED  BY <3>1, <3>2, Zenon DEF f, g
  <2> QED  BY <2>1, <2>2, Zenon DEF LogIsALine
<1> QED  BY <1>1, StoryHolds, PTL

(* After any number of undos and redos the working set shows what the newest operation
   done left, but for parents and cables that foreign keys set to NULL. *)
THEOREM UndoRestores == Spec => []UndoRestoresRows
<1>1. IInv => UndoRestoresRows
  <2> SUFFICES ASSUME NEW full, NEW n, NEW k, Story(full, n, k), NEW i \in Ids
               PROVE  SameButLost(rows[i], past[Now][i])
    BY DEF IInv, UndoRestoresRows
  <2>1. Now = k
    BY OnTheLine DEF Story
  <2>2. LostOf(rows[i], full[k][i]) /\ LostOf(past[k][i], full[k][i])
    BY DEF Story, Line, Outcomes, Reads
  <2> DEFINE x == rows[i]
             y == past[k][i]
             f == full[k][i]
  <2>3. LostOf(x, f) /\ LostOf(y, f)
    BY <2>2
  <2> HIDE DEF x, y, f
  <2>4. ASSUME f = Gone PROVE SameButLost(x, y)
    BY <2>3, <2>4 DEF LostOf, SameButLost
  <2>5. ASSUME f # Gone PROVE SameButLost(x, y)
    <3>1. /\ x # Gone /\ y # Gone /\ x \in Images /\ y \in Images
          /\ x.head = y.head /\ x.src = y.src /\ x.dst = y.dst /\ x.mark = y.mark
          /\ x.parent \in {f.parent, Null} /\ y.parent \in {f.parent, Null}
          /\ x.via \in {f.via, Null} /\ y.via \in {f.via, Null}
      BY <2>3, <2>5 DEF LostOf
    <3>2. x = [y EXCEPT !.parent = x.parent, !.via = x.via]
      BY <3>1 DEF Images
    <3> QED  BY <3>1, <3>2 DEF SameButLost
  <2>6. SameButLost(x, y)
    BY <2>4, <2>5
  <2> QED  BY <2>1, <2>6 DEF x, y
<1> QED  BY <1>1, StoryHolds, PTL

(* The patch the next undo or redo writes finds every row it needs: none is refused. *)
THEOREM PatchesAlwaysApply == Spec => []PatchesApply
<1>1. IInv => PatchesApply
  <2> SUFFICES ASSUME NEW full, NEW n, NEW k, Story(full, n, k) PROVE PatchesApply
    BY DEF IInv
  <2>0. /\ k \in 0..n /\ n \in Nat /\ Patches(full, n)
        /\ rows \in WorkingSets /\ Closed(rows) /\ Reads(rows, full[k])
        /\ \A s \in 0..n : full[s] \in WorkingSets /\ EndsIn(full[s])
    BY StartAssumption DEF Story, Line, Outcomes
  <2>1. ASSUME Done # {} PROVE PatchApplies(rows, log[Newest(Done)].inv)
    <3>1. k > 0 /\ Newest(Done) = k
      BY <2>0, <2>1, OnTheLine DEF Story
    <3>2. k \in 1..n /\ k - 1 \in 0..n
      BY <2>0, <3>1
    <3>3. Carries(log[k].inv, full[k], full[k - 1])
      BY <2>0, <3>2 DEF Patches
    <3> QED  BY <2>0, <3>1, <3>2, <3>3, PatchLands
  <2>2. ASSUME Undone # {} PROVE PatchApplies(rows, log[Oldest(Undone)].fwd)
    <3>1. k < n /\ Oldest(Undone) = k + 1
      BY <2>0, <2>2, OnTheLine DEF Story
    <3>2. k + 1 \in 1..n /\ k + 1 \in 0..n /\ (k + 1) - 1 = k
      BY <2>0, <3>1
    <3>3. Carries(log[k + 1].fwd, full[k], full[k + 1])
      BY <2>0, <3>2 DEF Patches
    <3> QED  BY <2>0, <3>1, <3>2, <3>3, PatchLands
  <2> QED  BY <2>1, <2>2 DEF PatchesApply
<1> QED  BY <1>1, StoryHolds, PTL

(* A version that starts with each pair of devices linked once keeps it so: the look
   before each insert is enough, across every undo and redo. *)
THEOREM LinkedOnceHolds ==
  ASSUME \A r \in StartRows : OnceIn(r)
  PROVE  Spec => []LinkedOnce
<1>1. IInv => LinkedOnce
  <2> SUFFICES ASSUME NEW full, NEW n, NEW k, Story(full, n, k) PROVE LinkedOnce
    BY DEF IInv
  <2>1. OnceIn(full[k]) /\ Reads(rows, full[k])
    BY DEF Story, Line, Outcomes
  <2>2. Present(rows) = Present(full[k])
    BY <2>1 DEF Reads, LostOf, Present
  <2>3. \A l \in Links \cap Present(rows) : rows[l].src = full[k][l].src /\ rows[l].dst = full[k][l].dst
    BY <2>1 DEF Reads, LostOf, Present
  <2> QED  BY <2>1, <2>2, <2>3 DEF LinkedOnce, OnceIn
<1> QED  BY <1>1, StoryHolds, PTL
=============================================================================
