------------------------------ MODULE MCEditLog ------------------------------
(* EditLog on an FDT, a FAT and a closure, two cables and two links. *)
EXTENDS EditLog
CONSTANTS fdt, fat, box, c1, c2, l1, l2, m1

(* What a version may start with.  Its rows bear no mark yet, so that the first
   move or edit of each is a change. *)
Plain(p, h) == NewDevice(p, h, Null)
Empty == [i \in Ids |-> Gone]
(* The FDT feeds the FAT over a cable. *)
Fed == [Empty EXCEPT ![fdt] = Plain(Null, Null), ![fat] = Plain(Null, fdt),
                     ![c1] = NewCable(fdt, fat, Null), ![l1] = NewLink(fdt, fat, c1)]
(* The FDT feeds the closure and the closure the FAT. *)
Chain == [Empty EXCEPT ![fdt] = Plain(Null, Null), ![box] = Plain(Null, Null), ![fat] = Plain(Null, fdt),
                       ![c1] = NewCable(fdt, box, Null), ![l1] = NewLink(fdt, box, c1),
                       ![c2] = NewCable(box, fat, Null), ![l2] = NewLink(box, fat, c2)]
(* The FAT is a child of the closure; a link without a cable feeds it. *)
Nested == [Empty EXCEPT ![fdt] = Plain(Null, Null), ![box] = Plain(Null, Null), ![fat] = Plain(box, fdt),
                        ![c1] = NewCable(fdt, box, Null), ![l1] = NewLink(fdt, fat, Null)]
(* The FAT is a child of the closure and the closure of the FDT: deleting the FDT
   leaves the FAT and takes no image of it. *)
Deep == [Empty EXCEPT ![fdt] = Plain(Null, Null), ![box] = Plain(fdt, Null), ![fat] = Plain(box, Null)]
Designed == {Empty, Fed, Chain, Nested, Deep}
==============================================================================
