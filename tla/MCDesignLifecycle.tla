------------------------ MODULE MCDesignLifecycle ------------------------
(* DesignLifecycle on one device and one cable. *)
EXTENDS DesignLifecycle
CONSTANTS fat, cab, p1, p2, eng, mgr
==========================================================================
