---------------------------- MODULE MCSharedInfo ----------------------------
(* Symmetry and view for checking SharedInfo with TLC.  The view leaves    *)
(* out what no step reads before it is overwritten: the memory of a freed  *)
(* object, and the first of a process that is not counted.                 *)
EXTENDS SharedInfo, TLC

Symmetry == Permutations(Proc) \cup Permutations(Obj)

View ==
    LET memory(o) == <<num_procs[o], is_initialized[o], user_defined[o]>>
    IN  <<name, [o \in Obj \ FreeObj |-> memory(o)], config_file, handle,
          [p \in Proc |-> first[p] /\ pc[p] \in Counted], pc, crashes, failures>>

(* What UnlinkWaitEnds and InitWaitEnds say without their exception: not   *)
(* true of a call that fails halfway.                                      *)
UnlinkWaitAlwaysEnds == \A p \in Proc : pc[p] = "wait_post" ~> pc[p] # "wait_post"
InitWaitAlwaysEnds == \A p \in Proc : pc[p] = "wait_init" ~> pc[p] = "up"
=============================================================================
