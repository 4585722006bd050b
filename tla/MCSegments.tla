----------------------------- MODULE MCSegments -----------------------------
(* Symmetry and view for checking Segments with TLC.  The view leaves out  *)
(* the memory of objects that have been freed.                             *)
EXTENDS Segments

Symmetry == Permutations(Proc) \cup Permutations(Obj)

View ==
    LET contents(o) == <<number[o], next_seg_num[o], prev_seg_num[o], is_invalid[o],
                         is_persistent[o], procs_using[o], procs_tracking[o]>>
        command(p) == IF pc[p] \in {"idle", "out", "exit"} \/ ret[p] = "exit" THEN "none"
                      ELSE IF pc[p] \in {"return", "gc"} /\ cmd[p] # "clean" THEN "any"
                      ELSE cmd[p]
    IN  <<first_seg_num, last_seg_num, num_shared_segments, total_shared_size,
          max_shared_segments, up_to_date, rev_is_initial, locks, names,
          [o \in Obj \ FreeObj |-> contents(o)], faults, handles, proc, pc,
          [p \in Proc |-> command(p)],
          cur, ret, rest, scan>>
=============================================================================
