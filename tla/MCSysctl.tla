------------------------------ MODULE MCSysctl ------------------------------
(* Model-checking instances of ScopedSysctl: two knobs and a missing oid. *)
EXTENDS ScopedSysctl

Machine == [limit |-> 10, slop |-> 200, renamed |-> -1]
Probes == {3, 0}

\* Between the statements of an experiment, and inside a destructor.
SafePlaces == {"run", "retire"}
\* Also inside a constructor.
AllPlaces == Places
=============================================================================
