---------------------------- MODULE ScopedSysctl ----------------------------
(***************************************************************************)
(* tp::ScopedSysctl (src/src/sysctl.cpp): guards that set a kernel knob    *)
(* for a scope and put it back, with a process-wide table that restores    *)
(* the knobs when the process ends by exit() or by a handled signal.  The  *)
(* constructor and the destructor are modelled statement by statement,     *)
(* because a signal may arrive between any two of them.                    *)
(***************************************************************************)
EXTENDS Integers, Sequences, FiniteSets

CONSTANTS
    Initial,     \* the machine's knobs and their values; negative: no such oid
    Values,      \* values a guard may ask for
    MaxGuards,   \* bound: guards constructed in one run
    SignalAt     \* places where SIGINT, SIGTERM or SIGHUP may arrive

Knobs == DOMAIN Initial
Places == {"run", "set", "insert", "original", "depth", "arm", "retire"}

ASSUME GuardsAssumption == MaxGuards \in Nat /\ Values \subseteq Nat
ASSUME InitialAssumption == Initial \in [Knobs -> Int]
ASSUME PlacesAssumption == SignalAt \subseteq Places

VARIABLES
    knob,      \* the kernel's values
    pending,   \* pending(): name -> [original, depth]
    armed,     \* g_handlers_armed
    guards,    \* live guards, innermost last
    pc,        \* the statement to run next, or "dead"
    made       \* guards constructed so far

vars == <<knob, pending, armed, guards, pc, made>>

Top == guards[Len(guards)]
Pop == SubSeq(guards, 1, Len(guards) - 1)

Init ==
    /\ knob = Initial
    /\ pending = <<>>
    /\ armed = FALSE
    /\ guards = <<>>
    /\ pc = "run"
    /\ made = 0

\* sysctl_get() with its fallback; a missing oid leaves an inert guard.
Construct(name, value) ==
    /\ pc = "run"
    /\ made < MaxGuards
    /\ made' = made + 1
    /\ guards' = Append(guards, [name |-> name, value |-> value, original |-> knob[name],
                                 ok |-> FALSE])
    /\ pc' = IF knob[name] < 0 THEN "run" ELSE "set"
    /\ UNCHANGED <<knob, pending, armed>>

\* sysctl_set() succeeds, or it fails and the guard stays inert.
CtorSet ==
    /\ pc = "set"
    /\ knob' = [knob EXCEPT ![Top.name] = Top.value]
    /\ guards' = [guards EXCEPT ![Len(guards)].ok = TRUE]
    /\ pc' = "insert"
    /\ UNCHANGED <<pending, armed, made>>

CtorSetFails ==
    /\ pc = "set"
    /\ pc' = "run"
    /\ UNCHANGED <<knob, pending, armed, guards, made>>

\* pending()[name_] value-initialises a missing entry.
CtorInsert ==
    /\ pc = "insert"
    /\ pending' = [n \in DOMAIN pending \cup {Top.name} |->
                     IF n \in DOMAIN pending THEN pending[n] ELSE [original |-> 0, depth |-> 0]]
    /\ pc' = "original"
    /\ UNCHANGED <<knob, armed, guards, made>>

\* The outermost guard owns the value.
OwnsValue == pending[Top.name].depth = 0

CtorOriginal ==
    /\ pc = "original"
    /\ pending' = IF OwnsValue THEN [pending EXCEPT ![Top.name].original = Top.original] ELSE pending
    /\ pc' = "depth"
    /\ UNCHANGED <<knob, armed, guards, made>>

DepthAfter == pending[Top.name].depth + 1

CtorDepth ==
    /\ pc = "depth"
    /\ pending' = [pending EXCEPT ![Top.name].depth = DepthAfter]
    /\ pc' = "arm"
    /\ UNCHANGED <<knob, armed, guards, made>>

CtorArm ==
    /\ pc = "arm"
    /\ armed' = TRUE
    /\ pc' = "run"
    /\ UNCHANGED <<knob, pending, guards, made>>

\* The innermost guard leaves its scope: an inert one does nothing.
DtorInert ==
    /\ pc = "run"
    /\ guards # <<>>
    /\ ~ Top.ok
    /\ guards' = Pop
    /\ UNCHANGED <<knob, pending, armed, pc, made>>

\* Mutant: the earliest value is restored, not the guard's own.
RestoreEarliest == pending[Top.name].original
RestoreValue == Top.original

DtorSet ==
    /\ pc = "run"
    /\ guards # <<>>
    /\ Top.ok
    /\ knob' = [knob EXCEPT ![Top.name] = RestoreValue]
    /\ pc' = "retire"
    /\ UNCHANGED <<pending, armed, guards, made>>

\* Only the outermost guard retires the entry.
\* Mutant: the entry is erased by whichever guard ends first.
RetiresAlways == TRUE
Retires == pending[Top.name].depth - 1 <= 0

DtorRetire ==
    /\ pc = "retire"
    /\ pending' = IF Top.name \notin DOMAIN pending THEN pending
                  ELSE IF Retires
                  THEN [n \in DOMAIN pending \ {Top.name} |-> pending[n]]
                  ELSE [pending EXCEPT ![Top.name].depth = @ - 1]
    /\ guards' = Pop
    /\ pc' = "run"
    /\ UNCHANGED <<knob, armed, made>>

\* restore_all().
Restored == [n \in Knobs |-> IF n \in DOMAIN pending THEN pending[n].original ELSE knob[n]]

\* The process ends; restore_all() runs if the handlers are armed.
Ends ==
    /\ knob' = IF armed THEN Restored ELSE knob
    /\ pending' = IF armed THEN <<>> ELSE pending
    /\ pc' = "dead"
    /\ UNCHANGED <<armed, guards, made>>

\* exit() anywhere in the experiment, or the return of main().
Exit == pc = "run" /\ Ends

\* on_signal(), or the default disposition when it is not installed.
Signal == pc \in SignalAt /\ Ends

Next ==
    \/ \E name \in Knobs, value \in Values : Construct(name, value)
    \/ CtorSet \/ CtorSetFails \/ CtorInsert \/ CtorOriginal \/ CtorDepth \/ CtorArm
    \/ DtorInert \/ DtorSet \/ DtorRetire
    \/ Exit \/ Signal

Spec == Init /\ [][Next]_vars

-----------------------------------------------------------------------------
(* Properties *)

Guard == [name : Knobs, value : Values, original : Int, ok : BOOLEAN]

\* Type invariant.
TypeOK ==
    /\ knob \in [Knobs -> Int]
    /\ DOMAIN pending \subseteq Knobs
    /\ pending \in [DOMAIN pending -> [original : Int, depth : Int]]
    /\ armed \in BOOLEAN
    /\ guards \in Seq(Guard)
    /\ pc \in Places \cup {"dead"}
    /\ pc \notin {"run", "dead"} => guards # <<>>

\* What sysctl.hpp promises: however the process ends (return, exit() on a
\* hard error, a handled signal), the machine's knobs are as it found them.
RestoredAtDeath == pc = "dead" => knob = Initial

OkGuards(n) == {k \in 1 .. Len(guards) : guards[k].ok /\ guards[k].name = n}

\* Scopes nest: a knob has the value its innermost live guard asked for, and
\* the machine's own value when there is none.
ScopeValue ==
    pc = "run" =>
        \A n \in Knobs :
            knob[n] = IF OkGuards(n) = {} THEN Initial[n]
                      ELSE guards[CHOOSE k \in OkGuards(n) : \A j \in OkGuards(n) : j <= k].value
=============================================================================
