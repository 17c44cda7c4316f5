------------------------------- MODULE Filter -------------------------------
(***************************************************************************)
(* The C++ Filter base class (Filters/Filter.h, Filter.cpp) wrapped around *)
(* a gyro as its PIDSource.                                                *)
(*                                                                         *)
(* The constructors set m_source but leave m_pidSourceType without an      *)
(* initialiser.  Reading it before SetPIDSourceType is undefined; the      *)
(* build reads whatever bits the object holds, so Init chooses any value   *)
(* of the enum's storage.  A subclass's PIDGet(pidSource) reads its input  *)
(* through PIDGetSource(), which passes the stored m_pidSourceType to the  *)
(* source.  The only PIDGet of a source in the sources is GyroBase's: the  *)
(* rate for kRate, the angle for kDisplacement, 0.0 otherwise.             *)
(***************************************************************************)

SourceTypes == {"kDisplacement", "kRate"}

\* What an uninitialised PIDSourceType can hold: a valid enumerator, or
\* another value of the underlying int.
Storage == SourceTypes \cup {"other"}

VARIABLES
    sourceType, \* Filter::m_pidSourceType
    wasSet,     \* whether SetPIDSourceType was ever called
    requested,  \* the PIDSourceType of the last PIDGet call
    reading     \* what that PIDGet read from the source

vars == <<sourceType, wasSet, requested, reading>>

\* GyroBase.pidGet(pidSource).
GyroPIDGet(t) ==
    CASE t = "kRate" -> "rate"
      [] t = "kDisplacement" -> "angle"
      [] OTHER -> "zero"

\* Filter(source): m_source is set, m_pidSourceType is not.
Init ==
    /\ sourceType \in Storage
    /\ wasSet = FALSE
    /\ requested = "none"
    /\ reading = "none"

\* Filter::SetPIDSourceType(pidSource).
SetPIDSourceType ==
    /\ \E t \in SourceTypes : sourceType' = t
    /\ wasSet' = TRUE
    /\ UNCHANGED <<requested, reading>>

\* A caller asks the filter for its input of type t; the subclass reads the
\* source through PIDGetSource(): m_source->PIDGet(m_pidSourceType).
PIDGetSource ==
    /\ \E t \in SourceTypes :
         /\ requested' = t
         /\ reading' = GyroPIDGet(sourceType)
    /\ UNCHANGED <<sourceType, wasSet>>

Next == SetPIDSourceType \/ PIDGetSource

Spec == Init /\ [][Next]_vars

-----------------------------------------------------------------------------
(* Statements the code does not meet                                       *)

\* The gyro's documentation ("may be the angle or rate depending on the set
\* PIDSourceType"): a filter over a gyro always hands on a measurement, the
\* angle or the rate, never the 0.0 of GyroBase's default branch.  Broken
\* by a PIDGet before SetPIDSourceType (Filter.h, m_pidSourceType).
ReadsMeasurement == reading # "zero"
=============================================================================
