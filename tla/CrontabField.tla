---------------------------- MODULE CrontabField ----------------------------
(***************************************************************************)
(* One field of a crontab: Libs/Sentinel.Scheduler, GeneralScheduler/Cron, *)
(* CrontabField.cs and CrontabFieldImpl.cs.  A field is the set of its     *)
(* values with the least and the greatest one, which are kept beside it    *)
(* and bound the search for the next value.                                *)
(*                                                                         *)
(* The text of a field is a list of terms.  A term is the numbers in it    *)
(* (the name of a month or a day is the number it stands for) and its      *)
(* form: "*", "first-last" or "first", each with an optional "/every", or  *)
(* something that is neither.                                              *)
(***************************************************************************)
EXTENDS Integers

CONSTANTS
    IntMax,     \* the greatest int: later values wrap around
    Numbers,    \* numbers a term can contain
    Everys      \* numbers behind the slash; 1 when there is none

ASSUME IntAssumption ==
    /\ IntMax \in Nat
    /\ Numbers \subseteq 0 .. IntMax
    /\ Everys \subseteq -IntMax .. IntMax

nil == -1

Term ==
    [form : {"wildcard"}, every : Everys]
      \cup [form : {"range"}, first : Numbers, last : Numbers, every : Everys]
      \cup [form : {"value"}, first : Numbers, every : Everys]
      \cup [form : {"bad"}]

\* The constructor, before the text is parsed.
EmptyField == [bits |-> {}, minValueSet |-> IntMax, maxValueSet |-> nil]

-----------------------------------------------------------------------------
(***************************************************************************)
(* InternalParse hands accumulate a start, an end and an interval.  impl   *)
(* holds the least and the greatest value of the kind of field.            *)
(***************************************************************************)
Start(term) == IF term.form = "wildcard" THEN nil ELSE term.first

End(impl, term) ==
    CASE term.form = "wildcard"                -> nil
      [] term.form = "range"                   -> term.last
      [] term.form = "value" /\ term.every = 1 -> term.first
      [] OTHER                                 -> impl.max

\* accumulate: the ends in order; a negative one stands for the whole range.
Lower(impl, term) ==
    LET s == Start(term) e == End(impl, term) lo == IF s <= e THEN s ELSE e
    IN  IF lo < 0 THEN impl.min ELSE lo

Upper(impl, term) ==
    LET s == Start(term) e == End(impl, term) hi == IF s <= e THEN e ELSE s
    IN  IF hi < 0 THEN impl.max ELSE hi

Interval(term) == IF term.every < 1 THEN 1 ELSE term.every

\* The last value the loop sets.
LastStep(impl, term) ==
    LET lower == Lower(impl, term) upper == Upper(impl, term)
    IN  upper - ((upper - lower) % Interval(term))

\* Mutant: the upper end is not checked.
MutRejected(impl, term) ==
    \/ term.form = "bad"
    \/ Lower(impl, term) < impl.min
    \/ LastStep(impl, term) - impl.min + Interval(term) > IntMax

\* A term that cannot be read, an end outside the range, or a loop variable
\* that wraps around to an index below zero.
Rejected(impl, term) ==
    \/ term.form = "bad"
    \/ Lower(impl, term) < impl.min
    \/ Upper(impl, term) > impl.max
    \/ LastStep(impl, term) - impl.min + Interval(term) > IntMax

Steps(impl, term) ==
    {i \in Lower(impl, term) .. Upper(impl, term) :
        (i - Lower(impl, term)) % Interval(term) = 0}

\* Mutant: the greatest value is the end of the range, set or not.
MutAccumulate(f, impl, term) ==
    LET lower == Lower(impl, term) upper == Upper(impl, term)
    IN  [bits        |-> f.bits \cup Steps(impl, term),
         minValueSet |-> IF f.minValueSet > lower THEN lower
                                                  ELSE f.minValueSet,
         maxValueSet |-> IF f.maxValueSet < upper THEN upper
                                                  ELSE f.maxValueSet]

Accumulate(f, impl, term) ==
    LET lower == Lower(impl, term) last == LastStep(impl, term)
    IN  [bits        |-> f.bits \cup Steps(impl, term),
         minValueSet |-> IF f.minValueSet > lower THEN lower
                                                  ELSE f.minValueSet,
         maxValueSet |-> IF f.maxValueSet < last THEN last ELSE f.maxValueSet]

-----------------------------------------------------------------------------
GetFirst(f) == IF f.minValueSet < IntMax THEN f.minValueSet ELSE nil

\* The first value at or after start, up to the greatest one.
Next(f, start) ==
    LET later == {i \in f.bits : start <= i /\ i <= f.maxValueSet}
    IN  IF start < f.minValueSet THEN f.minValueSet
        ELSE IF later = {} THEN nil
        ELSE CHOOSE i \in later : \A j \in later : i <= j

Contains(f, value) == value \in f.bits

\* The least and the greatest value are values of the field and bound it,
\* whatever the terms, their overlaps and the steps that miss their end.
Coherent(f) ==
    /\ f.minValueSet \in f.bits
    /\ f.maxValueSet \in f.bits
    /\ \A i \in f.bits : f.minValueSet <= i /\ i <= f.maxValueSet
=============================================================================
