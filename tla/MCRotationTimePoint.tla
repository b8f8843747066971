-------------------------- MODULE MCRotationTimePoint -------------------------
EXTENDS RotationTimePoint

\* Months of three to five days, the last day of one not the last of another.
ShortMonths == <<4, 5, 3, 4, 5, 4>>
EveryPoint ==
    {[kind |-> "not_specified", day |-> 0, time |-> t] : t \in 0..2} \cup
    {[kind |-> "weekday", day |-> d, time |-> t] : d \in 0..2, t \in 0..2} \cup
    {[kind |-> "monthday", day |-> d, time |-> t] : d \in 1..5, t \in 0..2} \cup
    {[kind |-> "interval", day |-> 0, time |-> t] : t \in {1, 4}}
===============================================================================
