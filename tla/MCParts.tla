-------------------------------- MODULE MCParts --------------------------------
(***************************************************************************)
(* The parts of the library that hold their state by themselves, in one    *)
(* run: the initial state picks one part and one of its initial states,    *)
(* and only that part moves.  The parts that are not picked keep the one   *)
(* state that Init gives them.                                             *)
(***************************************************************************)
EXTENDS AttributeSet, AttributeValuesView, AttributeNames, NamedScopes, FilterParser,
        MCLoggers, OrderingQueue, FormattingFrontend, LockingPtr, FileNamePattern,
        MCRotationTimePoint, TextFileBackend, CollectorRepository

CONSTANT
    Parts            \* the names of the parts to pick from

VARIABLE
    part             \* the part that was picked

\* Sets are filled with at most two of three names, two of which share a bucket.
FilledWithTwo == UNION {[1..n -> {1, 2, 3}] : n \in 0..2}

\* Patterns of up to five tokens: a separator, a digit of the user's, a percent
\* sign, a year, counters without and with a width.
Tokens == {Letter(-1), Letter(1), EscapedPercent, TimeDigits(2), CounterToken(0), CounterToken(2)}
ShortPatterns == UNION {[1..n -> Tokens] : n \in 1..5}

\* The directories that exist: none, or one of the two.
NoneOrOne == {{}, {"d"}}

\* Backends are told apart by nothing but their names.
BackendSymmetry == Permutations(Backends)

PartVars == <<setVars, viewVars, anVars, nsVars, filterVars, lgVars, oqVars, ffVars, lpVars,
              fpVars, rpVars, tfVars, crVars>>

Init ==
    /\ part \in Parts
    /\ SetInit
    /\ IF part = "values view" THEN ViewInit ELSE ViewOf([s \in Preference |-> <<>>])
    /\ ANInit
    /\ NSInit
    /\ FiltersInit
    /\ IF part = "loggers" THEN LGInit ELSE LGStart(FALSE)
    /\ IF part = "ordering queue" THEN OQInit ELSE OQStart(Unlimited)
    /\ IF part = "formatting frontend" THEN FFInit ELSE FFStart(CHOOSE s \in Settings : TRUE)
    /\ LPInit
    /\ IF part = "file name" THEN FPInit ELSE NameFrom(<<>>, 0, <<>>)
    /\ IF part = "rotation time" THEN RPInit ELSE RPStart(CHOOSE p \in EveryPoint : TRUE, 0)
    /\ IF part = "file backend" THEN TFInit ELSE TFStart(TRUE, CHOOSE s \in Starts(TRUE) : TRUE)
    /\ IF part = "collectors" THEN CRInit ELSE CRStart({})

Next ==
    /\ UNCHANGED part
    /\ IF part = "attribute set" THEN SetNext ELSE UNCHANGED setVars
    /\ IF part = "values view" THEN ViewNext ELSE UNCHANGED viewVars
    /\ IF part = "attribute names" THEN ANNext ELSE UNCHANGED anVars
    /\ IF part = "named scopes" THEN NSNext ELSE UNCHANGED nsVars
    /\ IF part = "filter parser" THEN FiltersNext ELSE UNCHANGED filterVars
    /\ IF part = "loggers" THEN LGNext ELSE UNCHANGED lgVars
    /\ IF part = "ordering queue" THEN OQNext ELSE UNCHANGED oqVars
    /\ IF part = "formatting frontend" THEN FFNext ELSE UNCHANGED ffVars
    /\ IF part = "locking pointer" THEN LPNext ELSE UNCHANGED lpVars
    /\ IF part = "file name" THEN FPNext ELSE UNCHANGED fpVars
    /\ IF part = "rotation time" THEN RPNext ELSE UNCHANGED rpVars
    /\ IF part = "file backend" THEN TFNext ELSE UNCHANGED tfVars
    /\ IF part = "collectors" THEN CRNext ELSE UNCHANGED crVars

Spec == Init /\ [][Next]_<<part, PartVars>>
===============================================================================
