------------------------------ MODULE FilterParser ------------------------------
(***************************************************************************)
(* parse_filter builds a filter from its text by the semantic actions of   *)
(* the grammar: they keep the last attribute name, the last operand, and a *)
(* stack of the filters of the subexpressions.  A name that no relation    *)
(* follows becomes an existence test only when a later action needs it.    *)
(* The text is chosen as it is parsed: `expects' is the place in the       *)
(* grammar, `constructs' the expressions and negations that are open there *)
(* and `meaning' what the last complete part of the text means.  Of a      *)
(* relation only its name and its kind count.  A word behind a bare name   *)
(* is tried as a relation first, also the word of an operation; only if no *)
(* operand follows, that is in front of a parenthesis, is it the operation.*)
(***************************************************************************)
EXTENDS Integers, Sequences

CONSTANTS
    FilterNames,
    MaxRelations,    \* bound: relations in the text
    MaxDepth         \* bound: expressions and negations inside one another

NoText == ""
NoFilter == <<>>

\* NoText stands for the empty optional and is no name.
ASSUME FilterNamesAssumption == NoText \notin FilterNames

VARIABLES
    expects,         \* what the grammar is about to match
    constructs,      \* the expressions and negations it is in, the innermost last
    relations,       \* how many relations it has begun
    meaning,
    unambiguous,     \* every operand followed a name, no bare name an operation,
                     \* and the word of no operation was taken for a relation
    m_AttributeName, m_Operand, m_CustomRelation,
    m_Subexpressions,
    m_Filter,
    thrown           \* the action that threw parse_error, or "nothing"

grammarVars == <<constructs, relations, unambiguous>>
filterVars == <<expects, grammarVars, meaning, m_AttributeName, m_Operand, m_CustomRelation,
                m_Subexpressions, m_Filter, thrown>>

\* An open construct: a negation, an expression whose first term is not complete
\* or whose terms so far are, or one with an operation and what is to its left.
Construct(op, left) == [op |-> op, left |-> left]
Operations == {"and", "or"}

FiltersInit ==
    /\ expects = "term"
    /\ constructs = <<Construct("expression", NoFilter)>>
    /\ relations = 0
    /\ meaning = NoFilter
    /\ unambiguous = TRUE
    /\ m_AttributeName = NoText /\ m_Operand = NoText /\ m_CustomRelation = NoText
    /\ m_Subexpressions = <<>>
    /\ m_Filter = NoFilter
    /\ thrown = "nothing"

PushedOn(stack, filter) == Append(stack, filter)
PoppedOne(stack) == SubSeq(stack, 1, Len(stack) - 1)
TopOf(stack) == stack[Len(stack)]
Innermost == constructs[Len(constructs)]

\* Mutant: the pending name is forgotten.
NameForgotten == m_Subexpressions

\* make_has_attr: a pending name becomes an existence test.
WithHasAttr == IF m_AttributeName = NoText THEN m_Subexpressions
               ELSE PushedOn(m_Subexpressions, <<"exists", m_AttributeName>>)

\* The grammar calls an action at `place' and goes on to `next'.
Called(place, next) ==
    /\ thrown = "nothing" /\ expects = place
    /\ expects' = next
    /\ UNCHANGED m_Filter
Fails(what) == thrown' = what /\ UNCHANGED <<meaning, m_AttributeName, m_Operand, m_CustomRelation, m_Subexpressions>>

\* A parenthesis or a negation.
enter(op) ==
    /\ Called("term", "term") \/ (op = "expression" /\ Called("parenthesis", "term"))
    /\ Len(constructs) < MaxDepth
    /\ constructs' = Append(constructs, Construct(op, NoFilter))
    /\ UNCHANGED <<relations, unambiguous, meaning, m_AttributeName, m_Operand, m_CustomRelation,
                   m_Subexpressions, thrown>>

\* The sign or the word of an operation.  Right behind a bare name it is a sign,
\* since a word is read as a relation there, or the word of which that failed.
operation_sign(op) ==
    /\ \/ Called("rest", "term")
       \/ op = m_CustomRelation /\ Called("word", "parenthesis")
    /\ Innermost.op = "expression" /\ relations < MaxRelations
    /\ constructs' = [constructs EXCEPT ![Len(constructs)] = Construct(op, meaning)]
    /\ UNCHANGED <<relations, unambiguous, meaning, m_AttributeName, m_Operand, m_CustomRelation,
                   m_Subexpressions, thrown>>

\* A name, alone or in front of a relation or a word.
on_attribute(name, next) ==
    /\ Called("term", next)
    /\ relations' = relations + 1
    /\ meaning' = <<"exists", name>>
    /\ unambiguous' = (unambiguous /\ ~(next = "rest" /\ Innermost.op \in Operations))
    /\ m_Subexpressions' = WithHasAttr
    /\ m_AttributeName' = name
    /\ UNCHANGED <<constructs, m_Operand, m_CustomRelation, thrown>>

\* A relation need not begin with a name (attr_name || ...).
NoNameWritten == unambiguous' = FALSE /\ relations' = relations + 1 /\ UNCHANGED constructs

\* An operand swallows the name behind the word of an operation.
OperationSwallowed == /\ unambiguous' = (unambiguous /\ m_CustomRelation \notin Operations)
                      /\ UNCHANGED <<constructs, relations>>

on_operand(place, next) ==
    /\ Called(place, next)
    /\ CASE place = "term" -> NoNameWritten
         [] place = "relation" -> UNCHANGED grammarVars
         [] place \in {"custom operand", "lone operand"} -> OperationSwallowed
    /\ IF m_AttributeName = NoText THEN Fails("operand")
       ELSE /\ m_Operand' = "1"
            /\ UNCHANGED <<meaning, m_AttributeName, m_CustomRelation, m_Subexpressions, thrown>>

set_custom_relation(place, word) ==
    /\ Called(place, IF place = "term" THEN "lone operand" ELSE "custom operand")
    /\ IF place = "term" THEN NoNameWritten ELSE UNCHANGED grammarVars
    /\ m_CustomRelation' = word
    /\ UNCHANGED <<meaning, m_AttributeName, m_Operand, m_Subexpressions, thrown>>

\* A parenthesis is no operand: the name stands alone, and the word, which
\* m_CustomRelation keeps, is left to the operation.
no_operand ==
    /\ Called("custom operand", "word")
    /\ m_CustomRelation \in Operations
    /\ unambiguous' = (unambiguous /\ Innermost.op \notin Operations)
    /\ UNCHANGED <<constructs, relations, meaning, m_AttributeName, m_Operand, m_CustomRelation,
                   m_Subexpressions, thrown>>

on_comparison_relation ==
    /\ Called("compare", "rest")
    /\ UNCHANGED grammarVars
    /\ IF m_AttributeName = NoText \/ m_Operand = NoText THEN Fails("compare")
       ELSE /\ m_Subexpressions' = PushedOn(m_Subexpressions, <<"compare", m_AttributeName>>)
            /\ m_AttributeName' = NoText /\ m_Operand' = NoText
            /\ meaning' = <<"compare", meaning[2]>>
            /\ UNCHANGED <<m_CustomRelation, thrown>>

\* The factory of the attribute knows no relation by the word of an operation.
on_custom_relation ==
    /\ Called("custom", "rest")
    /\ UNCHANGED grammarVars
    /\ IF \/ m_AttributeName = NoText \/ m_Operand = NoText
          \/ m_CustomRelation \in Operations \cup {NoText}
       THEN Fails("custom")
       ELSE /\ m_Subexpressions' = PushedOn(m_Subexpressions, <<"custom", m_AttributeName>>)
            /\ m_AttributeName' = NoText /\ m_Operand' = NoText /\ m_CustomRelation' = NoText
            /\ meaning' = <<"custom", meaning[2]>>
            /\ UNCHANGED thrown

on_negation(place) ==
    /\ Called(place, place) /\ Innermost.op = "not"
    /\ constructs' = PoppedOne(constructs)
    /\ UNCHANGED <<relations, unambiguous>>
    /\ IF WithHasAttr = <<>> THEN Fails("not")
       ELSE /\ m_Subexpressions' = PushedOn(PoppedOne(WithHasAttr), <<"not", TopOf(WithHasAttr)>>)
            /\ m_AttributeName' = NoText
            /\ meaning' = <<"not", meaning>>
            /\ UNCHANGED <<m_Operand, m_CustomRelation, thrown>>

\* A pending name is not looked at here.
on_operation(place, op) ==
    /\ Called(place, place) /\ Innermost.op = op
    /\ constructs' = [constructs EXCEPT ![Len(constructs)] = Construct("expression", NoFilter)]
    /\ UNCHANGED <<relations, unambiguous>>
    /\ IF Len(m_Subexpressions) < 2 THEN Fails(op)
       ELSE LET left == TopOf(PoppedOne(m_Subexpressions))  right == TopOf(m_Subexpressions) IN
            /\ m_Subexpressions' = PushedOn(PoppedOne(PoppedOne(m_Subexpressions)), <<op, left, right>>)
            /\ meaning' = <<op, Innermost.left, meaning>>
            /\ UNCHANGED <<m_AttributeName, m_Operand, m_CustomRelation, thrown>>

on_expression_finished ==
    /\ Called("rest", IF Len(constructs) = 1 THEN "nothing" ELSE "rest") /\ Innermost.op = "expression"
    /\ constructs' = PoppedOne(constructs)
    /\ m_Subexpressions' = WithHasAttr
    /\ m_AttributeName' = NoText
    /\ UNCHANGED <<relations, unambiguous, meaning, m_Operand, m_CustomRelation, thrown>>

\* parse_filter flushes the grammar when all of the text was parsed.
flush ==
    /\ thrown = "nothing" /\ expects = "nothing" /\ m_Subexpressions # <<>> /\ m_Filter = NoFilter
    /\ m_Filter' = TopOf(m_Subexpressions)
    /\ m_Subexpressions' = PushedOn(PoppedOne(m_Subexpressions), NoFilter)
    /\ UNCHANGED <<expects, grammarVars, meaning, m_AttributeName, m_Operand, m_CustomRelation, thrown>>

FiltersNext ==
    \/ \E op \in {"expression", "not"} : enter(op)
    \/ \E op \in Operations : operation_sign(op)
    \/ \E place \in {"rest", "word"} : on_negation(place) \/ \E op \in Operations : on_operation(place, op)
    \/ \E name \in FilterNames, next \in {"relation", "rest"} : on_attribute(name, next)
    \/ \E place \in {"term", "relation"} :
          on_operand(place, "compare") \/ \E word \in Operations \cup {"relation"} : set_custom_relation(place, word)
    \/ on_operand("custom operand", "custom") \/ on_operand("lone operand", "custom") \/ no_operand
    \/ on_comparison_relation \/ on_custom_relation
    \/ on_expression_finished \/ flush

FiltersSpec == FiltersInit /\ [][FiltersNext]_filterVars

-------------------------------------------------------------------------------
\* The filter of a text is the one it means, operations applied from left to
\* right; the stack never runs out, and it holds nothing else in the end.  Three
\* kinds of texts are left out, which the grammar takes but misreads: an operand
\* without a name; a bare name to the right of an operation, whose existence
\* test on_operation does not see yet ("%A% > 1 & %B%"); and the word of an
\* operation behind a bare name, which is read as a relation and refused by the
\* factory ("%A% and %B% > 1"), unless a parenthesis follows.
FilterIsWhatWasWritten ==
    unambiguous =>
        /\ thrown = "nothing"
        /\ m_Filter # NoFilter => m_Filter = meaning /\ Len(m_Subexpressions) = 1

\* "This should never happen" (filter_parser.cpp:252): an operation always finds
\* its operands, as on_attribute says of "%Attribute1% & %Attribute2% > 1".
OperationsFindTheirOperands == thrown \notin Operations

================================================================================
