------------------------------- MODULE MCLoggers ------------------------------
EXTENDS Loggers

\* Two log statements of one source file.
TwoStatements == {[severity |-> 1, channel |-> "a"], [severity |-> 2, channel |-> "b"]}
===============================================================================
