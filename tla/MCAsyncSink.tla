----------------------------- MODULE MCAsyncSink ------------------------------
EXTENDS AsyncSink, TLC
CONSTANTS d, p, c1, c2, Roles
FourThreads == {d, p, c1, c2}
StartOrNot == {d, NoThread}
StartIt == {d}
NoStart == {NoThread}

\* Which member functions each thread calls, one scenario per run.  d is the
\* dedicated thread, or a user's feeding thread when the sink has none.
ScenarioCalls(t, started) ==
    CASE t = p -> {"consume"}
      [] Roles = "anything" ->
            IF t = d THEN {"run", "feed_records"} ELSE {"flush", "stop"}
      [] Roles = "in turn" /\ started = d ->
            IF t = c1 THEN {"stop"} ELSE {"consume"}
      [] Roles = "in turn" /\ started # d ->
            IF t = d THEN {"run"} ELSE IF t = c1 THEN {"flush"} ELSE {}
      [] Roles = "stop twice" -> {"stop"}
      [] Roles = "run and flush" -> IF t = d THEN {"run"} ELSE {"flush"}
      [] Roles = "feed and flush" -> IF t = d THEN {"feed_records"} ELSE {"flush"}
===============================================================================
