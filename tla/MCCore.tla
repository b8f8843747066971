-------------------------------- MODULE MCCore --------------------------------
EXTENDS Core, TLC
CONSTANTS l1, l2, s1, s2
TwoLoggers == {l1, l2}
TwoSinks == {s1, s2}
OneOrBoth == {<<s1>>, <<s1, s2>>}
===============================================================================
