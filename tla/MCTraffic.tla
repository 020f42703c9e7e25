------------------------------ MODULE MCTraffic ------------------------------
\* The instance of Traffic that traffic.cfg checks: an hour of two minutes, a
\* day of one hour, lines of both formats.
EXTENDS Traffic

SomeFormats == {[dated |-> TRUE, cut |-> "early"], [dated |-> TRUE, cut |-> "late"],
                [dated |-> FALSE, cut |-> "middle"]}
=============================================================================
