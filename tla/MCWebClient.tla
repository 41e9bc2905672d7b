---------------------------- MODULE MCWebClient ----------------------------
EXTENDS WebClient

CONSTANTS p1, p2

MCAlerts == 1..2
MCAnnounced == {1}
MCCritical == {1, 2}
MCPlace == [a \in MCAlerts |-> p1]

=============================================================================
