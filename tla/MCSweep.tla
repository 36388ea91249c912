------------------------------ MODULE MCSweep ------------------------------
EXTENDS Sweep

Outcome(errors, callsOk, count) == [errors |-> errors, callsOk |-> callsOk, count |-> count]

MCOutcomes ==
    {Outcome(FALSE, TRUE, 2), Outcome(FALSE, TRUE, 0), Outcome(TRUE, TRUE, 1),
     Outcome(TRUE, TRUE, 0), Outcome(TRUE, FALSE, 0)}
============================================================================
