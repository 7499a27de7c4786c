------------------------------ MODULE MCPhone ------------------------------
EXTENDS PhoneProperties

CONSTANTS p1

MCCallers == Phones \X Flows
=============================================================================
