------------------------------ MODULE MCLeases ------------------------------
EXTENDS Leases

=============================================================================
