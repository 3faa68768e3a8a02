----------------------------- MODULE MCDashboard -----------------------------
EXTENDS Dashboard

CONSTANTS r1, r2
=============================================================================
