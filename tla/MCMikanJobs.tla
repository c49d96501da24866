---------------------------- MODULE MCMikanJobs ----------------------------
EXTENDS MikanJobs

CONSTANTS r1, r2
=============================================================================
