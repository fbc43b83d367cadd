---------------------------- MODULE MCChallengeDns ----------------------------
EXTENDS ChallengeDns
===============================================================================
