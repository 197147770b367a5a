------------------------------- MODULE MCOpen -------------------------------
EXTENDS Open
=============================================================================
