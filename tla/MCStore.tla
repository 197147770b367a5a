------------------------------- MODULE MCStore -------------------------------
EXTENDS Store

MCRecord == LearningRecord
=============================================================================
