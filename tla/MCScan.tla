------------------------------- MODULE MCScan -------------------------------
EXTENDS Scan

\* Everything the sensor sends; a finger alone.
AllNotices == Event \ {"deactivate"}

FingerNotices == {"down", "upDrift"}

=============================================================================
