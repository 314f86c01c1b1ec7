----------------------------- MODULE MCExportJob -----------------------------
\* ExportJob with two jobs at one path and two cancels.
EXTENDS ExportJob, TLC

CONSTANTS j1, j2, k1, k2

=============================================================================
