------------------------ MODULE MC_ControllerCommand ------------------------
EXTENDS ControllerCommand

\* Every command line: the flag checks are each explored, with and without
\* webhooks and the CA bundle update.
MCInputs == Flags
=============================================================================
