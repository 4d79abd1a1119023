---------------------------- MODULE MCPinPrompt -----------------------------
\* A prompt for a typed PIN and one on a protected path, with any dialog and with
\* the system prompter's.
EXTENDS SystemPin

CONSTANTS t1, h1
=============================================================================
