--------------------------- MODULE MCInteractive ---------------------------
\* Two inputs (prompts, shell commands, a prompt command, /compact or /new), three keys
\* or dialog steps, and one question or permission request per run.
EXTENDS Interactive
=============================================================================
