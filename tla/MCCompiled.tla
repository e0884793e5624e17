----------------------------- MODULE MCCompiled -----------------------------
\* The programs of MCExecutor, and that all of them are compiled programs.
EXTENDS MCExecutor, CompiledPrograms
=============================================================================
