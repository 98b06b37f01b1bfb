-------------------------- MODULE MCModelInstall --------------------------
EXTENDS ModelInstall

\* Two revisions of one repository: r1 has a file that r2 dropped.
MCFilesOf == [r1 |-> {"config", "weights"}, r2 |-> {"weights"}]
MCChunks == [config |-> 1, weights |-> 2]
=============================================================================
