---------------------------- MODULE MCLoopEngine ----------------------------
(* Small instances of LoopEngine for TLC. *)
EXTENDS LoopEngine, TLC

CONSTANTS r1, r2, b1, b2

Files(main, sites, nginx) == [main |-> main, sites |-> sites, nginx |-> nginx]

\* A Caddyfile with a file beside it, and nginx.  An edit leads to the others:
\* the Caddyfile alone, and no proxy at all.
Hosts == {Files(<<b1>>, <<b2>>, <<>>), Files(<<>>, <<>>, <<b2>>)}

CaddyHosts == {Files(<<b1>>, <<b2>>, <<>>)}

\* A file is emptied or replaced.
Edits == {<<>>, <<b2>>}

\* Runs are interchangeable.
Interchangeable == Permutations(Run)
=============================================================================
