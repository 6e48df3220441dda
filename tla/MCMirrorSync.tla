---------------------------- MODULE MCMirrorSync ----------------------------
(* Trees for TLC. *)
EXTENDS MirrorSync

Prog == <<"prog">>
Config == <<"prog", "config">>
Log == <<"log">>
Link == <<"prog", "link">>
Sys == <<"sys">>
Flash == <<"sys", "flash">>
Secret == <<"prog", "secret">>
Closed == <<"closed">>
Inner == <<"closed", "inner">>

\* A directory with a file, one that cannot be read and a link; a file beside it;
\* a directory that cannot be listed; /sys.
Tree == {Prog, Config, Log, Link, Sys, Flash, Secret, Closed, Inner}
Fixed == [p \in Tree |-> CASE p = Prog -> {"dir"}
                           [] p \in {Config, Log} -> {"file"}
                           [] OTHER -> {}]
AtFirst == [p \in Tree |-> IF p \in {Prog, Sys, Closed} THEN "dir"
                           ELSE IF p = Link THEN "other"
                           ELSE IF p = Log THEN "none" ELSE "file"]
SkipSys == {Sys}
DenyTwo == {Secret, Closed}

\* One name that may be a file, then a directory.
OneName == {Log}
FileOrDir == [p \in OneName |-> {"file", "dir"}]
FileAtFirst == [p \in OneName |-> "file"]
=============================================================================
