---------------------------- MODULE MCBackupRun ----------------------------
(* Values for BackupRun's constants.                                        *)
EXTENDS BackupRun

CONSTANTS daily, weekly,      \* schedule ids
          disk, nas, cloud    \* destination ids: local, FTP, WebDAV

KindOf == [d \in Dests |-> IF d = disk THEN "local" ELSE IF d = nas THEN "ftp" ELSE "webdav"]

To(d, k) == [dest |-> d, keep |-> k]

\* "d" and "w"; "d" and "d-l", whose archives a prune for "d" matches.
SeparateNames == [s \in Schedules |-> IF s = daily THEN <<100>> ELSE <<101>>]
NestedNames == [s \in Schedules |-> IF s = daily THEN <<100>> ELSE <<100, 0, 105>>]
\* Two names that sanitize alike: "d?" and "d-".
AlikeNames == [s \in Schedules |-> IF s = daily THEN <<100, -1>> ELSE <<100, 0>>]

NasKeep1 == [s \in Schedules |-> <<To(nas, 1)>>]
CloudKeep1 == [s \in Schedules |-> <<To(cloud, 1)>>]
EveryKind == [s \in Schedules |->
                  IF s = daily THEN <<To(nas, 2), To(cloud, 1)>> ELSE <<To(disk, 1)>>]

NoNames == {}
NoLinks == {}
OtherLinks == {<<>>, <<To(cloud, 1)>>}
Unlinked == {<<>>}
OtherNames == {<<103>>}
=============================================================================
