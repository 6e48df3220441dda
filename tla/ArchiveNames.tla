---------------------------- MODULE ArchiveNames ----------------------------
(***************************************************************************)
(* The names loxbak gives its archives and the order retention reads into *)
(* them (internal/scheduler/job.go, internal/destinations/destination.go). *)
(*                                                                         *)
(* A name is a sequence of symbols.  A symbol is an integer that stands for *)
(* a character and keeps what the code tells apart: whether a character is *)
(* safe, and how two safe characters compare in Go's string order.         *)
(*     negative   a character SanitizeName replaces                        *)
(*     0          '-', the lowest of the safe characters                   *)
(*     1..99      a whole timestamp (20060102T150405Z), later is larger    *)
(*     100..      letters and '_', all above the digits of a timestamp     *)
(* The suffix ".zip" is common to every archive and is left out.           *)
(***************************************************************************)
EXTENDS Integers, Sequences, FiniteSets

Dash == 0
Backup == <<102>>

\* One character of SanitizeName's loop: the safe ones pass, '-' replaces the rest.
SafeSymbol(c) == IF c < 0 THEN Dash ELSE c

\* A schedule's name reduced to what may appear in a file name.
SanitizeName(name) ==
    IF name = <<>> THEN Backup ELSE [i \in DOMAIN name |-> SafeSymbol(name[i])]

\* An archive's file name: two schedules whose names sanitize alike, archived
\* in the same second, have the same file name.
Files == [prefix : Seq(Int), stamp : Nat]
ArchiveFile_NoTime(name, t) == [prefix |-> SanitizeName(name), stamp |-> 1]
ArchiveFile(name, t) == [prefix |-> SanitizeName(name), stamp |-> t]

\* The characters of that file name.
Text(f) == f.prefix \o <<Dash, f.stamp>>

\* The prefix retention matches the archives of a schedule by, and the match.
FilenamePrefix(name) == SanitizeName(name) \o <<Dash>>
HasPrefix(s, pre) == /\ Len(pre) <= Len(s)
                     /\ \A i \in 1..Len(pre) : s[i] = pre[i]
Matches(f, name) == HasPrefix(Text(f), FilenamePrefix(name))

\* Go's order of strings: the first place where they differ decides, and a
\* proper prefix comes first.
LexLess(a, b) ==
    \E i \in 1..Len(b) : /\ i <= Len(a) + 1
                         /\ \A j \in 1..(i - 1) : a[j] = b[j]
                         /\ i <= Len(a) => a[i] < b[i]

\* Retention takes the file name's order for the order of time.
Newer(f, g) == LexLess(Text(g), Text(f))
IsNewest(f, L) == f \in L /\ \A g \in L \ {f} : Newer(f, g)

\* matched[keep:] of the newest-first list: the files with at least keep newer
\* ones.  (Operators named X_Y are faulty variants of X.)
Beyond_OldestFirst(L, keep) == {f \in L : Cardinality({g \in L : Newer(f, g)}) >= keep}
Beyond_OneMore(L, keep) == {f \in L : Cardinality({g \in L : Newer(g, f)}) > keep}
Beyond(L, keep) == {f \in L : Cardinality({g \in L : Newer(g, f)}) >= keep}

\* Names whose archives retention can tell apart: only the archives of a name
\* that sanitizes alike match its prefix.
Separate(names) ==
    \A n, m \in names : HasPrefix(FilenamePrefix(m), FilenamePrefix(n))
                            => SanitizeName(m) = SanitizeName(n)
=============================================================================
