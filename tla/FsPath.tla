------------------------------- MODULE FsPath -------------------------------
(***************************************************************************)
(* The path operations of vl_filesys.c.  A path string is a sequence of    *)
(* tokens: separators, and names that are never next to each other.  The   *)
(* native separator is "/" on POSIX and "\" on win32; the other one is the *)
(* exotic separator.                                                       *)
(***************************************************************************)
EXTENDS Integers, Sequences, SequencesExt

CONSTANTS
    PathPlatforms,  \* subset of {"posix", "win32"}
    MaxTokens,      \* bound of the model on path strings
    Cwd             \* names of the current directory

VARIABLE given      \* a platform and the string an operation works on

Seps == {"/", "\\"}
Plain == {"a", "b"}
Drive == "C:"
Names == Plain \cup {".", "..", Drive}
IsString(s) == \A i \in 1..(Len(s) - 1) : s[i] \in Seps \/ s[i + 1] \in Seps
Strings == {s \in BoundedSeq(Seps \cup Names, MaxTokens) :
              IsString(s) /\ \A i \in 2..Len(s) : s[i] # Drive}

PathInit == given \in [os : PathPlatforms, s : Strings]
PathNext == UNCHANGED given

Native(os) == IF os = "posix" THEN "/" ELSE "\\"

\* The components of a string, as strtok finds them.
Parts(s) == SelectSeq(s, LAMBDA t : t \notin Seps)
Joined(parts, sep) == IF parts = << >> THEN << >>
                      ELSE FoldLeft(LAMBDA s, t : s \o <<sep, t>>, <<Head(parts)>>, Tail(parts))

\* Faulty variant: ".." is kept as if it were a name.
ResolvedDots(parts) ==
    FoldLeft(LAMBDA done, t : IF t = "." THEN done ELSE Append(done, t), << >>, parts)

\* "." is skipped, ".." takes back the component before it, if there is one.
Resolved(parts) ==
    FoldLeft(LAMBDA done, t :
               CASE t = "." -> done
                 [] t = ".." -> IF done = << >> THEN done ELSE Front(done)
                 [] OTHER -> Append(done, t),
             << >>, parts)

\* vlFSPathNormalize: absolute if the original begins with the native separator
Normalized(os, s) ==
    LET lead == IF s # << >> /\ Head(s) = Native(os) THEN <<Native(os)>> ELSE << >>
        body == Joined(Resolved(Parts(s)), Native(os))
    IN  IF lead \o body = << >> THEN <<".">> ELSE lead \o body

\* vlFSPathJoin: one separator between base and component
Join(os, base, component) ==
    LET ends == base # << >> /\ Last(base) = Native(os)
        starts == component # << >> /\ Head(component) = Native(os)
    IN  CASE base = << >> -> Normalized(os, component)
          [] ends /\ starts -> base \o Tail(component)
          [] ends # starts -> base \o component
          [] OTHER -> base \o <<Native(os)>> \o component

\* vlFSPathParent: trailing separators are passed over, then the last name.
Trimmed(os, s) == LET keep == {i \in 1..Len(s) : s[i] # Native(os)}
                  IN  IF keep = {} THEN SubSeq(s, 1, 1)
                      ELSE SubSeq(s, 1, CHOOSE i \in keep : \A j \in keep : j <= i)
ParentPath(os, s) ==
    LET t == Trimmed(os, s)
        seps == {i \in 1..Len(t) : t[i] = Native(os)}
        last == CHOOSE i \in seps : \A j \in seps : j <= i
    IN  IF s = <<Native(os)>> THEN s
        ELSE IF seps = {} THEN <<".">>
        ELSE IF last = 1 THEN <<Native(os)>>
        ELSE SubSeq(t, 1, last - 1)

\* vlFSPathIsAbsolute: on win32 a drive and a separator, or two separators
PosixIsAbsolute(s) == s # << >> /\ Head(s) = "/"
WinIsAbsolute(s) ==
    \/ Len(s) > 1 /\ s[1] = Drive /\ s[2] \in Seps
    \/ Len(s) > 1 /\ s[1] \in Seps /\ s[2] \in Seps
IsAbsolute(os, s) == IF os = "posix" THEN PosixIsAbsolute(s) ELSE WinIsAbsolute(s)

\* vlFSPathAbsolute: POSIX puts the current directory in front; on win32 the
\* system names the full path, which is then set, and so normalized.
PosixAbsolute(s) ==
    IF PosixIsAbsolute(s) THEN s
    ELSE Normalized("posix", Join("posix", <<"/">> \o Joined(Cwd, "/"), s))
WinAbsolute(s) ==
    IF WinIsAbsolute(s) THEN s
    ELSE LET names == IF s # << >> /\ Head(s) \in Seps THEN Parts(s) ELSE Cwd \o Parts(s)
         IN  Normalized("win32", Joined(<<Drive>> \o Resolved(names), "\\"))
Absolute(os, s) == IF os = "posix" THEN PosixAbsolute(s) ELSE WinAbsolute(s)

\* vl_FSParsePathComponents: a file name is a number of leading dots and the
\* stems between its other dots; the last one, if not the first, is the extension.
Components(name) ==
    LET last == Len(name.stems)
    IN  IF last > 1
        THEN [base |-> [name EXCEPT !.stems = Front(@)], extension |-> <<name.stems[last]>>]
        ELSE [base |-> name, extension |-> << >>]
FileNames == {n \in [dots : 0..2, stems : BoundedSeq({"x", ""}, 3)] : n.stems # << >> => Head(n.stems) = "x"}

----------------------------------------------------------------------------

\* What a string means: where a walk along it ends, names below the start.  A
\* relative one that climbs above its start is not among them: the code drops
\* the ".." that leads there.
Climbs(s) == \E i \in 1..Len(Parts(s)) :
    LET head == SubSeq(Parts(s), 1, i)
    IN  2 * Len(SelectSeq(head, LAMBDA t : t = ".."))
          + Len(SelectSeq(head, LAMBDA t : t = ".")) > i

\* Normalizing twice is normalizing once, and leaves no dot component, no exotic
\* and no double separator; the parent of a path joined with a name is that
\* path; making a path absolute makes it absolute (on win32 the root of a drive is
\* not, having lost its separator) and keeps what it means; an extension and
\* its base name are the name again, and hidden files have none.
PathSound ==
    LET os == given.os
        s == given.s
        n == Normalized(os, s)
    IN  /\ Normalized(os, n) = n
        /\ \A i \in 1..Len(n) :
             /\ n[i] \in Seps => n[i] = Native(os)
             /\ n[i] \in {".", ".."} => n = <<".">>
             /\ i > 1 /\ n[i] \in Seps => n[i - 1] \notin Seps
        /\ \A name \in Plain : ParentPath(os, Join(os, n, <<name>>)) = n
        /\ \A name \in Plain : Normalized(os, Join(os, n, <<name>>)) = Join(os, n, <<name>>) \/ n = <<".">>
        /\ s # << >> /\ Drive \notin Range(s) /\ Absolute(os, s) # <<Drive>> =>
             IsAbsolute(os, Absolute(os, s))
        /\ ~IsAbsolute("posix", s) /\ os = "posix" /\ ~Climbs(s) =>
             Parts(Absolute(os, s)) = Cwd \o Parts(n) \/ n = <<".">>
        /\ \A name \in FileNames :
             LET c == Components(name)
             IN  /\ c.base.stems \o c.extension = name.stems
                 /\ Len(name.stems) <= 1 => c.extension = << >>

============================================================================
