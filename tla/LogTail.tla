------------------------------- MODULE LogTail -------------------------------
\* The log check's reader (src/agent/internal/checks/logs.go): what was appended to a file
\* since the last run, while the program that writes it appends, rotates and tears lines.
\* A whole line is two bytes long, so that an offset can lie inside one.
EXTENDS Integers, Sequences, FiniteSets

CONSTANTS
  Paths,    \* the files
  MaxLines, \* bound on the lines written
  MaxRead   \* maxLogReadBytes

ASSUME TailAssumption == MaxLines \in Nat /\ MaxRead \in Nat

VARIABLES
  glob,     \* the check's path is a pattern that matches all the files
  watched,  \* the check's path, when it is none
  fromStart, \* the check's setting: the first run reads what is there
  file,     \* the lines of each file
  torn,     \* files that end in a line without its newline
  newest,   \* the file that was written last
  written,  \* how many lines have been written
  st,       \* the check's memory: path and offset, or nothing
  times,    \* history: how often each line has been returned
  fresh,    \* history: whole lines in the files that no reading could return yet
  regrown   \* history: files rotated since they were last read
tvars == <<glob, watched, fromStart, file, torn, newest, written, st, times, fresh, regrown>>

Lines == 1..MaxLines
Size(p) == 2 * Len(file[p]) + (IF p \in torn THEN 1 ELSE 0)
LinesOf(p) == {file[p][i] : i \in 1..Len(file[p])}

\* resolveLogPath: the newest match, for date-stamped names.
ResolveLogPath == IF glob THEN newest ELSE watched

NoMemory == [path |-> "none", offset |-> 0]

\* Where TailNew begins to read: again from the start when the path is another one or the
\* file has shrunk, and never more than maxLogReadBytes.
LargerOf(a, b) == IF a >= b THEN a ELSE b

\* Mutated form of StartAt: a file that has shrunk is not noticed.
StartAtOffset(p) == IF st.path # p THEN 0 ELSE st.offset

StartAt(p) ==
  LargerOf(IF st.path # p \/ Size(p) < st.offset THEN 0 ELSE st.offset, Size(p) - MaxRead)

\* The whole lines from there on, and the one whose end is read.
LinesFrom(p, offset) == {file[p][i] : i \in {i \in 1..Len(file[p]) : 2 * i > offset}}

TailNew(p) ==
  /\ IF st = NoMemory /\ ~fromStart
       THEN /\ st' = [path |-> p, offset |-> Size(p)]
            /\ UNCHANGED times
            /\ fresh' = fresh \ LinesOf(p)
       ELSE LET read == LinesFrom(p, StartAt(p))
            IN /\ st' = [path |-> p, offset |-> LargerOf(2 * Len(file[p]), StartAt(p))]
               /\ times' = [l \in Lines |-> IF l \in read THEN (IF times[l] < 2 THEN times[l] + 1 ELSE 2) ELSE times[l]]
               /\ fresh' = fresh \ LinesOf(p)
  /\ regrown' = regrown \ {p}
  /\ UNCHANGED <<glob, watched, fromStart, file, torn, newest, written>>

RunLog == TailNew(ResolveLogPath)

\* The agent restarts: the memory is gone, and the next run is a first one.
AgentRestarts == st # NoMemory /\ st' = NoMemory /\ UNCHANGED <<glob, watched, fromStart, file, torn, newest, written, times, fresh, regrown>>

-----------------------------------------------------------------------------
\* The program that writes the log.
WriteLine(p) ==
  /\ written < MaxLines /\ p \notin torn
  /\ written' = written + 1 /\ newest' = p
  /\ file' = [file EXCEPT ![p] = Append(@, written + 1)]
  /\ fresh' = fresh \union {written + 1}
  /\ UNCHANGED <<glob, watched, fromStart, torn, st, times, regrown>>

BeginLine(p) ==
  /\ written < MaxLines /\ p \notin torn
  /\ torn' = torn \union {p} /\ newest' = p
  /\ UNCHANGED <<glob, watched, fromStart, file, written, st, times, fresh, regrown>>

EndLine(p) ==
  /\ written < MaxLines /\ p \in torn
  /\ torn' = torn \ {p} /\ written' = written + 1 /\ newest' = p
  /\ file' = [file EXCEPT ![p] = Append(@, written + 1)]
  /\ fresh' = fresh \union {written + 1}
  /\ UNCHANGED <<glob, watched, fromStart, st, times, regrown>>

\* Truncated, or renamed and created again.
Rotate(p) ==
  /\ file[p] # <<>> /\ file' = [file EXCEPT ![p] = <<>>] /\ torn' = torn \ {p}
  /\ newest' = p /\ fresh' = fresh \ LinesOf(p) /\ regrown' = regrown \union {p}
  /\ UNCHANGED <<glob, watched, fromStart, written, st, times>>

TailInit ==
  /\ glob \in BOOLEAN /\ fromStart \in BOOLEAN /\ watched \in Paths /\ newest \in Paths
  /\ file = [p \in Paths |-> <<>>] /\ torn = {} /\ written = 0 /\ st = NoMemory
  /\ times = [l \in Lines |-> 0] /\ fresh = {} /\ regrown = {}

TailNext ==
  \/ RunLog \/ AgentRestarts
  \/ \E p \in Paths : WriteLine(p) \/ BeginLine(p) \/ EndLine(p) \/ Rotate(p)

-----------------------------------------------------------------------------
\* A run returns every whole line that has come since the last one, also of a file that was
\* rotated meanwhile, and none that was returned before: unless more has come than it reads
\* at once, or the file was rotated and has grown past the offset since.  (fromStart reads
\* everything again after a restart of the agent.)
LinesReadOnce ==
  [][LET p == ResolveLogPath IN
       RunLog /\ st # NoMemory /\ ~glob =>
         /\ Size(p) - st.offset <= MaxRead /\ Size(p) <= MaxRead /\ (p \in regrown => Size(p) < st.offset)
              => \A l \in fresh \intersect LinesOf(p) : times'[l] = 1
         /\ ~fromStart => \A l \in Lines : times'[l] <= 1]_tvars

\* "new lines in a log file (follows rotation)": of a pattern's files as well.
OnlyNewLines == ~fromStart => \A l \in Lines : times[l] <= 1
=============================================================================
