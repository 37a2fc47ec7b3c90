------------------------------- MODULE Logger -------------------------------
(***************************************************************************)
(* The log (logger.cc): which entries reach it and how much of them.  A    *)
(* line is put together in a buffer of fixed size: the time, the name of   *)
(* the level, the entry.  One that does not fit is cut and marked, and is  *)
(* written to stderr as well.  An entry is reduced to its length.          *)
(***************************************************************************)
EXTENDS Integers, Sequences, FiniteSets

CONSTANTS
    Size,      \* of the buffer, 4096
    Stamp,     \* characters of the time, 20
    Lengths,   \* that entries have
    Levels,    \* that are set
    MaxEntries

ASSUME LoggerAssumption ==
    /\ Stamp \in Nat /\ Lengths \subseteq Nat /\ Levels \subseteq 0..6 /\ MaxEntries \in Nat
    /\ Size \in Nat /\ Size >= Stamp + 13 \* the longest name, and the mark

VARIABLES
    fd_,
    level_,
    entries, \* what was logged, with what was set then
    log,     \* the lines written to each file
    stderr   \* the entries written there because they were cut

loggerVars == <<fd_, level_, entries, log, stderr>>

TRACE == 0
INFO == 2
FATAL == 5
CRITICAL == 6
Level == TRACE..CRITICAL
level_name_lengths == <<6, 6, 5, 5, 6, 6, 9>>

File == {"stdout", "stderr", "file"}

-----------------------------------------------------------------------------

\* open of no name, of a file, and of one that cannot be opened.
open_log ==
    /\ fd_' \in File
    /\ level_' \in Levels
    /\ UNCHANGED <<entries, log, stderr>>

\* trace, debug, info, warn and error ask for their own level; fatal asks
\* for none, and critical for TRACE.
IsLogged(level) ==
    CASE level = FATAL -> TRUE
      [] level = CRITICAL -> level_ <= TRACE
      [] OTHER -> level_ <= level

\* Variant: the place of the newline is not counted.
LineTight(level, len) ==
    LET offset == Stamp + level_name_lengths[level + 1]
    IN IF offset + len <= Size
       THEN [level |-> level, kept |-> len, cut |-> FALSE, bytes |-> offset + len + 1]
       ELSE [level |-> level, kept |-> Size - 4 - offset, cut |-> TRUE, bytes |-> Size]

\* What is written of an entry, "...\n" at the end of one that is cut.
Line(level, len) ==
    LET offset == Stamp + level_name_lengths[level + 1]
    IN IF offset + len < Size
       THEN [level |-> level, kept |-> len, cut |-> FALSE, bytes |-> offset + len + 1]
       ELSE [level |-> level, kept |-> Size - 4 - offset, cut |-> TRUE, bytes |-> Size]

\* A call for an entry; vprint writes nothing of an empty one.
vprint(level, len) ==
    /\ entries' = Append(entries, [level |-> level, len |-> len, set |-> level_, file |-> fd_])
    /\ IF IsLogged(level) /\ len > 0
       THEN LET line == Line(level, len)
            IN /\ log' = [log EXCEPT ![fd_] = Append(@, line)]
               /\ stderr' = IF line.cut THEN Append(stderr, len) ELSE stderr
       ELSE UNCHANGED <<log, stderr>>
    /\ UNCHANGED <<fd_, level_>>

-----------------------------------------------------------------------------

LoggerInit ==
    /\ fd_ = "stdout" /\ level_ = INFO
    /\ entries = <<>> /\ log = [f \in File |-> <<>>] /\ stderr = <<>>

LoggerNext ==
    /\ Len(entries) < MaxEntries
    /\ open_log \/ \E level \in Level, len \in Lengths : vprint(level, len)

LoggerSpec == LoggerInit /\ [][LoggerNext]_loggerVars

-----------------------------------------------------------------------------
(* Properties. *)

\* What has to be in the log; "critical" only where everything is.
IsDue(e) ==
    e.len > 0 /\ (e.level # FATAL => e.set <= e.level) /\ (e.level = CRITICAL => e.set = TRACE)

\* A line has 4095 characters at most (include/logger.h:14-16).
HasRoom(e) == Stamp + level_name_lengths[e.level + 1] + e.len <= Size - 1

\* The entries that are due in a file, those that do not fit, and the place of
\* an entry among some of them.
DueIn(f) == {i \in DOMAIN entries : IsDue(entries[i]) /\ entries[i].file = f}
Cut == {i \in DOMAIN entries : IsDue(entries[i]) /\ ~HasRoom(entries[i])}
Place(i, S) == Cardinality(S \cap 1..i)

\* Each entry of a level that is logged is one line of the file that was set,
\* in the order of the calls; what does not fit in a line is cut and marked,
\* and only that is whole on stderr (include/logger.h:14-16, logger.cc:97-130).
LogIsComplete ==
    /\ \A f \in File :
         /\ Len(log[f]) = Cardinality(DueIn(f))
         /\ \A i \in DueIn(f) :
              LET line == log[f][Place(i, DueIn(f))]
              IN /\ line.level = entries[i].level /\ line.bytes <= Size
                 /\ IF HasRoom(entries[i]) THEN line.kept = entries[i].len
                    ELSE line.cut /\ line.kept < entries[i].len
    /\ Len(stderr) = Cardinality(Cut)
    /\ \A i \in Cut : stderr[Place(i, Cut)] = entries[i].len
=============================================================================
