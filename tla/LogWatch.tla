------------------------------ MODULE LogWatch ------------------------------
(***************************************************************************)
(* `pluginctl logs-watch': watchLogs in build/pluginctl/logs.go.  Once a   *)
(* second it fetches the newest page of the server's log and prints what   *)
(* the plugin wrote, and fetches further pages as long as all of a page is *)
(* new to it.  The log grows meanwhile, and pages count from its end.      *)
(*                                                                         *)
(* An entry is its position in the log: no two have the same text, and     *)
(* their timestamps do not go back.                                        *)
(***************************************************************************)
EXTENDS Naturals, Sequences, SequencesExt, FiniteSets

CONSTANTS
    LogsPerPage,    \* logsPerPage
    MaxLog,         \* the log grows no longer
    MaxPrinted      \* nor what is printed

ASSUME LogAssumption == LogsPerPage \in Nat \ {0} /\ MaxLog \in Nat /\ MaxPrinted \in Nat

VARIABLES
    log,            \* who wrote each entry, "plugin" or "other"
    since,          \* how many entries the filter takes for older than the watch
    page,           \* the page to fetch next, 0 for a new tick
    oldestEntry,    \* as in the code, 0 for none
    printed,        \* what was printed, in order
    watching        \* the command has not ended

logVars == <<log, since, page, oldestEntry, printed, watching>>

\* The elements of S, the smallest first.
InOrder(S) ==
    CHOOSE s \in [1..Cardinality(S) -> S] :
        \A j, k \in 1..Cardinality(S) : j < k => s[j] < s[k]

\* What filterLogEntries lets through.  The timestamps are the server's, and cut
\* to the millisecond: entries from before the watch began may count as newer,
\* and the first ones after it as older.
Wanted == { i \in DOMAIN log : log[i] = "plugin" /\ i > since }

\* Mutant: entries from before the watch are not filtered out.
fetchLogsUnfiltered(n) ==
    InOrder({ i \in DOMAIN log : /\ log[i] = "plugin"
                                 /\ i + n * LogsPerPage <= Len(log)
                                 /\ i + (n + 1) * LogsPerPage > Len(log) })

\* A page of the log, the newest being page 0, with the oldest entry first.
fetchLogs(n) ==
    InOrder({ i \in Wanted : /\ i + n * LogsPerPage <= Len(log)
                             /\ i + (n + 1) * LogsPerPage > Len(log) })

\* slices.Index, where the entry is one of the page's.
Index(logs, entry) == CHOOSE j \in 1..Len(logs) : logs[j] = entry

\* Mutant: the entry found is taken for a new one.
checkOldestEntryInclusive(logs, oldest) ==
    IF logs = <<>> THEN [logs |-> <<>>, oldest |-> oldest, allNew |-> FALSE]
    ELSE IF ~ Contains(logs, oldest)
         THEN [logs |-> logs, oldest |-> Last(logs), allNew |-> TRUE]
         ELSE [logs |-> SubSeq(logs, Index(logs, oldest), Len(logs)),
               oldest |-> Last(logs), allNew |-> FALSE]

\* Mutant: a page with an entry seen before has nothing new.
checkOldestEntryKnown(logs, oldest) ==
    IF logs = <<>> \/ Contains(logs, oldest)
    THEN [logs |-> <<>>, oldest |-> oldest, allNew |-> FALSE]
    ELSE [logs |-> logs, oldest |-> Last(logs), allNew |-> TRUE]

\* Mutant: the entry to look for stays when it is found.
checkOldestEntryStays(logs, oldest) ==
    IF logs = <<>> THEN [logs |-> <<>>, oldest |-> oldest, allNew |-> FALSE]
    ELSE IF ~ Contains(logs, oldest)
         THEN [logs |-> logs, oldest |-> Last(logs), allNew |-> TRUE]
         ELSE [logs |-> SubSeq(logs, Index(logs, oldest) + 1, Len(logs)),
               oldest |-> oldest, allNew |-> FALSE]

checkOldestEntry(logs, oldest) ==
    IF logs = <<>> THEN [logs |-> <<>>, oldest |-> oldest, allNew |-> FALSE]
    ELSE IF ~ Contains(logs, oldest)
         THEN [logs |-> logs, oldest |-> Last(logs), allNew |-> TRUE]
         ELSE [logs |-> SubSeq(logs, Index(logs, oldest) + 1, Len(logs)),
               oldest |-> Last(logs), allNew |-> FALSE]

-----------------------------------------------------------------------------
LogInit ==
    /\ log \in UNION { [1..n -> {"plugin", "other"}] : n \in 0..LogsPerPage }
    /\ since \in 0..LogsPerPage
    /\ page = 0 /\ oldestEntry = 0 /\ printed = <<>>
    /\ watching = TRUE

Write(who) ==
    /\ Len(log) < MaxLog
    /\ log' = Append(log, who)
    /\ UNCHANGED <<since, page, oldestEntry, printed, watching>>

\* One round of the inner loop of watchLogs; the first of a tick if page is 0.
FetchPage ==
    LET checked == checkOldestEntry(fetchLogs(page), oldestEntry)
    IN  /\ watching
        /\ Len(printed) < MaxPrinted
        /\ printed' = printed \o checked.logs
        /\ oldestEntry' = checked.oldest
        /\ page' = IF checked.allNew THEN page + 1 ELSE 0
        /\ UNCHANGED <<log, since, watching>>

\* The command is cancelled, or a call to the server fails.
StopWatching ==
    /\ watching
    /\ watching' = FALSE
    /\ UNCHANGED <<log, since, page, oldestEntry, printed>>

LogNext == (\E who \in {"plugin", "other"} : Write(who)) \/ FetchPage \/ StopWatching

LogSpec == LogInit /\ [][LogNext]_logVars

\* The ticker ticks, and the server answers.
LogFairSpec == LogSpec /\ WF_logVars(FetchPage)

-----------------------------------------------------------------------------
(* Properties *)

\* The log since then fits on a page.
Short == Len(log) - since <= LogsPerPage

LogTypeOK ==
    /\ log \in Seq({"plugin", "other"})
    /\ since \in Nat
    /\ page \in 0..Len(log)
    /\ oldestEntry \in {0} \cup Wanted
    /\ printed \in Seq(Wanted)
    /\ watching \in BOOLEAN

\* What is printed is the entries that pass the filter up to some entry,
\* each once, in order and without a gap.
PrintedWhole ==
    /\ \A k \in 1 .. Len(printed) - 1 : printed[k] < printed[k + 1]
    /\ \A i \in Wanted : printed # <<>> /\ i < Last(printed) => Contains(printed, i)

\* The newest page reaches back to the entry printed last; or, before any was
\* printed and while an older page is asked for, to all the plugin's entries.
FirstPageSuffices ==
    LET Reaches(i) == i + LogsPerPage > Len(log)
    IN  IF page = 0 /\ printed # <<>> THEN Reaches(oldestEntry)
                                      ELSE \A i \in Wanted : Reaches(i)

\* A plugin that writes often enough, whatever others write, is printed rightly
\* however long it is watched.
PrintsBusyLog == []FirstPageSuffices => []PrintedWhole

\* And so is every log that fits on a page, however seldom the plugin writes.
PrintsShortLog == Short => PrintedWhole

\* With the first page of a tick everything is printed that the plugin has
\* written, whenever the tick comes and whatever was printed before ...
TickCatchesUp ==
    Short /\ page = 0 =>
        LET checked == checkOldestEntry(fetchLogs(page), oldestEntry)
        IN  \A i \in Wanted : Contains(printed \o checked.logs, i)

\* ... so that each entry is printed at some time.
ShortLogPrinted ==
    \A i \in 1..MaxLog :
        Short /\ i \in Wanted ~> Contains(printed, i) \/ ~ Short \/ ~ watching

-----------------------------------------------------------------------------
(* What the comments say, and the code does not do *)

\* "Every log entry is new" (logs.go:101), of a page without oldestEntry.
EveryEntryNew == \A j, k \in DOMAIN printed : j # k => printed[j] # printed[k]
=============================================================================
