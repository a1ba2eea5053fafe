------------------------------ MODULE Storage -------------------------------
(***************************************************************************)
(* The log bucket of src/raft/persistence.go as a value: the sequence of   *)
(* what is stored under entry_1, entry_2, ... up to next_index - 1.  No    *)
(* key in between is missing: entries are appended in order, and what the  *)
(* handler truncates it truncates from the first one on.                   *)
(***************************************************************************)
EXTENDS Naturals, Sequences

\* AppendLogEntry stores under next_index, whatever index the entry carries.
AppendLogEntry(disk, entry) == Append(disk, entry)

\* AppendLogEntry for one entry after the other.
AppendLogEntries(disk, entries) == disk \o entries

\* TruncateLog deletes from `start` on and sets next_index to `start`.
TruncateLog(disk, start) == SubSeq(disk, 1, start - 1)

\* The loop of the AppendEntries handler, TruncateLog(i) for i = len(rf.log) .. 1:
\* the last call, if there is any, decides what is left.
TruncateFrom(disk, len) == IF len = 0 THEN disk ELSE TruncateLog(disk, 1)

\* GetLogEntries(first, last): clamped to the stored range.
GetLogEntries(disk, first, last) ==
    SubSeq(disk, IF first < 1 THEN 1 ELSE first,
                 IF last > Len(disk) THEN Len(disk) ELSE last)
=============================================================================
