--------------------------- MODULE SchemaHistory ---------------------------
(***************************************************************************)
(* FileHistoryStore, internal/schema/history.go: the column history of one *)
(* table (tables share nothing), its cache and its file, through failed    *)
(* writes, crashes and restarts.  parseRelation is the caller of Save and  *)
(* goes on after an error.  An entry is its number in the order of saving. *)
(***************************************************************************)
EXTENDS Integers, Sequences

CONSTANTS
  MaxEntries,   \* bound: entries saved
  MaxFailures,  \* bound: writes that fail
  MaxRestarts   \* bound: restarts

ASSUME HistoryAssumption == {MaxEntries, MaxFailures, MaxRestarts} \subseteq Nat

VARIABLES
  cache,     \* this process's entries, or Missing
  file, tmp, \* what the files hold: entries, Missing or Torn
  saving,    \* where Save is: "idle", "write" or "rename"
  made,      \* entries handed to Save so far
  kept,      \* the newest entry whose Save returned nil
  failures, restarts

historyVars == <<cache, file, tmp, saving, made, kept, failures, restarts>>

\* Neither a missing file nor one cut short is a list of entries.
Missing == <<0>>
Torn == <<-1>>

HistoryInit ==
  /\ cache = Missing /\ file = Missing /\ tmp = Missing /\ saving = "idle"
  /\ made = 0 /\ kept = 0 /\ failures = 0 /\ restarts = 0

(***************************************************************************)
(* Save appends to the cache, under the lock, and writes the whole file:   *)
(* first a temporary one, then the rename.                                 *)
(***************************************************************************)
Save ==
  /\ saving = "idle" /\ made < MaxEntries
  /\ made' = made + 1
  /\ cache' = IF cache = Missing THEN <<made'>> ELSE Append(cache, made')
  /\ saving' = "write"
  /\ UNCHANGED <<file, tmp, kept, failures, restarts>>

\* Wrong: writes the file itself, which a crash may cut short.
WriteInPlace ==
  /\ saving = "write"
  /\ \/ tmp' = cache /\ file' = cache /\ saving' = "rename"
     \/ file' = Torn /\ UNCHANGED <<tmp, saving>>
  /\ UNCHANGED <<cache, made, kept, failures, restarts>>

\* Wrong: writes the new entry only.
WriteNewest ==
  /\ saving = "write"
  /\ tmp' = <<made>> /\ saving' = "rename"
  /\ UNCHANGED <<cache, file, made, kept, failures, restarts>>

\* os.WriteFile truncates the temporary file, then writes it.
WriteTmp ==
  /\ saving = "write"
  /\ \/ tmp # Torn /\ tmp' = Torn /\ UNCHANGED saving
     \/ tmp = Torn /\ tmp' = cache /\ saving' = "rename"
  /\ UNCHANGED <<cache, file, made, kept, failures, restarts>>

Rename ==
  /\ saving = "rename"
  /\ file' = tmp /\ tmp' = Missing /\ saving' = "idle" /\ kept' = made
  /\ UNCHANGED <<cache, made, failures, restarts>>

\* The write or the rename fails; the entry stays in the cache.
SaveFails ==
  /\ saving # "idle" /\ failures < MaxFailures
  /\ saving' = "idle" /\ failures' = failures + 1
  /\ UNCHANGED <<cache, file, tmp, made, kept, restarts>>

(***************************************************************************)
(* GetLatest and GetHistory fill an empty cache from the file.             *)
(***************************************************************************)
loadEntries ==
  /\ saving = "idle" /\ cache = Missing /\ file \notin {Missing, Torn}
  /\ cache' = file
  /\ UNCHANGED <<file, tmp, saving, made, kept, failures, restarts>>

Restart ==
  /\ restarts < MaxRestarts
  /\ cache' = Missing /\ saving' = "idle" /\ restarts' = restarts + 1
  /\ UNCHANGED <<file, tmp, made, kept, failures>>

HistoryNext == Save \/ WriteTmp \/ Rename \/ SaveFails \/ loadEntries \/ Restart

HistorySpec == HistoryInit /\ [][HistoryNext]_historyVars

-----------------------------------------------------------------------------
Last(s) == s[Len(s)]

(***************************************************************************)
(* What GetLatest answers, from the cache or after a restart from the      *)
(* file, is never older than the newest entry whose Save succeeded, nor    *)
(* unreadable, wherever a write failed or a crash hit (history.go:62-120). *)
(***************************************************************************)
LatestSurvives ==
  kept > 0 => /\ file \notin {Missing, Torn} /\ Last(file) >= kept
              /\ cache # Missing => Last(cache) >= kept

(***************************************************************************)
(* Within a process the file is the cache, but for entries whose write     *)
(* failed or is not over: no successful Save leaves out an earlier one.    *)
(***************************************************************************)
FileKeepsUp ==
  (saving = "idle" /\ cache # Missing /\ Last(cache) = kept) => file = cache
=============================================================================
