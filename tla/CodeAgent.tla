------------------------------ MODULE CodeAgent ------------------------------
(***************************************************************************)
(* The self-healing machinery: the code agent that stages, applies and     *)
(* rolls back patches (evolution/evolution/code_agent.py) and the          *)
(* orchestrator's scan of the logs that feeds it (_scan_and_heal in        *)
(* centaur_start.py).  Nothing in the repository calls apply_patch: its    *)
(* caller is external and may apply any staged patch, and its process may  *)
(* die or have a write fail at every step.                                 *)
(*                                                                         *)
(* A log line is the label of the first pattern it matches and the source  *)
(* file it names; of the other lines, and of those that hold one of the    *)
(* _SELF_MARKERS, only that they were written counts.  Files are texts:    *)
(* read_text and write_text turn a CRLF into a LF and a LF into the        *)
(* platform's line ending, so bytes are not told apart beyond that.  Time  *)
(* is counted in scans.                                                    *)
(***************************************************************************)
EXTENDS Integers, Sequences, FiniteSets, FiniteSetsExt

CONSTANTS
  Files,        \* source files the logs may name
  Contents,     \* texts of a source file
  Valid,        \* those that compile and pass their tests
  Torn,         \* what a write that fails or is cut off leaves
  Missing,      \* no such file
  NoFile,       \* a line that names no source file, a patch that is not staged
  Initial,      \* the files before the agent touches them
  Labels,       \* the labels of ERROR_PATTERNS
  ErrorLines,   \* the error lines services may write
  FixOf,        \* FixOf[label, content]: the text propose_fix makes of content
  Window,       \* since_seconds, in scans
  TopErrors,    \* errors looked at in a scan, the code's 5
  HistoryTail,  \* healing entries printed by a scan, the code's 3
  MaxApplies,   \* bound: calls of apply_patch
  MaxFaults     \* bound: crashes and failing writes

ASSUME AgentAssumption ==
  /\ Valid \subseteq Contents /\ Torn \in Contents \ Valid /\ Missing \notin Contents
  /\ NoFile \notin Files
  /\ Initial \in [Files -> Contents \cup {Missing}]
  /\ ErrorLines \subseteq [label : Labels, file : Files \cup {NoFile}]
  /\ FixOf \in [Labels \X Contents -> Contents]
  /\ {Window, TopErrors, HistoryTail, MaxApplies, MaxFaults} \subseteq Nat

VARIABLES
  disk, backup,     \* the source files and their .bak files
  staged,           \* the target written into the patch file of each content
  job,              \* the call of apply_patch in progress
  history,          \* the last HistoryTail entries of healing.jsonl
  service, silence, \* error lines in the services' unstamped logs; scans since
                    \* anything was written to these logs
  own,              \* matching lines of centaur.log, with their age
  clean,            \* the last scan found nothing
  applies, faults,  \* calls and faults so far
  good,             \* auxiliary: the last accepted text of each file
  damage            \* auxiliary: 0, 1 after an apply was cut off, 2 after one
                    \* has been started on what that left

fileVars  == <<disk, backup>>
logVars   == <<service, silence, own, clean>>
auxVars   == <<good, damage>>
agentVars == <<fileVars, staged, job, history, logVars, applies, faults, auxVars>>

Idle == [step |-> "idle", file |-> NoFile, patch |-> Missing, original |-> Missing]

AgentInit ==
  /\ disk = Initial /\ good = Initial
  /\ backup = [f \in Files |-> Missing]
  /\ staged = [c \in Contents |-> NoFile]
  /\ job = Idle /\ history = <<>>
  /\ service = {} /\ silence = 0 /\ own = {} /\ clean = TRUE
  /\ applies = 0 /\ faults = 0
  /\ damage = [f \in Files |-> 0]

\* An entry of the healing log; `loud` when its detail reads like an error.
Entry(action, f, text, loud) == [action |-> action, file |-> f, text |-> text, loud |-> loud]

LastOnes(s) == SubSeq(s, Max({1, Len(s) - HistoryTail + 1}), Len(s))

Skip == Entry("SKIP", NoFile, Missing, FALSE)

-----------------------------------------------------------------------------
(* apply_patch.                                                            *)

Goto(step) == job' = [job EXCEPT !.step = step]

\* A write of one of the steps below fails.
Fault == faults < MaxFaults /\ faults' = faults + 1

NoFault == UNCHANGED faults

\* The steps during which the target is not what was last accepted.
Exposed == {"write", "validate", "rollback", "undo", "log_applied"}

\* An exception leaves apply_patch, or the process dies.
Abandoned ==
  [damage EXCEPT ![job.file] = IF job.step \in Exposed /\ @ = 0 THEN 1 ELSE @]

\* Somebody deletes a source file.
RemoveFile(f) ==
  /\ job = Idle /\ disk[f] # Missing
  /\ disk' = [disk EXCEPT ![f] = Missing] /\ good' = [good EXCEPT ![f] = Missing]
  /\ UNCHANGED <<backup, staged, job, history, logVars, applies, faults, damage>>

\* The target is read before the backup is written.  A file that is not there
\* is skipped.
ApplyPatch(f, c) ==
  /\ job = Idle /\ staged[c] = f /\ applies < MaxApplies
  /\ applies' = applies + 1
  /\ \/ /\ disk[f] = Missing
        /\ history' = LastOnes(Append(history, Skip))
        /\ UNCHANGED <<job, damage>>
     \/ /\ disk[f] # Missing
        /\ job' = [step |-> "backup", file |-> f, patch |-> c, original |-> disk[f]]
        /\ damage' = [damage EXCEPT ![f] = IF @ = 0 THEN 0 ELSE 2]
        /\ UNCHANGED history
  /\ UNCHANGED <<fileVars, staged, logVars, faults, good>>

\* Mutant: the target is written first.
WriteBackup_Late ==
  /\ job.step = "backup"
  /\ Goto("write") /\ NoFault
  /\ UNCHANGED <<backup, damage, disk, staged, history, logVars, applies, good>>

\* Outside the try: a failure leaves apply_patch with the target untouched.
WriteBackup ==
  /\ job.step = "backup"
  /\ \/ /\ NoFault /\ Goto("write")
        /\ backup' = [backup EXCEPT ![job.file] = job.original]
     \/ /\ Fault /\ job' = Idle
        /\ backup' = [backup EXCEPT ![job.file] = Torn]
  /\ UNCHANGED <<disk, staged, history, logVars, applies, auxVars>>

\* With run_tests or without.
WriteTarget ==
  /\ job.step = "write"
  /\ \/ /\ NoFault
        /\ Goto("validate") \/ Goto("log_applied")
        /\ disk' = [disk EXCEPT ![job.file] = job.patch]
     \/ /\ Fault /\ Goto("undo")
        /\ disk' = [disk EXCEPT ![job.file] = Torn]
  /\ UNCHANGED <<backup, staged, history, logVars, applies, auxVars>>

\* Compiler and tests; a timeout refuses also what is valid.
RunValidation ==
  /\ job.step = "validate"
  /\ \/ job.patch \in Valid /\ Goto("log_applied")
     \/ Goto("rollback")
  /\ UNCHANGED <<fileVars, staged, history, logVars, applies, faults, auxVars>>

\* Mutant: a refused patch is only reported.
Rollback_Forgotten ==
  /\ job.step = "rollback"
  /\ Goto("log_rollback") /\ NoFault
  /\ UNCHANGED <<fileVars, staged, history, logVars, applies, auxVars>>

Rollback ==
  /\ job.step = "rollback"
  /\ \/ /\ NoFault /\ Goto("log_rollback")
        /\ disk' = [disk EXCEPT ![job.file] = job.original]
     \/ /\ Fault /\ Goto("undo")
        /\ disk' = [disk EXCEPT ![job.file] = Torn]
  /\ UNCHANGED <<backup, staged, history, logVars, applies, auxVars>>

\* "Tests failed after patch" matches a pattern itself.
LogRollback ==
  /\ job.step = "log_rollback"
  /\ \/ /\ NoFault /\ job' = Idle
        /\ history' = LastOnes(Append(history, Entry("ROLLBACK", job.file, job.original, TRUE)))
     \/ Fault /\ Goto("undo") /\ UNCHANGED history
  /\ UNCHANGED <<fileVars, staged, logVars, applies, auxVars>>

\* Mutant: a patch whose entry cannot be written stays.
LogApplied_Kept ==
  /\ job.step = "log_applied"
  /\ \/ /\ NoFault /\ job' = Idle
        /\ history' = LastOnes(Append(history, Entry("APPLIED", job.file, job.patch, FALSE)))
     \/ Fault /\ job' = Idle /\ UNCHANGED history
  /\ good' = [good EXCEPT ![job.file] = job.patch]
  /\ UNCHANGED <<fileVars, staged, logVars, applies, damage>>

\* The patch is accepted when its entry is written; if that fails it is undone.
LogApplied ==
  /\ job.step = "log_applied"
  /\ \/ /\ NoFault /\ job' = Idle
        /\ history' = LastOnes(Append(history, Entry("APPLIED", job.file, job.patch, FALSE)))
        /\ good' = [good EXCEPT ![job.file] = job.patch]
     \/ Fault /\ Goto("undo") /\ UNCHANGED <<history, good>>
  /\ UNCHANGED <<fileVars, staged, logVars, applies, damage>>

\* The except clause; nothing catches a second failure.
Undo ==
  /\ job.step = "undo"
  /\ \/ /\ NoFault /\ Goto("log_undo")
        /\ disk' = [disk EXCEPT ![job.file] = job.original]
        /\ UNCHANGED damage
     \/ /\ Fault /\ job' = Idle
        /\ disk' = [disk EXCEPT ![job.file] = Torn]
        /\ damage' = Abandoned
  /\ UNCHANGED <<backup, staged, history, logVars, applies, good>>

\* The text of the exception may read like an error or not.
LogUndo ==
  /\ job.step = "log_undo" /\ job' = Idle
  /\ \/ /\ NoFault
        /\ \E loud \in BOOLEAN :
             history' = LastOnes(Append(history, Entry("ROLLBACK", job.file, job.original, loud)))
     \/ Fault /\ UNCHANGED history
  /\ UNCHANGED <<fileVars, staged, logVars, applies, auxVars>>

\* The process dies; a file it was writing may be cut off.
Crash ==
  /\ job # Idle /\ Fault
  /\ job' = Idle
  /\ damage' = Abandoned
  /\ disk' \in {disk, [disk EXCEPT ![job.file] =
                  IF job.step \in {"write", "rollback", "undo"} THEN Torn ELSE @]}
  /\ backup' \in {backup, [backup EXCEPT ![job.file] =
                    IF job.step = "backup" THEN Torn ELSE @]}
  /\ UNCHANGED <<staged, history, logVars, applies, good>>

ApplyStep ==
  \/ \E f \in Files, c \in Contents : ApplyPatch(f, c)
  \/ WriteBackup \/ WriteTarget \/ RunValidation \/ Rollback \/ LogRollback
  \/ LogApplied \/ Undo \/ LogUndo \/ Crash

-----------------------------------------------------------------------------
(* The log scan.                                                           *)

\* A service writes an error line.
ServiceError(l) ==
  /\ service' = service \cup {l} /\ silence' = 0
  /\ UNCHANGED <<fileVars, staged, job, history, own, clean, applies, faults, auxVars>>

\* A service writes any other line.  The log is fresh again, and with it every
\* error line still among its last thousand.
ServiceLine ==
  /\ service' \in SUBSET service /\ silence' = 0
  /\ UNCHANGED <<fileVars, staged, job, history, own, clean, applies, faults, auxVars>>

\* Rotation at boot takes the services' logs out of the scan, not centaur.log.
RotateServiceLogs ==
  /\ service # {} /\ service' = {}
  /\ UNCHANGED <<fileVars, staged, job, history, silence, own, clean, applies, faults, auxVars>>

Line(label, f) == [label |-> label, file |-> f]

\* scan_logs_for_errors: stamped lines of the window, and every line of an
\* unstamped log that was written to within the window.
Found ==
  {Line(l.label, l.file) : l \in own} \cup (IF silence <= Window THEN service ELSE {})

\* propose_fix stages a patch for this line.
Fixable(l) ==
  /\ l.label # "risk_violation"
  /\ l.file # NoFile /\ disk[l.file] # Missing
  /\ FixOf[l.label, disk[l.file]] # disk[l.file]

\* stage_patch: the name of the patch file is a hash of its text.  A patch that is
\* proposed again replaces itself, and an equal text for another file replaces it too.
Stage(lines) ==
  \E choice \in [Contents -> Files \cup {NoFile}] :
    /\ \A c \in Contents :
         LET targets == {l.file : l \in {m \in lines : FixOf[m.label, disk[m.file]] = c}}
         IN  choice[c] \in (IF targets = {} THEN {staged[c]} ELSE targets)
    /\ staged' = choice


\* The line "[label] file" of a report matches a pattern and no self-marker.
Rematched(label) == label = "ipc_protocol_error"

\* The lines of its own report that a later scan finds: labels, and the tail of
\* the healing history.
ReportLines(picked, tail) ==
  {Line("generic_error", NoFile) : l \in {m \in picked : Rematched(m.label)}}
    \cup {Line("generic_error", tail[i].file) : i \in {k \in DOMAIN tail : tail[k].loud}}

\* Lines of centaur.log grow older and leave the window.
Older == {[l EXCEPT !.age = @ + 1] : l \in {m \in own : m.age < Window}}

\* _scan_and_heal.  Which of many errors come first depends on the order of the
\* log files.  (The restart of constitution for an IPC error is in Orchestrator.)
ScanAndHeal ==
  /\ clean' = (Found = {})
  /\ silence' = Min({silence + 1, Window + 1})
  /\ \E picked \in kSubset(Min({TopErrors, Cardinality(Found)}), Found), skips \in 0..TopErrors :
       LET fixable == {l \in picked : Fixable(l)}
       IN  /\ skips = Cardinality(picked \ fixable)
           /\ Stage(fixable)
           /\ history' = LastOnes(history \o [i \in 1..skips |-> Skip])
           /\ own' = Older \cup {[label |-> l.label, file |-> l.file, age |-> 0] :
                        l \in IF Found = {} THEN {} ELSE ReportLines(picked, history')}
  /\ UNCHANGED <<fileVars, job, service, applies, faults, auxVars>>

AgentNext ==
  \/ ApplyStep \/ \E f \in Files : RemoveFile(f)
  \/ ScanAndHeal \/ RotateServiceLogs \/ ServiceLine \/ \E l \in ErrorLines : ServiceError(l)

\* The orchestrator's loop scans again and again.  Nobody is obliged to apply a
\* patch, and a step of apply_patch may take forever.
AgentSpec == AgentInit /\ [][AgentNext]_agentVars /\ WF_agentVars(ScanAndHeal)

-----------------------------------------------------------------------------
(* Properties.                                                             *)

\* Whatever was refused, timed out or failed on the way, a file that no apply
\* was cut off on holds the last text that was accepted for it whenever no
\* apply is running (code_agent.py:73-86: each way out of the try either logs
\* APPLIED or has restored the original).
RefusedPatchLeavesNoTrace ==
  \A f \in Files : job.file # f /\ damage[f] = 0 => disk[f] = good[f]

\* One crash or double failure never destroys the last accepted text: it is in
\* the file or in its backup until somebody applies a patch to what the first
\* one left (code_agent.py:68-74: the backup is complete before the target is
\* touched, and a second apply overwrites it).
LastGoodSurvives ==
  \A f \in Files : damage[f] < 2 => good[f] \in {disk[f], backup[f]}

\* The newest entry of the healing log about a file that nobody deleted tells what
\* is in it (code_agent.py:79-85).
HealingLogIsTrue ==
  \A i \in DOMAIN history :
    LET e == history[i] IN
    /\ e.action # "SKIP"
    /\ \A k \in i + 1..Len(history) : history[k].file # e.file
    /\ job.file # e.file /\ damage[e.file] = 0 /\ disk[e.file] # Missing
    => disk[e.file] = e.text

\* The scan does not feed on its own reports: once nothing at all is written to a
\* service log that holds an error line, or that line was rotated or pushed out,
\* and no rollback is among the healing entries the scan prints, its reports come
\* to be clean (code_agent.py:31-39, 147-156).  A service that prints on, be it
\* ordinary lines, keeps its old error lines in every report.
QuietServices ==
  /\ silence > Window \/ service = {}
  /\ \A i \in DOMAIN history : ~history[i].loud

=============================================================================
