--------------------------- MODULE CodeAgentProofs ---------------------------
(***************************************************************************)
(* apply_patch keeps the last accepted text and logs the truth: proofs of  *)
(* RefusedPatchLeavesNoTrace, LastGoodSurvives and HealingLogIsTrue for    *)
(* every set of files and texts, any number of applies and of faults.      *)
(***************************************************************************)
EXTENDS CodeAgent, TLAPS

Texts == Contents \cup {Missing}

ActiveSteps == {"backup", "write", "validate", "rollback", "log_rollback", "log_applied",
                "undo", "log_undo"}

FilesTypeOK ==
  /\ disk \in [Files -> Texts] /\ backup \in [Files -> Texts] /\ good \in [Files -> Texts]
  /\ damage \in [Files -> 0..2]
  /\ job \in [step : ActiveSteps \cup {"idle"}, file : Files \cup {NoFile},
              patch : Texts, original : Texts]
  /\ job = Idle \/ (job.file \in Files /\ job.step \in ActiveSteps)

\* Files that no apply is working on.
RestingFiles ==
  \A f \in Files : job.file # f =>
    /\ damage[f] = 0 => disk[f] = good[f]
    /\ damage[f] = 1 => good[f] \in {disk[f], backup[f]}

\* The file an apply is working on: what it, its backup and the text read at
\* the beginning hold at each step.
FileAtWork ==
  job.file \in Files =>
    /\ damage[job.file] # 1
    /\ job.step \in {"validate", "log_applied"} => disk[job.file] = job.patch
    /\ damage[job.file] = 0 =>
         /\ job.original = good[job.file]
         /\ job.step \in {"backup", "write", "log_rollback", "log_undo"} =>
              disk[job.file] = good[job.file]
         /\ job.step # "backup" => backup[job.file] = good[job.file]

PatchInv == FilesTypeOK /\ RestingFiles /\ FileAtWork

LEMMA PatchInit == AgentInit => PatchInv
BY AgentAssumption DEF AgentInit, PatchInv, FilesTypeOK, RestingFiles, FileAtWork, Texts, Idle,
   ActiveSteps

\* One step of apply_patch, of the scan or of the world around them.
LEMMA PatchStep == PatchInv /\ [AgentNext]_agentVars => PatchInv'
<1> SUFFICES ASSUME PatchInv, [AgentNext]_agentVars PROVE PatchInv'
  OBVIOUS
<1> USE AgentAssumption DEF Texts, ActiveSteps
<1>1. ASSUME NEW f \in Files, NEW c \in Contents, ApplyPatch(f, c) PROVE PatchInv'
  BY <1>1 DEF ApplyPatch, PatchInv, FilesTypeOK, RestingFiles, FileAtWork, Idle, fileVars
<1>2. CASE WriteBackup
  BY <1>2 DEF WriteBackup, Fault, NoFault, Goto, Idle, auxVars, PatchInv, FilesTypeOK, RestingFiles, FileAtWork
<1>3. CASE WriteTarget
  BY <1>3 DEF WriteTarget, Fault, NoFault, Goto, Idle, auxVars, PatchInv, FilesTypeOK, RestingFiles, FileAtWork
<1>4. CASE RunValidation
  BY <1>4 DEF RunValidation, Goto, Idle, fileVars, auxVars, PatchInv, FilesTypeOK, RestingFiles, FileAtWork
<1>5. CASE Rollback
  BY <1>5 DEF Rollback, Fault, NoFault, Goto, Idle, auxVars, PatchInv, FilesTypeOK, RestingFiles, FileAtWork
<1>6. CASE LogRollback
  <2>1. /\ job.step = "log_rollback"
        /\ job' = Idle \/ job' = [job EXCEPT !.step = "undo"]
        /\ UNCHANGED <<disk, backup, good, damage>>
    BY <1>6 DEF LogRollback, Goto, fileVars, auxVars
  <2> QED
    BY <2>1 DEF Idle, PatchInv, FilesTypeOK, RestingFiles, FileAtWork
<1>7. CASE LogApplied
  <2>1. /\ job.step = "log_applied"
        /\ \/ job' = Idle /\ good' = [good EXCEPT ![job.file] = job.patch]
           \/ job' = [job EXCEPT !.step = "undo"] /\ UNCHANGED good
        /\ UNCHANGED <<disk, backup, damage>>
    BY <1>7 DEF LogApplied, Goto, fileVars
  <2> QED
    BY <2>1 DEF Idle, PatchInv, FilesTypeOK, RestingFiles, FileAtWork
<1>8. CASE Undo
  BY <1>8 DEF Undo, Fault, NoFault, Goto, Idle, Abandoned, Exposed, PatchInv, FilesTypeOK, RestingFiles, FileAtWork
<1>9. CASE LogUndo
  BY <1>9 DEF LogUndo, Fault, NoFault, Idle, fileVars, auxVars, PatchInv, FilesTypeOK, RestingFiles, FileAtWork
<1>10. CASE Crash
  BY <1>10 DEF Crash, Fault, Idle, Abandoned, Exposed, PatchInv, FilesTypeOK, RestingFiles, FileAtWork
<1>11. ASSUME NEW f \in Files, RemoveFile(f) PROVE PatchInv'
  BY <1>11 DEF RemoveFile, PatchInv, FilesTypeOK, RestingFiles, FileAtWork, Idle
<1>12. CASE UNCHANGED <<disk, backup, job, good, damage>>
  BY <1>12 DEF PatchInv, FilesTypeOK, RestingFiles, FileAtWork, Idle
<1>13. CASE ScanAndHeal
  BY <1>12, <1>13 DEF ScanAndHeal, fileVars, auxVars
<1>14. CASE RotateServiceLogs \/ ServiceLine \/ \E l \in ErrorLines : ServiceError(l)
  BY <1>12, <1>14 DEF RotateServiceLogs, ServiceLine, ServiceError, fileVars, auxVars
<1>15. CASE UNCHANGED agentVars
  BY <1>12, <1>15 DEF agentVars, fileVars, auxVars
<1> QED
  BY <1>1, <1>2, <1>3, <1>4, <1>5, <1>6, <1>7, <1>8, <1>9, <1>10, <1>11, <1>13, <1>14, <1>15 DEF AgentNext, ApplyStep

\* PatchInv is an invariant of the agent: it says what file, backup and original
\* hold at each step of apply_patch.
THEOREM PatchInvariant == AgentSpec => []PatchInv
<1>1. AgentInit => PatchInv
  BY PatchInit
<1>2. PatchInv /\ [AgentNext]_agentVars => PatchInv'
  BY PatchStep
<1> QED
  BY <1>1, <1>2, PTL DEF AgentSpec

\* Every way out of apply_patch that is not cut off has either logged APPLIED or
\* restored the original (code_agent.py:73-86), for all files, texts and faults.
THEOREM RefusedPatchRestored == AgentSpec => []RefusedPatchLeavesNoTrace
<1>1. PatchInv => RefusedPatchLeavesNoTrace
  BY DEF PatchInv, RestingFiles, RefusedPatchLeavesNoTrace
<1> QED
  BY <1>1, PatchInvariant, PTL

\* The last accepted text is in the file or in its backup, through any crash and
\* any failing write, until a patch is applied to what a cut-off apply left
\* (code_agent.py:68-86).
THEOREM LastGoodKept == AgentSpec => []LastGoodSurvives
<1>1. PatchInv => LastGoodSurvives
  BY DEF PatchInv, FilesTypeOK, RestingFiles, FileAtWork, LastGoodSurvives, ActiveSteps, Idle
<1> QED
  BY <1>1, PatchInvariant, PTL
-----------------------------------------------------------------------------
(* The healing log.                                                        *)

Entries == [action : {"SKIP", "ROLLBACK", "APPLIED"}, file : Files \cup {NoFile},
            text : Texts, loud : BOOLEAN]

\* Entry i of h is the newest about its file.
NewestAbout(h, i) == \A k \in i + 1..Len(h) : h[k].file # h[i].file

\* Unless the file was deleted, the newest entry of h about a file is its last
\* accepted text, also while the next apply is under way; g and d are the
\* accepted texts and the damage.
TrueLog(h, g, d) ==
  /\ h \in Seq(Entries)
  /\ \A i \in 1..Len(h) : h[i].action # "SKIP" =>
       /\ h[i].file \in Files
       /\ NewestAbout(h, i) /\ d[h[i].file] = 0 => g[h[i].file] \in {h[i].text, Missing}

LogInv == TrueLog(history, good, damage)

LEMMA AtLeastOne ==
  ASSUME NEW b \in Int
  PROVE  Max({1, b}) \in {1, b} /\ Max({1, b}) >= 1 /\ Max({1, b}) >= b
<1>1. \E x \in {1, b} : \A y \in {1, b} : x >= y
  OBVIOUS
<1>2. /\ Max({1, b}) \in {1, b}
      /\ \A y \in {1, b} : Max({1, b}) >= y
  BY <1>1, Zenon DEF Max
<1> QED
  BY <1>2

\* What LastOnes returns is the end of its argument.
LEMMA LastOnesIsSuffix ==
  ASSUME NEW s \in Seq(Entries)
  PROVE  \E n \in 0..Len(s) :
           /\ LastOnes(s) \in Seq(Entries) /\ Len(LastOnes(s)) = Len(s) - n
           /\ \A i \in 1..Len(s) - n : LastOnes(s)[i] = s[i + n]
<1> DEFINE start == Len(s) - HistoryTail + 1
           first == Max({1, start})
<1>1. start \in Int /\ start <= Len(s) + 1 /\ Len(s) \in Nat
  BY AgentAssumption DEF AgentAssumption
<1>2. first \in {1, start} /\ first >= 1 /\ first >= start
  <2> HIDE DEF start
  <2> QED
    BY <1>1, AtLeastOne
<1>3. first \in 1..Len(s) + 1
  BY <1>1, <1>2
<1>4. LastOnes(s) = SubSeq(s, first, Len(s))
  BY DEF LastOnes
<1> HIDE DEF first
<1>5. /\ SubSeq(s, first, Len(s)) \in Seq(Entries)
      /\ Len(SubSeq(s, first, Len(s))) = Len(s) - (first - 1)
      /\ \A i \in 1..Len(s) - (first - 1) : SubSeq(s, first, Len(s))[i] = s[i + (first - 1)]
  BY <1>1, <1>3
<1>6. first - 1 \in 0..Len(s)
  BY <1>1, <1>3
<1> QED
  BY <1>4, <1>5, <1>6

\* Dropping old entries keeps a log true: the newest about a file go last.
LEMMA ShortenedLog ==
  ASSUME NEW s, NEW g, NEW d, TrueLog(s, g, d)
  PROVE  TrueLog(LastOnes(s), g, d)
<1>1. s \in Seq(Entries)
  BY DEF TrueLog
<1>2. PICK n \in 0..Len(s) :
        /\ LastOnes(s) \in Seq(Entries) /\ Len(LastOnes(s)) = Len(s) - n
        /\ \A i \in 1..Len(s) - n : LastOnes(s)[i] = s[i + n]
  BY <1>1, LastOnesIsSuffix
<1> DEFINE t == LastOnes(s)
<1> HIDE DEF t
<1>3. t \in Seq(Entries) /\ Len(t) = Len(s) - n /\ Len(s) \in Nat
  BY <1>1, <1>2 DEF t
<1>4. \A i \in 1..Len(t) : i + n \in 1..Len(s) /\ t[i] = s[i + n]
  BY <1>2, <1>3 DEF t
<1>5. ASSUME NEW i \in 1..Len(t), NewestAbout(t, i) PROVE NewestAbout(s, i + n)
  <2> SUFFICES ASSUME NEW k \in i + n + 1..Len(s) PROVE s[k].file # s[i + n].file
    BY DEF NewestAbout
  <2>1. k - n \in i + 1..Len(t) /\ k - n \in 1..Len(t) /\ (k - n) + n = k
    BY <1>3
  <2>2. t[k - n].file # t[i].file
    BY <1>5, <2>1 DEF NewestAbout
  <2> QED
    BY <1>4, <2>1, <2>2
<1>6. ASSUME NEW i \in 1..Len(t), t[i].action # "SKIP"
      PROVE  /\ t[i].file \in Files
             /\ NewestAbout(t, i) /\ d[t[i].file] = 0 => g[t[i].file] \in {t[i].text, Missing}
  BY <1>4, <1>5, <1>6 DEF TrueLog
<1> QED
  BY <1>3, <1>6 DEF TrueLog, t

\* So does a step that only adds damage or deletes files.
LEMMA AgedLog ==
  ASSUME NEW s, NEW g, NEW d, NEW h, NEW e, TrueLog(s, g, d),
         \A f \in Files : (e[f] = 0 => d[f] = 0) /\ h[f] \in {g[f], Missing}
  PROVE  TrueLog(s, h, e)
BY DEF TrueLog

\* A new entry that tells the accepted text of its file keeps the log true,
\* whatever was accepted for that file before.
LEMMA AppendedEntry ==
  ASSUME NEW s, NEW g, NEW d, NEW h, NEW e \in Entries, TrueLog(s, g, d),
         e.file \in Files, d[e.file] = 0 => h[e.file] = e.text,
         \A f \in Files \ {e.file} : h[f] = g[f]
  PROVE  TrueLog(Append(s, e), h, d)
<1> DEFINE t == Append(s, e)
<1>1. /\ s \in Seq(Entries) /\ t \in Seq(Entries) /\ Len(s) \in Nat /\ Len(t) = Len(s) + 1
      /\ t[Len(s) + 1] = e
      /\ \A i \in 1..Len(s) : t[i] = s[i]
  BY DEF TrueLog
<1> HIDE DEF t
<1>2. ASSUME NEW i \in 1..Len(s), NewestAbout(t, i)
      PROVE  NewestAbout(s, i) /\ s[i].file # e.file
  BY <1>1, <1>2 DEF NewestAbout
<1>3. ASSUME NEW i \in 1..Len(t), t[i].action # "SKIP"
      PROVE  /\ t[i].file \in Files
             /\ NewestAbout(t, i) /\ d[t[i].file] = 0 => h[t[i].file] \in {t[i].text, Missing}
  <2>1. CASE i = Len(s) + 1
    BY <1>1, <2>1
  <2>2. CASE i \in 1..Len(s)
    BY <1>1, <1>2, <1>3, <2>2 DEF TrueLog
  <2> QED
    BY <1>1, <2>1, <2>2
<1> QED
  BY <1>1, <1>3 DEF TrueLog, t

\* Entries about skipped files tell nothing.
LEMMA AppendedSkips ==
  ASSUME NEW s, NEW g, NEW d, TrueLog(s, g, d), NEW n \in Nat
  PROVE  TrueLog(s \o [i \in 1..n |-> Skip], g, d)
<1> DEFINE r == [i \in 1..n |-> Skip]
           t == s \o r
<1>1. Skip \in Entries /\ Skip.action = "SKIP"
  BY DEF Skip, Entry, Entries, Texts
<1>2. r \in Seq(Entries) /\ Len(r) = n /\ \A i \in 1..n : r[i] = Skip
  <2> HIDE DEF Skip
  <2> QED BY <1>1
<1> HIDE DEF r
<1>3. /\ s \in Seq(Entries) /\ t \in Seq(Entries) /\ Len(s) \in Nat /\ Len(t) = Len(s) + n
      /\ \A i \in 1..Len(s) : t[i] = s[i]
      /\ \A i \in Len(s) + 1..Len(t) : t[i] = r[i - Len(s)] /\ i - Len(s) \in 1..n
  BY <1>2 DEF TrueLog
<1> HIDE DEF t
<1>4. ASSUME NEW i \in 1..Len(s), NewestAbout(t, i) PROVE NewestAbout(s, i)
  BY <1>3, <1>4 DEF NewestAbout
<1>5. ASSUME NEW i \in 1..Len(t), t[i].action # "SKIP"
      PROVE  /\ t[i].file \in Files
             /\ NewestAbout(t, i) /\ d[t[i].file] = 0 => g[t[i].file] \in {t[i].text, Missing}
  <2>1. i \in 1..Len(s)
    BY <1>1, <1>2, <1>3, <1>5
  <2> QED
    BY <1>3, <1>4, <1>5, <2>1 DEF TrueLog
<1> QED
  BY <1>3, <1>5 DEF TrueLog, t, r

LEMMA LogStep == PatchInv /\ LogInv /\ [AgentNext]_agentVars => LogInv'
<1> SUFFICES ASSUME PatchInv, LogInv, [AgentNext]_agentVars PROVE LogInv'
  OBVIOUS
<1> USE AgentAssumption
\* Steps that write no entry.
<1>1. ASSUME UNCHANGED history,
             \A f \in Files : (damage'[f] = 0 => damage[f] = 0) /\ good'[f] \in {good[f], Missing}
      PROVE  LogInv'
  BY <1>1, AgedLog DEF LogInv
<1>2. CASE UNCHANGED <<history, good, damage>>
  BY <1>1, <1>2
\* Steps that write the entry e about the job's file.
<1>3. ASSUME NEW e \in Entries, history' = LastOnes(Append(history, e)), e.file \in Files,
             UNCHANGED damage, damage[e.file] = 0 => good'[e.file] = e.text,
             \A f \in Files \ {e.file} : good'[f] = good[f]
      PROVE  LogInv'
  <2>1. TrueLog(Append(history, e), good', damage)
    BY <1>3, AppendedEntry DEF LogInv
  <2> QED
    BY <1>3, <2>1, ShortenedLog DEF LogInv
<1>4. ASSUME NEW n \in Nat, history' = LastOnes(history \o [i \in 1..n |-> Skip]),
             UNCHANGED <<good, damage>>
      PROVE  LogInv'
  BY <1>4, AppendedSkips, ShortenedLog DEF LogInv
<1>5. ASSUME NEW f \in Files, NEW c \in Contents, ApplyPatch(f, c) PROVE LogInv'
  <2>1. CASE disk[f] = Missing
    <3>1. history' = LastOnes(Append(history, Skip)) /\ UNCHANGED <<good, damage>>
      BY <1>5, <2>1 DEF ApplyPatch
    <3>2. Append(history, Skip) = history \o [i \in 1..1 |-> Skip]
      <4>1. Skip \in Entries /\ history \in Seq(Entries)
        BY DEF Skip, Entry, Entries, Texts, LogInv, TrueLog
      <4> HIDE DEF Skip
      <4> QED BY <4>1
    <3> QED
      BY <1>4, <3>1, <3>2
  <2>2. CASE disk[f] # Missing
    BY <1>1, <1>5, <2>2 DEF ApplyPatch, PatchInv, FilesTypeOK
  <2> QED
    BY <2>1, <2>2
<1>6. CASE WriteBackup \/ WriteTarget \/ RunValidation \/ Rollback
  BY <1>2, <1>6 DEF WriteBackup, WriteTarget, RunValidation, Rollback, auxVars
<1>7. CASE LogRollback \/ LogUndo
  <2>1. /\ job.step \in {"log_rollback", "log_undo"}
        /\ \/ UNCHANGED history
           \/ \E loud \in BOOLEAN :
                history' = LastOnes(Append(history, Entry("ROLLBACK", job.file, job.original, loud)))
        /\ UNCHANGED <<good, damage>>
    BY <1>7 DEF LogRollback, LogUndo, auxVars
  <2>2. job.file \in Files /\ job.original \in Texts
        /\ (damage[job.file] = 0 => good[job.file] = job.original)
    BY <2>1 DEF PatchInv, FilesTypeOK, FileAtWork, Idle
  <2>3. ASSUME NEW loud \in BOOLEAN,
               history' = LastOnes(Append(history, Entry("ROLLBACK", job.file, job.original, loud)))
        PROVE  LogInv'
    <3> DEFINE e == Entry("ROLLBACK", job.file, job.original, loud)
    <3>1. e \in Entries /\ e.file = job.file /\ e.text = job.original
      BY <2>2 DEF Entry, Entries
    <3> HIDE DEF e
    <3>2. history' = LastOnes(Append(history, e))
      BY <2>3 DEF e
    <3> QED
      BY <1>3, <2>1, <2>2, <3>1, <3>2
  <2> QED
    BY <1>2, <2>1, <2>3
<1>8. CASE LogApplied
  <2>1. CASE UNCHANGED <<history, good>>
    BY <1>2, <1>8, <2>1 DEF LogApplied
  <2>2. CASE /\ history' = LastOnes(Append(history, Entry("APPLIED", job.file, job.patch, FALSE)))
             /\ good' = [good EXCEPT ![job.file] = job.patch]
    <3> DEFINE e == Entry("APPLIED", job.file, job.patch, FALSE)
    <3>1. job.file \in Files /\ job.patch \in Texts /\ good \in [Files -> Texts] /\ UNCHANGED damage
      BY <1>8 DEF LogApplied, PatchInv, FilesTypeOK, Idle
    <3>2. e \in Entries /\ e.file = job.file /\ e.text = job.patch
      BY <3>1 DEF Entry, Entries
    <3> HIDE DEF e
    <3>3. history' = LastOnes(Append(history, e))
      BY <2>2 DEF e
    <3>4. good'[e.file] = e.text /\ \A f \in Files \ {e.file} : good'[f] = good[f]
      BY <2>2, <3>1, <3>2
    <3> QED
      BY <1>3, <3>1, <3>2, <3>3, <3>4
  <2> QED
    BY <1>8, <2>1, <2>2 DEF LogApplied
<1>9. CASE Undo \/ Crash
  <2>1. UNCHANGED <<history, good>> /\ (UNCHANGED damage \/ damage' = Abandoned)
    BY <1>9 DEF Undo, Crash
  <2> QED
    BY <1>1, <2>1 DEF Abandoned, PatchInv, FilesTypeOK
<1>10. ASSUME NEW f \in Files, RemoveFile(f) PROVE LogInv'
  BY <1>1, <1>10 DEF RemoveFile, PatchInv, FilesTypeOK
<1>11. CASE ScanAndHeal
  <2>1. PICK n \in 0..TopErrors : history' = LastOnes(history \o [i \in 1..n |-> Skip])
    BY <1>11 DEF ScanAndHeal
  <2>2. n \in Nat /\ UNCHANGED <<good, damage>>
    BY <1>11 DEF ScanAndHeal, auxVars, AgentAssumption
  <2> QED
    BY <1>4, <2>1, <2>2
<1>12. CASE RotateServiceLogs \/ ServiceLine \/ \E l \in ErrorLines : ServiceError(l)
  BY <1>2, <1>12 DEF RotateServiceLogs, ServiceLine, ServiceError, auxVars
<1>13. CASE UNCHANGED agentVars
  BY <1>2, <1>13 DEF agentVars, auxVars
<1> QED
  BY <1>5, <1>6, <1>7, <1>8, <1>9, <1>10, <1>11, <1>12, <1>13 DEF AgentNext, ApplyStep

\* The newest entry of the healing log about a file tells what is in it
\* (code_agent.py:79-85), for every length of the log and all faults.
THEOREM HealingLogTrue == AgentSpec => []HealingLogIsTrue
<1>1. AgentInit => LogInv
  BY DEF AgentInit, LogInv, TrueLog
<1>2. PatchInv /\ LogInv /\ [AgentNext]_agentVars => LogInv'
  BY LogStep
<1>3. PatchInv /\ LogInv => HealingLogIsTrue
  <2> SUFFICES ASSUME PatchInv, LogInv, NEW i \in DOMAIN history,
                      history[i].action # "SKIP",
                      \A k \in i + 1..Len(history) : history[k].file # history[i].file,
                      job.file # history[i].file, damage[history[i].file] = 0,
                      disk[history[i].file] # Missing
               PROVE  disk[history[i].file] = history[i].text
    BY DEF HealingLogIsTrue
  <2>1. i \in 1..Len(history) /\ NewestAbout(history, i)
    BY DEF LogInv, TrueLog, NewestAbout
  <2>2. history[i].file \in Files /\ good[history[i].file] \in {history[i].text, Missing}
    BY <2>1 DEF LogInv, TrueLog
  <2> QED
    BY <2>2 DEF PatchInv, RestingFiles
<1> QED
  BY <1>1, <1>2, <1>3, PatchInvariant, PTL DEF AgentSpec
-----------------------------------------------------------------------------
(* apply_patch ends.                                                       *)

\* A bound on the steps the running apply has yet to take.
ApplyLeft ==
  CASE job.step = "idle"         -> 0
    [] job.step = "log_undo"     -> 1
    [] job.step = "undo"         -> 2
    [] job.step = "log_rollback" -> 3
    [] job.step = "log_applied"  -> 3
    [] job.step = "rollback"     -> 4
    [] job.step = "validate"     -> 5
    [] job.step = "write"        -> 6
    [] job.step = "backup"       -> 7

\* The steps of an apply that has begun.
WithinApply ==
  \/ WriteBackup \/ WriteTarget \/ RunValidation \/ Rollback \/ LogRollback
  \/ LogApplied \/ Undo \/ LogUndo \/ Crash

\* A step of the running apply brings its end nearer; nothing but those steps
\* and the beginning of another apply, when none runs, touches it.
ApplyMoves ==
  IF WithinApply THEN ApplyLeft' < ApplyLeft ELSE job = Idle \/ UNCHANGED job

\* A call of apply_patch takes at most seven steps whatever fails on the way:
\* no failure sends it back to a step it has been through, and neither the scan
\* nor a deletion nor another call interferes (code_agent.py:62-86).
THEOREM ApplyEnds == AgentSpec => [](ApplyLeft \in 0..7) /\ [][ApplyMoves]_agentVars
<1>1. PatchInv => ApplyLeft \in 0..7
  BY DEF PatchInv, FilesTypeOK, ActiveSteps, ApplyLeft
<1>2. PatchInv /\ [AgentNext]_agentVars => [ApplyMoves]_agentVars
  <2> SUFFICES ASSUME PatchInv, AgentNext PROVE ApplyMoves
    OBVIOUS
  <2>1. /\ job \in [step : ActiveSteps \cup {"idle"}, file : Files \cup {NoFile},
                    patch : Texts, original : Texts]
        /\ job # Idle => job.step \in ActiveSteps
    BY DEF PatchInv, FilesTypeOK
  <2>2. \/ job.step = "backup" /\ job'.step \in {"write", "idle"}
        \/ job.step = "write" /\ job'.step \in {"validate", "log_applied", "undo"}
        \/ job.step = "validate" /\ job'.step \in {"log_applied", "rollback"}
        \/ job.step = "rollback" /\ job'.step \in {"log_rollback", "undo"}
        \/ job.step \in {"log_rollback", "log_applied"} /\ job'.step \in {"idle", "undo"}
        \/ job.step = "undo" /\ job'.step \in {"log_undo", "idle"}
        \/ job.step \in ActiveSteps /\ job'.step = "idle"
        \/ ~WithinApply
    <3>1. CASE WriteBackup \/ WriteTarget \/ RunValidation \/ Rollback
      BY <2>1, <3>1 DEF WriteBackup, WriteTarget, RunValidation, Rollback, Goto, Idle
    <3>2. CASE LogRollback \/ LogApplied \/ Undo
      <4>1. \/ /\ job.step \in {"log_rollback", "log_applied"}
               /\ job' \in {Idle, [job EXCEPT !.step = "undo"]}
            \/ job.step = "undo" /\ job' \in {Idle, [job EXCEPT !.step = "log_undo"]}
        BY <3>2 DEF LogRollback, LogApplied, Undo, Goto
      <4> QED
        BY <2>1, <4>1 DEF Idle
    <3>3. CASE LogUndo \/ Crash
      <4>1. job' = Idle /\ (job.step = "log_undo" \/ job # Idle)
        BY <3>3 DEF LogUndo, Crash
      <4>2. job.step \in ActiveSteps
        BY <2>1, <4>1 DEF ActiveSteps
      <4> QED
        BY <4>1, <4>2 DEF Idle
    <3> QED
      BY <3>1, <3>2, <3>3 DEF WithinApply
  <2>3. WithinApply => ApplyLeft' < ApplyLeft
    BY <2>2 DEF ApplyLeft, ActiveSteps
  <2>4. WithinApply \/ job = Idle \/ UNCHANGED job
    BY DEF AgentNext, ApplyStep, WithinApply, ApplyPatch, RemoveFile, ScanAndHeal,
           RotateServiceLogs, ServiceLine, ServiceError
  <2> QED
    BY <2>3, <2>4 DEF ApplyMoves
<1> QED
  BY <1>1, <1>2, PatchInvariant, PTL DEF AgentSpec

-----------------------------------------------------------------------------
(* The scan and its own reports.                                           *)

\* What a report leaves in centaur.log can be matched again only as a generic
\* error, and for as long as the window lasts.
OwnLine(l) == l = [label |-> "generic_error", file |-> l.file, age |-> l.age] /\ l.age \in 0..Window

OwnLines == \A l \in own : OwnLine(l)

\* No line of a service is in the window, and no rollback is printed.
SilentScan ==
  /\ ScanAndHeal
  /\ ~(silence <= Window) \/ service = {}
  /\ \A i \in DOMAIN history' : ~history'[i].loud

\* The lines left are n scans old or older.
AllOlder(n) == \A l \in own : l.age >= n

\* A silent scan only lets lines grow older, and nothing else touches them.
ScanFades ==
  /\ SilentScan => \A n \in Nat : AllOlder(n) => AllOlder(n + 1)'
  /\ ScanAndHeal \/ UNCHANGED own
LEMMA OwnLinesStep ==
  ASSUME OwnLines, [AgentNext]_agentVars
  PROVE  OwnLines'
<1>1. Window \in Nat
  BY AgentAssumption
<1>2. CASE UNCHANGED own
  BY <1>2 DEF OwnLines
<1>3. CASE ScanAndHeal
  <2>1. PICK S : /\ \A l \in S : l.label = "generic_error"
                 /\ own' = Older \cup {[label |-> l.label, file |-> l.file, age |-> 0] : l \in S}
    <3>1. \A picked, tail : \A l \in ReportLines(picked, tail) : l.label = "generic_error"
      BY DEF ReportLines, Line
    <3>2. PICK picked :
            own' = Older \cup {[label |-> l.label, file |-> l.file, age |-> 0] :
                     l \in IF Found = {} THEN {} ELSE ReportLines(picked, history')}
      BY <1>3 DEF ScanAndHeal
    <3>3. PICK S : S = IF Found = {} THEN {} ELSE ReportLines(picked, history')
      OBVIOUS
    <3>4. \A l \in S : l.label = "generic_error"
      BY <3>1, <3>3
    <3> QED
      BY <3>2, <3>3, <3>4
  <2>2. \A l \in Older : OwnLine(l)
    <3> SUFFICES ASSUME NEW l \in Older PROVE OwnLine(l)
      OBVIOUS
    <3>1. PICK m \in own : m.age < Window /\ l = [m EXCEPT !.age = @ + 1]
      BY DEF Older
    <3>2. PICK f, a : m = [label |-> "generic_error", file |-> f, age |-> a] /\ a \in 0..Window
      BY DEF OwnLines, OwnLine
    <3>3. l = [label |-> "generic_error", file |-> f, age |-> a + 1]
      BY <3>1, <3>2
    <3>4. a + 1 \in 0..Window
      BY <1>1, <3>1, <3>2
    <3> QED
      BY <3>3, <3>4 DEF OwnLine
  <2>3. \A l \in S : OwnLine([label |-> l.label, file |-> l.file, age |-> 0])
    BY <1>1, <2>1 DEF OwnLine
  <2>4. \A l \in own' : OwnLine(l)
    BY <2>1, <2>2, <2>3
  <2> QED
    BY <2>4 DEF OwnLines
<1>4. ScanAndHeal \/ UNCHANGED own
  BY DEF AgentNext, ApplyStep, ApplyPatch, WriteBackup, WriteTarget, RunValidation, Rollback,
         LogRollback, LogApplied, Undo, LogUndo, Crash, RemoveFile, RotateServiceLogs,
         ServiceLine, ServiceError, agentVars, logVars
<1> QED
  BY <1>2, <1>3, <1>4
\* A silent scan reports nothing that a later scan could match.
LEMMA SilentScanOwn ==
  ASSUME OwnLines, SilentScan
  PROVE  own' = Older
<1>1. PICK picked \in kSubset(Min({TopErrors, Cardinality(Found)}), Found) :
        own' = Older \cup {[label |-> l.label, file |-> l.file, age |-> 0] :
                 l \in IF Found = {} THEN {} ELSE ReportLines(picked, history')}
  BY DEF SilentScan, ScanAndHeal
<1>2. picked \subseteq Found
  BY <1>1 DEF kSubset
<1>3. \A l \in Found : l.label = "generic_error"
  <2>1. \A l \in own : l.label = "generic_error"
    BY DEF OwnLines, OwnLine
  <2>2. Found \subseteq {Line(l.label, l.file) : l \in own}
    BY DEF Found, SilentScan
  <2> QED
    BY <2>1, <2>2 DEF Line
<1>4. {l \in picked : Rematched(l.label)} = {}
  BY <1>2, <1>3 DEF Rematched
<1>5. {k \in DOMAIN history' : history'[k].loud} = {}
  BY DEF SilentScan
<1>6. ReportLines(picked, history') = {}
  BY <1>4, <1>5 DEF ReportLines
<1> QED
  BY <1>1, <1>6

\* The log scan does not feed on itself: while no service log with an error line in
\* it is written to and no rollback is among the printed entries, the lines of its own reports that a
\* scan still finds are at least one scan older after each scan, and none is
\* older than the window, so the window's length of such scans leaves none
\* (code_agent.py:31-39).  This is the safety half of ScanFallsSilent.
THEOREM ScanFadesOut == AgentSpec => []OwnLines /\ [][ScanFades]_agentVars
<1>1. AgentInit => OwnLines
  BY DEF AgentInit, OwnLines
<1>2. OwnLines /\ [AgentNext]_agentVars => OwnLines'
  BY OwnLinesStep
<1>3. OwnLines /\ [AgentNext]_agentVars => [ScanFades]_agentVars
  <2> SUFFICES ASSUME OwnLines, AgentNext PROVE ScanFades
    OBVIOUS
  <2>1. ASSUME SilentScan, NEW n \in Nat, AllOlder(n) PROVE AllOlder(n + 1)'
    <3>1. own' = Older
      BY <2>1, SilentScanOwn
    <3>2. ASSUME NEW l \in own' PROVE l.age >= n + 1
      <4>1. PICK m \in own : m.age < Window /\ l = [m EXCEPT !.age = @ + 1]
        BY <3>1, <3>2 DEF Older
      <4>2. PICK f, a : m = [label |-> "generic_error", file |-> f, age |-> a] /\ a \in 0..Window
        BY DEF OwnLines, OwnLine
      <4>3. a \in Int /\ a >= n
        BY <2>1, <4>2 DEF AllOlder
      <4>4. l.age = a + 1
        BY <4>1, <4>2
      <4> QED
        BY <4>3, <4>4
    <3> QED
      BY <3>2 DEF AllOlder
  <2>2. ScanAndHeal \/ UNCHANGED own
    BY DEF AgentNext, ApplyStep, ApplyPatch, WriteBackup, WriteTarget, RunValidation, Rollback,
           LogRollback, LogApplied, Undo, LogUndo, Crash, RemoveFile, RotateServiceLogs,
           ServiceLine, ServiceError, logVars
  <2> QED
    BY <2>1, <2>2 DEF ScanFades
<1> QED
  BY <1>1, <1>2, <1>3, PTL DEF AgentSpec
=============================================================================
