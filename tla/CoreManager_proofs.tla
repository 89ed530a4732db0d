------------------------ MODULE CoreManager_proofs ------------------------
(***************************************************************************)
(* Theorems about CoreManager: after a failed restore nothing starts until *)
(* a core is installed, and the core that an activation replaces is kept.  *)
(* The inductive invariant CoreInv says which process an operation runs    *)
(* in and how far that process is, what each process knows of a failed     *)
(* restore, and where the replaced core is at every step of an activation. *)
(***************************************************************************)
EXTENDS CoreManager, SequenceTheorems, TLAPS

USE CoreAssumption DEF Processes, files, blocks, observed, background

Ats == {"none", "mark", "resolve", "check", "noop", "stage", "validate", "backup",
        "switch", "prune", "restart", "commit", "remove", "restore", "swap",
        "again", "restored", "sentinel", "degrade", "record", "clear", "install",
        "unblock", "reopen"}
Jobs == [by : Processes, kind : Kinds \cup {"none", "recover", "adopt"}, at : Ats,
         channel : Channels, target : OneOf, had : OneOf, cut : BOOLEAN,
         read : BOOLEAN, seen : Rows]
Saves == [at : {"none", "read", "write"}, by : Processes, startup : BOOLEAN,
          was : Channels, want : Settings, seen : Rows]

TypeInv == CoreTypeOK /\ job \in Jobs /\ save \in Saves

\* Which operation runs at which time of its process.  An adoption finds no core,
\* so it has nothing to restore.
OrderInv ==
  /\ job.kind = "none" => job.at = "none"
  /\ job.at = "reopen" => job.kind = "recover"
  /\ job.kind = "recover" => job.at = "reopen" /\ open[job.by] = "down"
  /\ job.kind = "adopt" =>
       /\ job.by = Panel /\ open[Panel] = "adopting" /\ job.had = NoCore
       /\ job.at \in {"validate", "backup", "switch", "prune", "install",
                      "unblock", "remove"}
       /\ job.at \in {"validate", "backup"} => current = NoCore
  /\ job.kind \in Kinds => open[job.by] = "open"
  /\ save.startup => save.at # "none" /\ save.by = Panel /\ open[Panel] = "recovered"

\* A marker file that was written is there, and a process that alone knows of
\* the failure lives and knows.
UnsafeInv ==
  /\ unsafe \in {"no", "marked"} \cup Processes
  /\ unsafe = "marked" => sentinel
  /\ unsafe \in Processes => failClosed[unsafe] /\ open[unsafe] = "open"

\* From the first rename until it is undone the newest backup is the core that
\* the activation replaced.
Replacing == {"switch", "prune", "restart", "commit", "install", "remove",
              "restore", "swap"}
KeptInv ==
  /\ PreviousCoreKept
  /\ job.at \in Replacing =>
       /\ replaced = job.had
       /\ job.had \in Cores => backups # <<>> /\ backups[1] = job.had
       /\ job.at = "remove" => job.had = NoCore
       /\ job.at \in {"restore", "swap"} => job.had \in Cores

CoreInv == TypeInv /\ OrderInv /\ UnsafeInv /\ KeptInv

-----------------------------------------------------------------------------
\* Sequences of backups.
LEMMA PushLaws ==
  ASSUME NEW b \in Seq(Cores), NEW c \in Cores
  PROVE  /\ <<c>> \o b \in Seq(Cores) /\ <<c>> \o b # <<>> /\ (<<c>> \o b)[1] = c
         /\ \A i \in DOMAIN b : i + 1 \in DOMAIN (<<c>> \o b) /\ (<<c>> \o b)[i + 1] = b[i]
  OBVIOUS

LEMMA PopLaws ==
  ASSUME NEW b \in Seq(Cores), b # <<>>
  PROVE  /\ Tail(b) \in Seq(Cores) /\ Head(b) = b[1] /\ b[1] \in Cores
         /\ 1 \in DOMAIN b
  OBVIOUS

LEMMA KeptLaws ==
  ASSUME NEW b \in Seq(Cores)
  PROVE  LET kept == SubSeq(b, 1, IF Len(b) < 2 THEN Len(b) ELSE 2)
         IN  /\ kept \in Seq(Cores)
             /\ b # <<>> => kept # <<>> /\ kept[1] = b[1]
<1> DEFINE n == IF Len(b) < 2 THEN Len(b) ELSE 2
<1>1. n \in 0..Len(b) /\ (b # <<>> => n >= 1)
  OBVIOUS
<1> HIDE DEF n
<1>2. SubSeq(b, 1, n) \in Seq(Cores) /\ Len(SubSeq(b, 1, n)) = n
      /\ \A i \in 1..n : SubSeq(b, 1, n)[i] = b[i]
  BY <1>1
<1>3. b # <<>> => SubSeq(b, 1, n) # <<>> /\ SubSeq(b, 1, n)[1] = b[1]
  BY <1>1, <1>2
<1> QED BY <1>2, <1>3 DEF n

\* Jobs.
LEMMA NoJobLaws ==
  /\ NoRow \in Rows /\ NoJob \in Jobs
  /\ NoJob.by = Panel /\ NoJob.kind = "none" /\ NoJob.at = "none" /\ NoJob.had = NoCore
<1>1. NoRow \in Rows
  BY DEF NoRow, Rows, OneOf
<1> QED BY <1>1 DEF NoJob, Jobs, OneOf, Ats

LEMMA JobTypes ==
  ASSUME NEW j \in Jobs
  PROVE  /\ j.by \in Processes /\ j.target \in OneOf /\ j.had \in OneOf
         /\ j.seen \in Rows /\ j.cut \in BOOLEAN
  BY DEF Jobs

LEMMA SaveTypes ==
  ASSUME NEW s \in Saves
  PROVE  /\ s.at \in {"none", "read", "write"} /\ s.by \in Processes
         /\ s.startup \in BOOLEAN /\ s.was \in Channels /\ s.want \in Settings
         /\ s.seen \in Rows
  BY DEF Saves

\* What the statements write.
LEMMA UpdatingLaws ==
  ASSUME NEW r \in Rows, NEW u \in BOOLEAN
  PROVE  [r EXCEPT !.updating = u] \in Rows
  BY DEF Rows

LEMMA CurrentLaws ==
  ASSUME NEW r \in Rows, NEW c \in OneOf
  PROVE  /\ [r EXCEPT !.current = c] \in Rows
         /\ [r EXCEPT !.current = c, !.updating = FALSE] \in Rows
         /\ [r EXCEPT !.current = c, !.available = c, !.updating = FALSE] \in Rows
         /\ r.available \in OneOf /\ r.current \in OneOf
<1>1. r.available \in OneOf /\ r.current \in OneOf
  BY DEF Rows
<1>2. [r EXCEPT !.current = c] \in Rows
  BY DEF Rows
<1>3. [r EXCEPT !.current = c, !.updating = FALSE] \in Rows
  BY DEF Rows
<1>4. [r EXCEPT !.current = c, !.available = c, !.updating = FALSE] \in Rows
  BY DEF Rows
<1> QED BY <1>1, <1>2, <1>3, <1>4

LEMMA NextLaws ==
  ASSUME NEW r \in Rows, NEW n \in {"none", "due", "later"}, NEW c \in OneOf
  PROVE  /\ [r EXCEPT !.next = n, !.available = c] \in Rows
         /\ \A ch \in Channels : [r EXCEPT !.asked = ch, !.next = n, !.available = c] \in Rows
<1>1. [r EXCEPT !.next = n, !.available = c] \in Rows
  BY DEF Rows
<1>2. ASSUME NEW ch \in Channels
      PROVE  [r EXCEPT !.asked = ch, !.next = n, !.available = c] \in Rows
  BY DEF Rows
<1> QED BY <1>1, <1>2

\* What the statements of an operation write.
LEMMA WrittenLaws ==
  ASSUME TypeInv
  PROVE  /\ row \in Rows /\ job.seen \in Rows
         /\ Checked \in Rows /\ Committed \in Rows
         /\ [job.seen EXCEPT !.updating = TRUE] \in Rows
         /\ [job.seen EXCEPT !.updating = FALSE] \in Rows
         /\ [job.seen EXCEPT !.current = job.target] \in Rows
         /\ [job.seen EXCEPT !.current = job.had, !.updating = FALSE] \in Rows
         /\ [job.seen EXCEPT !.current = current, !.updating = FALSE] \in Rows
<1>1. /\ job.seen \in Rows /\ row \in Rows /\ job.target \in OneOf
      /\ current \in OneOf /\ job.had \in OneOf /\ job.channel \in Channels
  BY JobTypes DEF TypeInv, CoreTypeOK, Jobs
<1>2. Checked \in Rows
  <2> DEFINE a == IF job.target = NoCore THEN job.seen.available ELSE job.target
  <2>1. a \in OneOf
    BY <1>1, CurrentLaws
  <2>2. Checked = [job.seen EXCEPT !.asked = job.channel, !.next = "later",
                                   !.available = a]
    BY DEF Checked
  <2> HIDE DEF a
  <2> QED BY <1>1, <2>1, <2>2, NextLaws
<1>3. Committed \in Rows
  BY <1>1, CurrentLaws DEF Committed
<1>4. /\ [job.seen EXCEPT !.updating = TRUE] \in Rows
      /\ [job.seen EXCEPT !.updating = FALSE] \in Rows
  BY <1>1, UpdatingLaws
<1>5. /\ [job.seen EXCEPT !.current = job.target] \in Rows
      /\ [job.seen EXCEPT !.current = job.had, !.updating = FALSE] \in Rows
      /\ [job.seen EXCEPT !.current = current, !.updating = FALSE] \in Rows
  BY <1>1, CurrentLaws
<1> QED BY <1>1, <1>2, <1>3, <1>4, <1>5

LEMMA NoSaveLaws ==
  NoSave \in Saves /\ ~NoSave.startup /\ NoSave.at = "none" /\ NoSave.by = Panel
  BY NoJobLaws DEF NoSave, Saves, Settings

LEMMA JobLaws ==
  ASSUME TypeInv, NEW p \in Processes, NEW kind \in Kinds \cup {"recover", "adopt"},
         NEW at \in Ats
  PROVE  LET j == Job(p, kind, at)
         IN  /\ j \in Jobs /\ j.by = p /\ j.kind = kind /\ j.at = at /\ j.had = NoCore
             /\ \A t \in OneOf : [j EXCEPT !.target = t] \in Jobs
<1>1. settings.channel \in Channels
  BY DEF TypeInv, CoreTypeOK, Settings
<1> QED BY <1>1, NoJobLaws DEF Job, Jobs

LEMMA GotoLaws ==
  ASSUME TypeInv, NEW at \in Ats, Goto(at)
  PROVE  /\ job' \in Jobs /\ job'.at = at /\ job'.by = job.by /\ job'.kind = job.kind
         /\ job'.had = job.had /\ job'.target = job.target /\ job'.cut = job.cut
  BY NoJobLaws DEF Goto, TypeInv, Jobs

\* How an operation ends: at once, or with an update's record and marker.
Ends ==
  /\ job' \in Jobs /\ staged' \in OneOf
  /\ \/ job' = NoJob
     \/ /\ job'.by = job.by /\ job'.kind = job.kind /\ job.kind \in {"update", "auto"}
        /\ job'.at \in {"record", "clear"}

LEMMA FinishLaws == TypeInv /\ Finish => Ends
<1> SUFFICES ASSUME TypeInv, Finish PROVE Ends
  OBVIOUS
<1>1. staged' \in OneOf
  BY DEF Finish, TypeInv, CoreTypeOK, OneOf
<1>2. CASE Updating
  BY <1>1, <1>2, GotoLaws DEF Finish, Ends, Updating, Ats
<1>3. CASE ~Updating
  BY <1>1, <1>3, NoJobLaws DEF Finish, Ends
<1> QED BY <1>2, <1>3

LEMMA FailBeforeLaws == TypeInv /\ FailBefore => Ends
<1> SUFFICES ASSUME TypeInv, FailBefore PROVE Ends
  OBVIOUS
<1>1. CASE Updating
  BY <1>1, GotoLaws DEF FailBefore, Ends, Updating, TypeInv, CoreTypeOK, Ats
<1>2. CASE ~Updating
  BY <1>2, FinishLaws DEF FailBefore
<1> QED BY <1>1, <1>2

\* How it goes on.
Moves(ats) ==
  /\ job' \in Jobs /\ job'.at \in ats /\ job'.by = job.by /\ job'.kind = job.kind
  /\ job'.had = job.had /\ staged' \in OneOf

\* What an ending leaves of the order and of the backups.
LEMMA EndsKeep ==
  ASSUME CoreInv, Ends, open' = open, save' = save,
         PreviousCoreKept'
  PROVE  OrderInv' /\ KeptInv'
<1>1. CASE job' = NoJob
  BY <1>1, NoJobLaws DEF CoreInv, OrderInv, KeptInv, Kinds, Replacing
<1>2. CASE job' # NoJob
  BY <1>2 DEF CoreInv, OrderInv, KeptInv, Kinds, Replacing, Ends
<1> QED BY <1>1, <1>2

-----------------------------------------------------------------------------
\* The steps of an operation: one lemma for each.
LEMMA ReadRowKeeps == CoreInv /\ ReadRow => CoreInv'
<1> SUFFICES ASSUME CoreInv, ReadRow PROVE CoreInv'
  OBVIOUS
<1>1. TypeInv /\ OrderInv /\ UnsafeInv /\ KeptInv
  BY DEF CoreInv
<1>2. /\ job' \in Jobs /\ job'.at = job.at /\ job'.by = job.by
      /\ job'.kind = job.kind /\ job'.had = job.had
  BY <1>1 DEF ReadRow, TypeInv, CoreTypeOK, Jobs
<1>3. TypeInv'
  BY <1>1, <1>2, JobTypes DEF ReadRow, TypeInv, CoreTypeOK
<1>4. OrderInv'
  BY <1>1, <1>2 DEF ReadRow, OrderInv, Kinds
<1>5. UnsafeInv'
  BY <1>1 DEF ReadRow, UnsafeInv
<1>6. KeptInv'
  BY <1>1, <1>2 DEF ReadRow, KeptInv, PreviousCoreKept
<1> QED BY <1>3, <1>4, <1>5, <1>6 DEF CoreInv

LEMMA MarkUpdateKeeps == CoreInv /\ MarkUpdate => CoreInv'
<1> SUFFICES ASSUME CoreInv, MarkUpdate PROVE CoreInv'
  OBVIOUS
<1>1. TypeInv /\ OrderInv /\ UnsafeInv /\ KeptInv
  BY DEF CoreInv
<1>2. Moves({"resolve"}) \/ Ends
  BY <1>1, GotoLaws, FinishLaws, FailBeforeLaws, NoJobLaws
     DEF MarkUpdate, Write, Moves, Ends, Ats, TypeInv, CoreTypeOK
<1>3. job' \in Jobs
  BY <1>2, NoJobLaws DEF Moves, Ends
<1>4. row' \in Rows
  BY <1>1, WrittenLaws DEF MarkUpdate, Write
<1>5. TypeInv'
  BY <1>1, <1>2, <1>3, JobTypes, <1>4
     DEF MarkUpdate, Write, TypeInv, CoreTypeOK, Moves, Ends, Outcomes
<1>6. UnsafeInv'
  BY <1>1 DEF MarkUpdate, Write, UnsafeInv
<1>7. PreviousCoreKept'
  BY <1>1 DEF MarkUpdate, Write, KeptInv, PreviousCoreKept
<1>8. open' = open /\ save' = save
  BY DEF MarkUpdate, Write
<1>9. CASE Ends
  BY <1>5, <1>6, <1>7, <1>8, <1>9, EndsKeep DEF CoreInv
<1>10. CASE Moves({"resolve"})
  <2>1. OrderInv'
    BY <1>1, <1>10 DEF MarkUpdate, Write, OrderInv, Moves, Kinds
  <2>2. KeptInv'
    BY <1>1, <1>7, <1>10 DEF MarkUpdate, Write, KeptInv, Moves, Replacing
  <2> QED BY <1>5, <1>6, <2>1, <2>2 DEF CoreInv
<1> QED BY <1>2, <1>9, <1>10

LEMMA ResolveKeeps == CoreInv /\ Resolve => CoreInv'
<1> SUFFICES ASSUME CoreInv, Resolve PROVE CoreInv'
  OBVIOUS
<1>1. TypeInv /\ OrderInv /\ UnsafeInv /\ KeptInv
  BY DEF CoreInv
<1>2. PICK c \in Builds[job.channel] \cup {NoCore} :
        job' = [job EXCEPT !.at = "check", !.target = c]
  BY DEF Resolve
<1>3. c \in OneOf /\ job \in Jobs
  BY <1>1, <1>2 DEF TypeInv, Jobs, OneOf
<1>4. Moves({"check"})
  BY <1>1, <1>2, <1>3 DEF Resolve, files, Moves, Jobs, Ats, TypeInv, CoreTypeOK
<1>5. TypeInv'
  BY <1>1, <1>4, JobTypes DEF Resolve, TypeInv, CoreTypeOK, Moves
<1>6. UnsafeInv'
  BY <1>1 DEF Resolve, UnsafeInv
<1>7. OrderInv'
  BY <1>1, <1>4 DEF Resolve, OrderInv, Moves, Kinds
<1>8. KeptInv'
  BY <1>1, <1>4 DEF Resolve, KeptInv, PreviousCoreKept, Moves, Replacing
<1> QED BY <1>5, <1>6, <1>7, <1>8 DEF CoreInv

LEMMA SaveCheckKeeps == CoreInv /\ SaveCheck => CoreInv'
<1> SUFFICES ASSUME CoreInv, SaveCheck PROVE CoreInv'
  OBVIOUS
<1>1. TypeInv /\ OrderInv /\ UnsafeInv /\ KeptInv
  BY DEF CoreInv
<1>2. Moves({"noop", "stage"}) \/ Ends
  BY <1>1, GotoLaws, FinishLaws, FailBeforeLaws, NoJobLaws
     DEF SaveCheck, Write, Moves, Ends, Ats, TypeInv, CoreTypeOK
<1>3. job' \in Jobs
  BY <1>2, NoJobLaws DEF Moves, Ends
<1>4. row' \in Rows
  BY <1>1, WrittenLaws DEF SaveCheck, Write
<1>5. TypeInv'
  BY <1>1, <1>2, <1>3, JobTypes, <1>4
     DEF SaveCheck, Write, TypeInv, CoreTypeOK, Moves, Ends, Outcomes
<1>6. UnsafeInv'
  BY <1>1 DEF SaveCheck, Write, UnsafeInv
<1>7. PreviousCoreKept'
  BY <1>1 DEF SaveCheck, Write, KeptInv, PreviousCoreKept
<1>8. open' = open /\ save' = save
  BY DEF SaveCheck, Write
<1>9. CASE Ends
  BY <1>5, <1>6, <1>7, <1>8, <1>9, EndsKeep DEF CoreInv
<1>10. CASE Moves({"noop", "stage"})
  <2>1. OrderInv'
    BY <1>1, <1>10 DEF SaveCheck, Write, OrderInv, Moves, Kinds
  <2>2. KeptInv'
    BY <1>1, <1>7, <1>10 DEF SaveCheck, Write, KeptInv, Moves, Replacing
  <2> QED BY <1>5, <1>6, <2>1, <2>2 DEF CoreInv
<1> QED BY <1>2, <1>9, <1>10

LEMMA SaveNoopKeeps == CoreInv /\ SaveNoop => CoreInv'
<1> SUFFICES ASSUME CoreInv, SaveNoop PROVE CoreInv'
  OBVIOUS
<1>1. TypeInv /\ OrderInv /\ UnsafeInv /\ KeptInv
  BY DEF CoreInv
<1>2. Ends
  BY <1>1, GotoLaws, FinishLaws, FailBeforeLaws, NoJobLaws
     DEF SaveNoop, Write, Moves, Ends, Ats, TypeInv, CoreTypeOK
<1>3. job' \in Jobs
  BY <1>2, NoJobLaws DEF Moves, Ends
<1>4. row' \in Rows
  BY <1>1, WrittenLaws DEF SaveNoop, Write
<1>5. TypeInv'
  BY <1>1, <1>2, <1>3, JobTypes, <1>4
     DEF SaveNoop, Write, TypeInv, CoreTypeOK, Moves, Ends, Outcomes
<1>6. UnsafeInv'
  BY <1>1 DEF SaveNoop, Write, UnsafeInv
<1>7. PreviousCoreKept'
  BY <1>1 DEF SaveNoop, Write, KeptInv, PreviousCoreKept
<1>8. open' = open /\ save' = save
  BY DEF SaveNoop, Write
<1> QED BY <1>2, <1>5, <1>6, <1>7, <1>8, EndsKeep DEF CoreInv

LEMMA StageKeeps == CoreInv /\ Stage => CoreInv'
<1> SUFFICES ASSUME CoreInv, Stage PROVE CoreInv'
  OBVIOUS
<1>1. TypeInv /\ OrderInv /\ UnsafeInv /\ KeptInv
  BY DEF CoreInv
<1>2. Moves({"validate"}) \/ Ends
  BY <1>1, GotoLaws, FinishLaws, FailBeforeLaws, NoJobLaws
     DEF Stage, Moves, Ends, Ats, TypeInv, CoreTypeOK
<1>3. job' \in Jobs
  BY <1>2, NoJobLaws DEF Moves, Ends
<1>5. TypeInv'
  BY <1>1, <1>2, <1>3, JobTypes
     DEF Stage, TypeInv, CoreTypeOK, Moves, Ends, Outcomes
<1>6. UnsafeInv'
  BY <1>1 DEF Stage, UnsafeInv
<1>7. PreviousCoreKept'
  BY <1>1 DEF Stage, KeptInv, PreviousCoreKept
<1>8. open' = open /\ save' = save
  BY DEF Stage
<1>9. CASE Ends
  BY <1>5, <1>6, <1>7, <1>8, <1>9, EndsKeep DEF CoreInv
<1>10. CASE Moves({"validate"})
  <2>1. OrderInv'
    BY <1>1, <1>10 DEF Stage, OrderInv, Moves, Kinds
  <2>2. KeptInv'
    BY <1>1, <1>7, <1>10 DEF Stage, KeptInv, Moves, Replacing
  <2> QED BY <1>5, <1>6, <2>1, <2>2 DEF CoreInv
<1> QED BY <1>2, <1>9, <1>10

LEMMA ValidateKeeps == CoreInv /\ Validate => CoreInv'
<1> SUFFICES ASSUME CoreInv, Validate PROVE CoreInv'
  OBVIOUS
<1>1. TypeInv /\ OrderInv /\ UnsafeInv /\ KeptInv
  BY DEF CoreInv
<1>2. Moves({"backup"}) \/ Ends
  BY <1>1, GotoLaws, FinishLaws, FailBeforeLaws, NoJobLaws
     DEF Validate, Moves, Ends, Ats, TypeInv, CoreTypeOK
<1>3. job' \in Jobs
  BY <1>2, NoJobLaws DEF Moves, Ends
<1>5. TypeInv'
  BY <1>1, <1>2, <1>3, JobTypes
     DEF Validate, TypeInv, CoreTypeOK, Moves, Ends, Outcomes
<1>6. UnsafeInv'
  BY <1>1 DEF Validate, UnsafeInv
<1>7. PreviousCoreKept'
  BY <1>1 DEF Validate, KeptInv, PreviousCoreKept
<1>8. open' = open /\ save' = save
  BY DEF Validate
<1>9. CASE Ends
  BY <1>5, <1>6, <1>7, <1>8, <1>9, EndsKeep DEF CoreInv
<1>10. CASE Moves({"backup"})
  <2>1. OrderInv'
    BY <1>1, <1>10 DEF Validate, OrderInv, Moves, Kinds
  <2>2. KeptInv'
    BY <1>1, <1>7, <1>10 DEF Validate, KeptInv, Moves, Replacing
  <2> QED BY <1>5, <1>6, <2>1, <2>2 DEF CoreInv
<1> QED BY <1>2, <1>9, <1>10

LEMMA BackupKeeps == CoreInv /\ Backup => CoreInv'
<1> SUFFICES ASSUME CoreInv, Backup PROVE CoreInv'
  OBVIOUS
<1>1. TypeInv /\ OrderInv /\ UnsafeInv /\ KeptInv
  BY DEF CoreInv
<1>2. \/ FailBefore /\ UNCHANGED <<current, backups, replaced>>
      \/ /\ job' = [job EXCEPT !.at = "switch", !.had = current, !.cut = (replaced # "no")]
         /\ current' = NoCore /\ staged' = staged /\ replaced' = current
         /\ backups' = IF current = NoCore THEN backups ELSE <<current>> \o backups
  BY DEF Backup
<1>3. CASE FailBefore /\ UNCHANGED <<current, backups, replaced>>
  <2>1. Ends
    BY <1>1, <1>3, FailBeforeLaws
  <2>2. TypeInv'
    BY <1>1, <1>3, <2>1, JobTypes, NoJobLaws
       DEF Backup, TypeInv, CoreTypeOK, Ends
  <2>3. UnsafeInv'
    BY <1>1 DEF Backup, UnsafeInv
  <2>4. PreviousCoreKept'
    BY <1>1, <1>3 DEF KeptInv, PreviousCoreKept
  <2>5. open' = open /\ save' = save
    BY DEF Backup, background
  <2> QED BY <2>1, <2>2, <2>3, <2>4, <2>5, EndsKeep DEF CoreInv
<1>4. CASE /\ job' = [job EXCEPT !.at = "switch", !.had = current, !.cut = (replaced # "no")]
           /\ current' = NoCore /\ staged' = staged /\ replaced' = current
           /\ backups' = IF current = NoCore THEN backups ELSE <<current>> \o backups
  <2> DEFINE cut == replaced # "no"
  <2>1. cut \in BOOLEAN
    OBVIOUS
  <2>2. job' = [job EXCEPT !.at = "switch", !.had = current, !.cut = cut]
    BY <1>4
  <2> HIDE DEF cut
  <2>3. /\ job' \in Jobs /\ job'.at = "switch" /\ job'.by = job.by
        /\ job'.kind = job.kind /\ job'.had = current
        /\ current \in OneOf /\ backups \in Seq(Cores)
    BY <1>1, <2>1, <2>2 DEF TypeInv, CoreTypeOK, Jobs, Ats
  <2>4. current # NoCore => /\ backups' \in Seq(Cores) /\ backups' # <<>>
                            /\ backups'[1] = current
    BY <1>4, <2>3, PushLaws DEF OneOf
  <2>5. TypeInv'
    BY <1>1, <1>4, <2>3, <2>4, JobTypes DEF Backup, TypeInv, CoreTypeOK, OneOf
  <2>6. OrderInv'
    BY <1>1, <1>4, <2>3 DEF Backup, OrderInv, Kinds
  <2>7. UnsafeInv'
    BY <1>1 DEF Backup, UnsafeInv
  <2>8. KeptInv'
    BY <1>4, <2>3, <2>4, <2>5, PopLaws
       DEF KeptInv, PreviousCoreKept, Replacing, TypeInv, CoreTypeOK
  <2> QED BY <2>5, <2>6, <2>7, <2>8 DEF CoreInv
<1> QED BY <1>2, <1>3, <1>4

LEMMA SwitchKeeps == CoreInv /\ Switch => CoreInv'
<1> SUFFICES ASSUME CoreInv, Switch PROVE CoreInv'
  OBVIOUS
<1>1. TypeInv /\ OrderInv /\ UnsafeInv /\ KeptInv
  BY DEF CoreInv
<1>2. \/ /\ Moves({"prune"}) /\ UNCHANGED <<backups, replaced>> /\ current' = staged
      \/ /\ Ends /\ current' = job.had /\ replaced' = Undone
         /\ backups' = IF job.had = NoCore THEN backups ELSE Tail(backups)
  <2>1. PICK ok \in Outcomes("switch") :
          IF ok
          THEN /\ current' = staged /\ staged' = NoCore /\ Goto("prune")
               /\ UNCHANGED <<backups, replaced>>
          ELSE /\ current' = job.had /\ replaced' = Undone
               /\ backups' = IF job.had = NoCore THEN backups ELSE Tail(backups)
               /\ FailBefore
    BY DEF Switch
  <2>2. CASE ok
    <3>1. Moves({"prune"})
      BY <1>1, <2>1, <2>2, GotoLaws DEF Moves, Ats, OneOf
    <3>2. UNCHANGED <<backups, replaced>> /\ current' = staged
      BY <2>1, <2>2
    <3> QED BY <3>1, <3>2
  <2>3. CASE ~ok
    BY <1>1, <2>1, <2>3, FailBeforeLaws
  <2> QED BY <2>2, <2>3
<1>3. /\ job.had \in OneOf /\ replaced = job.had
      /\ job.had \in Cores => backups # <<>> /\ backups[1] = job.had
      /\ staged \in OneOf /\ backups \in Seq(Cores)
  BY <1>1, JobTypes DEF Switch, KeptInv, Replacing, TypeInv, CoreTypeOK
<1>4. backups' \in Seq(Cores) /\ current' \in OneOf /\ replaced' \in OneOf \cup {"no"}
  BY <1>2, <1>3, PopLaws DEF Undone, OneOf
<1>5. job' \in Jobs /\ staged' \in OneOf
  BY <1>2, NoJobLaws DEF Moves, Ends
<1>6. TypeInv'
  BY <1>1, <1>4, <1>5, JobTypes DEF Switch, TypeInv, CoreTypeOK
<1>7. UnsafeInv'
  BY <1>1 DEF Switch, UnsafeInv
<1>8. PreviousCoreKept'
  BY <1>2, <1>3, PopLaws DEF PreviousCoreKept, Undone, OneOf
<1>9. open' = open /\ save' = save
  BY DEF Switch, background
<1>10. CASE Ends
  BY <1>6, <1>7, <1>8, <1>9, <1>10, EndsKeep DEF CoreInv
<1>11. CASE Moves({"prune"}) /\ UNCHANGED <<backups, replaced>>
  <2>1. OrderInv'
    BY <1>1, <1>9, <1>11 DEF Switch, OrderInv, Moves, Kinds
  <2>2. KeptInv'
    BY <1>1, <1>3, <1>8, <1>11 DEF KeptInv, Moves, Replacing
  <2> QED BY <1>6, <1>7, <2>1, <2>2 DEF CoreInv
<1> QED BY <1>2, <1>10, <1>11

LEMMA PruneKeeps == CoreInv /\ Prune => CoreInv'
<1> SUFFICES ASSUME CoreInv, Prune PROVE CoreInv'
  OBVIOUS
<1>1. TypeInv /\ OrderInv /\ UnsafeInv /\ KeptInv
  BY DEF CoreInv
<1>2. Moves({Undo, "install", "restart"})
  BY <1>1, GotoLaws DEF Prune, Moves, Ats, Undo, TypeInv, CoreTypeOK
<1>3. backups \in Seq(Cores) /\ backups' \in {Kept, backups}
  BY <1>1 DEF Prune, TypeInv, CoreTypeOK
<1>4. /\ backups' \in Seq(Cores)
      /\ backups # <<>> => backups' # <<>> /\ backups'[1] = backups[1]
  BY <1>3, KeptLaws DEF Kept
<1>5. /\ job.had \in OneOf /\ replaced = job.had
      /\ job.had \in Cores => backups # <<>> /\ backups[1] = job.had
  BY <1>1, JobTypes DEF Prune, KeptInv, Replacing, TypeInv
<1>6. TypeInv'
  BY <1>1, <1>2, <1>4, JobTypes DEF Prune, TypeInv, CoreTypeOK, Moves
<1>7. UnsafeInv'
  BY <1>1 DEF Prune, UnsafeInv
<1>8. OrderInv'
  <2>1. job.kind = "adopt" => job'.at \in {"remove", "install"}
    BY <1>1, <1>2, GotoLaws DEF Prune, Moves, Undo, Installing, OrderInv, Ats
  <2> QED BY <1>1, <1>2, <2>1 DEF Prune, OrderInv, Moves, Kinds, Undo
<1>9. KeptInv'
  <2>1. replaced' = replaced
    BY DEF Prune, observed
  <2>2. PreviousCoreKept'
    BY <1>4, <1>5, <2>1, PopLaws DEF PreviousCoreKept
  <2>3. /\ job'.at = "remove" => job.had = NoCore
        /\ job'.at = "restore" => job.had # NoCore
        /\ job'.at # "swap" /\ job'.had = job.had
    BY <1>2 DEF Moves, Undo
  <2> QED BY <1>4, <1>5, <2>1, <2>2, <2>3 DEF KeptInv, Replacing, OneOf
<1> QED BY <1>6, <1>7, <1>8, <1>9 DEF CoreInv

LEMMA RestartKeeps == CoreInv /\ Restart => CoreInv'
<1> SUFFICES ASSUME CoreInv, Restart PROVE CoreInv'
  OBVIOUS
<1>1. TypeInv /\ OrderInv /\ UnsafeInv /\ KeptInv
  BY DEF CoreInv
<1>2. Moves({"commit", Undo})
  BY <1>1, GotoLaws, FinishLaws, FailBeforeLaws, NoJobLaws
     DEF Restart, Restarted, Undo, Moves, Ends, Ats, TypeInv, CoreTypeOK
<1>3. job' \in Jobs
  BY <1>2, NoJobLaws DEF Moves, Ends
<1>5. TypeInv'
  BY <1>1, <1>2, <1>3, JobTypes
     DEF Restart, Restarted, Undo, TypeInv, CoreTypeOK, Moves, Ends, Outcomes, OneOf
<1>6. UnsafeInv'
  BY <1>1 DEF Restart, Restarted, Undo, UnsafeInv
<1>7. PreviousCoreKept'
  BY <1>1 DEF Restart, Restarted, Undo, KeptInv, PreviousCoreKept
<1>8. OrderInv'
  BY <1>1, <1>2 DEF Restart, Restarted, Undo, OrderInv, Moves, Kinds
<1>9. KeptInv'
  BY <1>1, <1>2, <1>7, JobTypes
     DEF Restart, Restarted, Undo, KeptInv, Moves, Replacing, TypeInv, OneOf
<1> QED BY <1>5, <1>6, <1>8, <1>9 DEF CoreInv

LEMMA CommitKeeps == CoreInv /\ Commit => CoreInv'
<1> SUFFICES ASSUME CoreInv, Commit PROVE CoreInv'
  OBVIOUS
<1>1. TypeInv /\ OrderInv /\ UnsafeInv /\ KeptInv
  BY DEF CoreInv
<1>2. (Moves({Undo}) /\ replaced' = replaced) \/ Ends
  BY <1>1, GotoLaws, FinishLaws, FailBeforeLaws, NoJobLaws
     DEF Commit, Undo, Write, Moves, Ends, Ats, TypeInv, CoreTypeOK
<1>3. job' \in Jobs
  BY <1>2, NoJobLaws DEF Moves, Ends
<1>4. row' \in Rows
  BY <1>1, WrittenLaws DEF Commit, Write
<1>5. TypeInv'
  BY <1>1, <1>2, <1>3, JobTypes, <1>4
     DEF Commit, Undo, Write, TypeInv, CoreTypeOK, Moves, Ends, Outcomes
<1>6. UnsafeInv'
  BY <1>1 DEF Commit, Undo, Write, UnsafeInv
<1>7. PreviousCoreKept'
  BY <1>1 DEF Commit, Undo, Write, KeptInv, PreviousCoreKept
<1>8. open' = open /\ save' = save
  BY DEF Commit, Undo, Write
<1>9. CASE Ends
  BY <1>5, <1>6, <1>7, <1>8, <1>9, EndsKeep DEF CoreInv
<1>10. CASE (Moves({Undo}) /\ replaced' = replaced)
  <2>1. OrderInv'
    BY <1>1, <1>10 DEF Commit, Undo, Write, OrderInv, Moves, Kinds
  <2>2. KeptInv'
    BY <1>1, <1>7, <1>10, JobTypes
       DEF Commit, Write, KeptInv, Moves, Replacing, TypeInv, OneOf, Undo
  <2> QED BY <1>5, <1>6, <2>1, <2>2 DEF CoreInv
<1> QED BY <1>2, <1>9, <1>10

LEMMA RemoveKeeps == CoreInv /\ Remove => CoreInv'
<1> SUFFICES ASSUME CoreInv, Remove PROVE CoreInv'
  OBVIOUS
<1>1. TypeInv /\ OrderInv /\ UnsafeInv /\ KeptInv
  BY DEF CoreInv
<1>2. (Moves({"sentinel"}) /\ ~Installing) \/ Ends
  BY <1>1, GotoLaws, FinishLaws, FailBeforeLaws, NoJobLaws
     DEF Remove, Installing, Moves, Ends, Ats, TypeInv, CoreTypeOK
<1>3. job' \in Jobs
  BY <1>2, NoJobLaws DEF Moves, Ends
<1>5. TypeInv'
  BY <1>1, <1>2, <1>3, JobTypes
     DEF Remove, Installing, TypeInv, CoreTypeOK, Moves, Ends, Outcomes, OneOf
<1>6. UnsafeInv'
  BY <1>1 DEF Remove, Installing, UnsafeInv
<1>7. PreviousCoreKept'
  BY <1>1, PopLaws
     DEF Remove, TypeInv, CoreTypeOK, KeptInv, PreviousCoreKept, Replacing
<1>8. open' = open /\ save' = save
  BY DEF Remove, Installing
<1>9. CASE Ends
  BY <1>5, <1>6, <1>7, <1>8, <1>9, EndsKeep DEF CoreInv
<1>10. CASE (Moves({"sentinel"}) /\ ~Installing)
  <2>1. OrderInv'
    BY <1>1, <1>10 DEF Remove, Installing, OrderInv, Moves, Kinds
  <2>2. KeptInv'
    BY <1>1, <1>7, <1>10
       DEF Remove, Installing, KeptInv, Moves, Replacing, OneOf
  <2> QED BY <1>5, <1>6, <2>1, <2>2 DEF CoreInv
<1> QED BY <1>2, <1>9, <1>10

LEMMA RestoreKeeps == CoreInv /\ Restore => CoreInv'
<1> SUFFICES ASSUME CoreInv, Restore PROVE CoreInv'
  OBVIOUS
<1>1. TypeInv /\ OrderInv /\ UnsafeInv /\ KeptInv
  BY DEF CoreInv
<1>2. (Moves({"swap", "sentinel"}) /\ (job'.at = "swap" \/ ~Installing)) \/ Ends
  BY <1>1, GotoLaws, FinishLaws, FailBeforeLaws, NoJobLaws
     DEF Restore, Installing, Moves, Ends, Ats, TypeInv, CoreTypeOK
<1>3. job' \in Jobs
  BY <1>2, NoJobLaws DEF Moves, Ends
<1>5. TypeInv'
  BY <1>1, <1>2, <1>3, JobTypes
     DEF Restore, Installing, TypeInv, CoreTypeOK, Moves, Ends, Outcomes, OneOf
<1>6. UnsafeInv'
  BY <1>1 DEF Restore, Installing, UnsafeInv
<1>7. PreviousCoreKept'
  BY <1>1, PopLaws
     DEF Restore, TypeInv, CoreTypeOK, KeptInv, PreviousCoreKept, Replacing
<1>8. open' = open /\ save' = save
  BY DEF Restore, Installing
<1>9. CASE Ends
  BY <1>5, <1>6, <1>7, <1>8, <1>9, EndsKeep DEF CoreInv
<1>10. CASE (Moves({"swap", "sentinel"}) /\ (job'.at = "swap" \/ ~Installing))
  <2>1. OrderInv'
    BY <1>1, <1>10 DEF Restore, Installing, OrderInv, Moves, Kinds
  <2>2. KeptInv'
    BY <1>1, <1>7, <1>10
       DEF Restore, Installing, KeptInv, Moves, Replacing, OneOf
  <2> QED BY <1>5, <1>6, <2>1, <2>2 DEF CoreInv
<1> QED BY <1>2, <1>9, <1>10

LEMMA SwapKeeps == CoreInv /\ Swap => CoreInv'
<1> SUFFICES ASSUME CoreInv, Swap PROVE CoreInv'
  OBVIOUS
<1>1. TypeInv /\ OrderInv /\ UnsafeInv /\ KeptInv
  BY DEF CoreInv
<1>2. (Moves({"again", "sentinel"}) /\ ~Installing) \/ Ends
  BY <1>1, GotoLaws, FinishLaws, FailBeforeLaws, NoJobLaws
     DEF Swap, Installing, Undone, Moves, Ends, Ats, TypeInv, CoreTypeOK
<1>3. job' \in Jobs
  BY <1>2, NoJobLaws DEF Moves, Ends
<1>5. TypeInv'
  BY <1>1, <1>2, <1>3, JobTypes, PopLaws
     DEF Swap, Undone, TypeInv, CoreTypeOK, Moves,
     Ends, OneOf, KeptInv, Replacing
<1>6. UnsafeInv'
  BY <1>1 DEF Swap, Installing, Undone, UnsafeInv
<1>7. PreviousCoreKept'
  BY <1>1, PopLaws
     DEF Swap, Undone, TypeInv, CoreTypeOK, KeptInv, PreviousCoreKept, Replacing
<1>8. open' = open /\ save' = save
  BY DEF Swap, Installing, Undone
<1>9. CASE Ends
  BY <1>5, <1>6, <1>7, <1>8, <1>9, EndsKeep DEF CoreInv
<1>10. CASE (Moves({"again", "sentinel"}) /\ ~Installing)
  <2>1. OrderInv'
    BY <1>1, <1>10 DEF Swap, Installing, Undone, OrderInv, Moves, Kinds
  <2>2. KeptInv'
    BY <1>1, <1>7, <1>10
       DEF Swap, Installing, Undone, KeptInv, Moves, Replacing, OneOf
  <2> QED BY <1>5, <1>6, <2>1, <2>2 DEF CoreInv
<1> QED BY <1>2, <1>9, <1>10

LEMMA AgainKeeps == CoreInv /\ Again => CoreInv'
<1> SUFFICES ASSUME CoreInv, Again PROVE CoreInv'
  OBVIOUS
<1>1. TypeInv /\ OrderInv /\ UnsafeInv /\ KeptInv
  BY DEF CoreInv
<1>2. Moves({"restored", "sentinel"})
  BY <1>1, GotoLaws, FinishLaws, FailBeforeLaws, NoJobLaws
     DEF Again, Restarted, Moves, Ends, Ats, TypeInv, CoreTypeOK
<1>3. job' \in Jobs
  BY <1>2, NoJobLaws DEF Moves, Ends
<1>5. TypeInv'
  BY <1>1, <1>2, <1>3, JobTypes
     DEF Again, Restarted, TypeInv, CoreTypeOK, Moves, Ends, Outcomes, OneOf
<1>6. UnsafeInv'
  BY <1>1 DEF Again, Restarted, UnsafeInv
<1>7. PreviousCoreKept'
  BY <1>1 DEF Again, Restarted, KeptInv, PreviousCoreKept
<1>8. OrderInv'
  BY <1>1, <1>2 DEF Again, Restarted, OrderInv, Moves, Kinds
<1>9. KeptInv'
  BY <1>1, <1>2, <1>7, JobTypes
     DEF Again, Restarted, KeptInv, Moves, Replacing, TypeInv, OneOf
<1> QED BY <1>5, <1>6, <1>8, <1>9 DEF CoreInv

LEMMA SaveRestoredKeeps == CoreInv /\ SaveRestored => CoreInv'
<1> SUFFICES ASSUME CoreInv, SaveRestored PROVE CoreInv'
  OBVIOUS
<1>1. TypeInv /\ OrderInv /\ UnsafeInv /\ KeptInv
  BY DEF CoreInv
<1>2. Moves({"sentinel"}) \/ Ends
  BY <1>1, GotoLaws, FinishLaws, FailBeforeLaws, NoJobLaws
     DEF SaveRestored, Write, Moves, Ends, Ats, TypeInv, CoreTypeOK
<1>3. job' \in Jobs
  BY <1>2, NoJobLaws DEF Moves, Ends
<1>4. row' \in Rows
  BY <1>1, WrittenLaws DEF SaveRestored, Write
<1>5. TypeInv'
  BY <1>1, <1>2, <1>3, JobTypes, <1>4
     DEF SaveRestored, Write, TypeInv, CoreTypeOK, Moves, Ends, Outcomes
<1>6. UnsafeInv'
  BY <1>1 DEF SaveRestored, Write, UnsafeInv
<1>7. PreviousCoreKept'
  BY <1>1 DEF SaveRestored, Write, KeptInv, PreviousCoreKept
<1>8. open' = open /\ save' = save
  BY DEF SaveRestored, Write
<1>9. CASE Ends
  BY <1>5, <1>6, <1>7, <1>8, <1>9, EndsKeep DEF CoreInv
<1>10. CASE Moves({"sentinel"})
  <2>1. OrderInv'
    BY <1>1, <1>10 DEF SaveRestored, Write, OrderInv, Moves, Kinds
  <2>2. KeptInv'
    BY <1>1, <1>7, <1>10 DEF SaveRestored, Write, KeptInv, Moves, Replacing
  <2> QED BY <1>5, <1>6, <2>1, <2>2 DEF CoreInv
<1> QED BY <1>2, <1>9, <1>10

LEMMA MarkFailClosedKeeps == CoreInv /\ MarkFailClosed => CoreInv'
<1> SUFFICES ASSUME CoreInv, MarkFailClosed PROVE CoreInv'
  OBVIOUS
<1>1. TypeInv /\ OrderInv /\ UnsafeInv /\ KeptInv
  BY DEF CoreInv
<1>2. Moves({"degrade"})
  BY <1>1, GotoLaws, FinishLaws, FailBeforeLaws, NoJobLaws
     DEF MarkFailClosed, Moves, Ends, Ats, TypeInv, CoreTypeOK
<1>3. job' \in Jobs
  BY <1>2, NoJobLaws DEF Moves, Ends
<1>5. TypeInv'
  BY <1>1, <1>2, <1>3, JobTypes
     DEF MarkFailClosed, TypeInv, CoreTypeOK, Moves, Ends, Outcomes
<1>6. UnsafeInv'
  <2>1. job.kind \in Kinds /\ job.by \in Processes
    BY <1>1, JobTypes DEF MarkFailClosed, OrderInv, TypeInv, Jobs
  <2>2. open[job.by] = "open"
    BY <1>1, <2>1 DEF OrderInv
  <2> QED BY <1>1, <2>1, <2>2 DEF MarkFailClosed, UnsafeInv, TypeInv, CoreTypeOK
<1>7. PreviousCoreKept'
  BY <1>1 DEF MarkFailClosed, KeptInv, PreviousCoreKept
<1>8. OrderInv'
  BY <1>1, <1>2 DEF MarkFailClosed, OrderInv, Moves, Kinds
<1>9. KeptInv'
  BY <1>1, <1>2, <1>7, JobTypes
     DEF MarkFailClosed, KeptInv, Moves, Replacing, TypeInv, OneOf
<1> QED BY <1>5, <1>6, <1>8, <1>9 DEF CoreInv

LEMMA MarkDegradedKeeps == CoreInv /\ MarkDegraded => CoreInv'
<1> SUFFICES ASSUME CoreInv, MarkDegraded PROVE CoreInv'
  OBVIOUS
<1>1. TypeInv /\ OrderInv /\ UnsafeInv /\ KeptInv
  BY DEF CoreInv
<1>2. Ends
  BY <1>1, GotoLaws, FinishLaws, FailBeforeLaws, NoJobLaws
     DEF MarkDegraded, Moves, Ends, Ats, TypeInv, CoreTypeOK
<1>3. job' \in Jobs
  BY <1>2, NoJobLaws DEF Moves, Ends
<1>5. TypeInv'
  BY <1>1, <1>2, <1>3, JobTypes
     DEF MarkDegraded, TypeInv, CoreTypeOK, Moves, Ends, Outcomes, OneOf
<1>6. UnsafeInv'
  BY <1>1 DEF MarkDegraded, UnsafeInv
<1>7. PreviousCoreKept'
  BY <1>1 DEF MarkDegraded, KeptInv, PreviousCoreKept
<1>8. open' = open /\ save' = save
  BY DEF MarkDegraded
<1> QED BY <1>2, <1>5, <1>6, <1>7, <1>8, EndsKeep DEF CoreInv

LEMMA RecordFailureKeeps == CoreInv /\ RecordFailure => CoreInv'
<1> SUFFICES ASSUME CoreInv, RecordFailure PROVE CoreInv'
  OBVIOUS
<1>1. TypeInv /\ OrderInv /\ UnsafeInv /\ KeptInv
  BY DEF CoreInv
<1>2. Moves({"clear"})
  BY <1>1, GotoLaws, FinishLaws, FailBeforeLaws, NoJobLaws
     DEF RecordFailure, Write, Moves, Ends, Ats, TypeInv, CoreTypeOK
<1>3. job' \in Jobs
  BY <1>2, NoJobLaws DEF Moves, Ends
<1>4. row' \in Rows
  BY <1>1, WrittenLaws DEF RecordFailure, Write
<1>5. TypeInv'
  BY <1>1, <1>2, <1>3, JobTypes, <1>4
     DEF RecordFailure, Write, TypeInv, CoreTypeOK, Moves, Ends, Outcomes
<1>6. UnsafeInv'
  BY <1>1 DEF RecordFailure, Write, UnsafeInv
<1>7. PreviousCoreKept'
  BY <1>1 DEF RecordFailure, Write, KeptInv, PreviousCoreKept
<1>8. OrderInv'
  BY <1>1, <1>2 DEF RecordFailure, Write, OrderInv, Moves, Kinds
<1>9. KeptInv'
  BY <1>1, <1>2, <1>7, JobTypes
     DEF RecordFailure, Write, KeptInv, Moves, Replacing, TypeInv, OneOf
<1> QED BY <1>5, <1>6, <1>8, <1>9 DEF CoreInv

LEMMA ClearMarkerKeeps == CoreInv /\ ClearMarker => CoreInv'
<1> SUFFICES ASSUME CoreInv, ClearMarker PROVE CoreInv'
  OBVIOUS
<1>1. TypeInv /\ OrderInv /\ UnsafeInv /\ KeptInv
  BY DEF CoreInv
<1>2. Ends
  BY <1>1, GotoLaws, FinishLaws, FailBeforeLaws, NoJobLaws
     DEF ClearMarker, OneOf, Write, Moves, Ends, Ats, TypeInv, CoreTypeOK
<1>3. job' \in Jobs
  BY <1>2, NoJobLaws DEF Moves, Ends
<1>4. row' \in Rows
  BY <1>1, WrittenLaws DEF ClearMarker, Write
<1>5. TypeInv'
  BY <1>1, <1>2, <1>3, JobTypes, <1>4
     DEF ClearMarker, OneOf, Write, TypeInv, CoreTypeOK, Moves, Ends, Outcomes
<1>6. UnsafeInv'
  BY <1>1 DEF ClearMarker, OneOf, Write, UnsafeInv
<1>7. PreviousCoreKept'
  BY <1>1 DEF ClearMarker, OneOf, Write, KeptInv, PreviousCoreKept
<1>8. open' = open /\ save' = save
  BY DEF ClearMarker, OneOf, Write
<1> QED BY <1>2, <1>5, <1>6, <1>7, <1>8, EndsKeep DEF CoreInv

LEMMA InstallKeeps == CoreInv /\ Install => CoreInv'
<1> SUFFICES ASSUME CoreInv, Install PROVE CoreInv'
  OBVIOUS
<1>1. TypeInv /\ OrderInv /\ UnsafeInv /\ KeptInv
  BY DEF CoreInv
<1>2. (Moves({"unblock", Undo}) /\ (job'.at = "unblock" \/ replaced' = replaced))
  BY <1>1, GotoLaws, FinishLaws, FailBeforeLaws, NoJobLaws
     DEF Install, Undo, Write, Moves, Ends, Ats, TypeInv, CoreTypeOK
<1>3. job' \in Jobs
  BY <1>2, NoJobLaws DEF Moves, Ends
<1>4. row' \in Rows
  BY <1>1, WrittenLaws DEF Install, Write
<1>5. TypeInv'
  BY <1>1, <1>2, <1>3, JobTypes, <1>4
     DEF Install, Undo, Write, TypeInv, CoreTypeOK, Moves, Ends, Outcomes
<1>6. UnsafeInv'
  BY <1>1 DEF Install, Undo, Write, UnsafeInv
<1>7. PreviousCoreKept'
  BY <1>1 DEF Install, Undo, Write, KeptInv, PreviousCoreKept
<1>8. OrderInv'
  BY <1>1, <1>2 DEF Install, Undo, Write, OrderInv, Moves, Kinds
<1>9. KeptInv'
  BY <1>1, <1>2, <1>7, JobTypes
     DEF Install, Undo, Write, KeptInv, Moves, Replacing, TypeInv, OneOf
<1> QED BY <1>5, <1>6, <1>8, <1>9 DEF CoreInv

LEMMA UnblockKeeps == CoreInv /\ Unblock => CoreInv'
<1> SUFFICES ASSUME CoreInv, Unblock PROVE CoreInv'
  OBVIOUS
<1>1. TypeInv /\ OrderInv /\ UnsafeInv /\ KeptInv
  BY DEF CoreInv
<1>2. Ends /\ save' = save
  BY <1>1, FinishLaws DEF Unblock, background
<1>3. job' \in Jobs /\ staged' \in OneOf
  BY <1>2, NoJobLaws DEF Ends
<1>4. open' \in [Processes -> {"down", "recovered", "adopting", "adopted", "open"}]
      /\ failClosed' \in [Processes -> BOOLEAN] /\ sentinel' \in BOOLEAN
  BY <1>1 DEF Unblock, TypeInv, CoreTypeOK
<1>5. TypeInv'
  BY <1>1, <1>3, <1>4, JobTypes DEF Unblock, TypeInv, CoreTypeOK
<1>6. UnsafeInv'
  BY <1>1 DEF Unblock, UnsafeInv, OrderInv, TypeInv, CoreTypeOK
<1>7. PreviousCoreKept'
  BY <1>1 DEF Unblock, KeptInv, PreviousCoreKept
<1>8. CASE job.kind = "adopt"
  <2>1. job' = NoJob
    BY <1>2, <1>8 DEF Ends
  <2>2. OrderInv'
    BY <1>1, <1>2, <1>8, <2>1, NoJobLaws DEF Unblock, OrderInv, Kinds
  <2>3. KeptInv'
    BY <1>7, <2>1, NoJobLaws DEF KeptInv, Replacing
  <2> QED BY <1>5, <1>6, <2>2, <2>3 DEF CoreInv
<1>9. CASE job.kind # "adopt"
  <2>1. open' = open
    BY <1>9 DEF Unblock
  <2> QED BY <1>2, <1>5, <1>6, <1>7, <2>1, EndsKeep DEF CoreInv
<1> QED BY <1>8, <1>9

-----------------------------------------------------------------------------
\* How operations begin.
LEMMA CheckCoreKeeps ==
  ASSUME CoreInv, NEW p \in Processes, UNCHANGED <<sched, wake>>, CheckCore(p)
  PROVE  CoreInv'
<1>1. TypeInv /\ OrderInv /\ UnsafeInv /\ KeptInv
  BY DEF CoreInv
<1>2. job' \in Jobs /\ job'.by = p /\ job'.kind = "check" /\ job'.at = "resolve"
      /\ job'.had = NoCore /\ staged' \in OneOf
  <2>1. "check" \in Kinds /\ "resolve" \in Ats
    BY DEF Kinds, Ats
  <2>2. job' = Job(p, "check", "resolve") /\ staged' = staged
    BY DEF CheckCore
  <2>3. staged \in OneOf
    BY <1>1 DEF TypeInv, CoreTypeOK
  <2> QED BY <1>1, <2>1, <2>2, <2>3, JobLaws
<1>6. TypeInv'
  BY <1>1, JobTypes, SaveTypes, NoJobLaws, <1>2
     DEF CheckCore, Unstarted, May, Free, TypeInv, CoreTypeOK
<1>7. OrderInv'
  BY <1>1, NoJobLaws, NoSaveLaws, <1>2
     DEF CheckCore, Unstarted, May, Free, OrderInv, Kinds
<1>8. UnsafeInv'
  BY <1>1, <1>2
     DEF CheckCore, Unstarted, May, Free, UnsafeInv, OrderInv, TypeInv, CoreTypeOK
<1>9. KeptInv'
  BY <1>1, NoJobLaws, <1>2
     DEF CheckCore, Unstarted, May, Free, KeptInv, PreviousCoreKept, Replacing
<1> QED BY <1>6, <1>7, <1>8, <1>9 DEF CoreInv

LEMMA UpdateCoreKeeps ==
  ASSUME CoreInv, NEW p \in Processes, NEW kind \in {"update", "auto"},
         sched' \in {"off", "look", "wait", "run"}, wake' = wake, UpdateCore(p, kind)
  PROVE  CoreInv'
<1>1. TypeInv /\ OrderInv /\ UnsafeInv /\ KeptInv
  BY DEF CoreInv
<1>2. job' \in Jobs /\ job'.by = p /\ job'.kind = kind /\ job'.at = "mark"
      /\ job'.had = NoCore /\ staged' \in OneOf
  <2>1. kind \in Kinds /\ "mark" \in Ats
    BY DEF Kinds, Ats
  <2>2. job' = Job(p, kind, "mark") /\ staged' = staged
    BY DEF UpdateCore
  <2>3. staged \in OneOf
    BY <1>1 DEF TypeInv, CoreTypeOK
  <2> QED BY <1>1, <2>1, <2>2, <2>3, JobLaws
<1>6. TypeInv'
  BY <1>1, JobTypes, SaveTypes, NoJobLaws, <1>2
     DEF UpdateCore, Unstarted, May, Free, TypeInv, CoreTypeOK
<1>7. OrderInv'
  BY <1>1, NoJobLaws, NoSaveLaws, <1>2
     DEF UpdateCore, Unstarted, May, Free, OrderInv, Kinds
<1>8. UnsafeInv'
  BY <1>1, <1>2
     DEF UpdateCore, Unstarted, May, Free, UnsafeInv, OrderInv, TypeInv, CoreTypeOK
<1>9. KeptInv'
  BY <1>1, NoJobLaws, <1>2
     DEF UpdateCore, Unstarted, May, Free, KeptInv, PreviousCoreKept, Replacing
<1> QED BY <1>6, <1>7, <1>8, <1>9 DEF CoreInv

LEMMA RollbackCoreKeeps ==
  ASSUME CoreInv, NEW p \in Processes, UNCHANGED <<sched, wake>>, RollbackCore(p)
  PROVE  CoreInv'
<1>1. TypeInv /\ OrderInv /\ UnsafeInv /\ KeptInv
  BY DEF CoreInv
<1>3. LatestBackup \in OneOf
  BY <1>1, PopLaws DEF RollbackCore, LatestBackup, TypeInv, CoreTypeOK, OneOf
<1>2. job' \in Jobs /\ job'.by = p /\ job'.kind = "rollback" /\ job'.at = "backup"
      /\ job'.had = NoCore /\ staged' \in OneOf
  <2> DEFINE j == Job(p, "rollback", "backup")
  <2>4. "rollback" \in Kinds /\ "backup" \in Ats
    BY DEF Kinds, Ats
  <2>1. /\ j \in Jobs /\ j.by = p /\ j.kind = "rollback" /\ j.at = "backup" /\ j.had = NoCore
        /\ [j EXCEPT !.target = LatestBackup] \in Jobs
    BY <1>1, <1>3, <2>4, JobLaws
  <2> HIDE DEF j
  <2>2. /\ [j EXCEPT !.target = LatestBackup].by = p
        /\ [j EXCEPT !.target = LatestBackup].kind = "rollback"
        /\ [j EXCEPT !.target = LatestBackup].at = "backup"
        /\ [j EXCEPT !.target = LatestBackup].had = NoCore
    BY <2>1 DEF Jobs
  <2>3. job' = [j EXCEPT !.target = LatestBackup] /\ staged' = LatestBackup
    BY DEF RollbackCore, j
  <2> QED BY <1>3, <2>1, <2>2, <2>3
<1>6. TypeInv'
  BY <1>1, JobTypes, SaveTypes, NoJobLaws, <1>2
     DEF RollbackCore, Unstarted, May, Free, TypeInv, CoreTypeOK
<1>7. OrderInv'
  BY <1>1, NoJobLaws, NoSaveLaws, <1>2
     DEF RollbackCore, Unstarted, May, Free, OrderInv, Kinds
<1>8. UnsafeInv'
  BY <1>1, <1>2
     DEF RollbackCore, Unstarted, May, Free, UnsafeInv, OrderInv, TypeInv,
         CoreTypeOK
<1>9. KeptInv'
  BY <1>1, NoJobLaws, <1>2
     DEF RollbackCore, Unstarted, May, Free, KeptInv, PreviousCoreKept, Replacing
<1> QED BY <1>6, <1>7, <1>8, <1>9 DEF CoreInv

LEMMA RequestKeeps == CoreInv /\ Request => CoreInv'
  BY CheckCoreKeeps, UpdateCoreKeeps, RollbackCoreKeeps
     DEF Request, CoreInv, TypeInv, CoreTypeOK

LEMMA BootstrapKeeps == CoreInv /\ Bootstrap => CoreInv'
<1> SUFFICES ASSUME CoreInv, Bootstrap PROVE CoreInv'
  OBVIOUS
<1>1. TypeInv /\ OrderInv /\ UnsafeInv /\ KeptInv
  BY DEF CoreInv
<1>2. job' \in Jobs /\ job'.by = Command /\ job'.kind = "bootstrap" /\ job'.at = "validate"
      /\ job'.had = NoCore /\ staged' \in OneOf
  <2> DEFINE j == Job(Command, "bootstrap", "validate")
  <2>4. "bootstrap" \in Kinds /\ "validate" \in Ats
    BY DEF Kinds, Ats
  <2>5. Packaged \in OneOf /\ Command \in Processes
    BY DEF OneOf, Processes
  <2>1. /\ j \in Jobs /\ j.by = Command /\ j.kind = "bootstrap" /\ j.at = "validate" /\ j.had = NoCore
        /\ Packaged \in OneOf /\ [j EXCEPT !.target = Packaged] \in Jobs
    BY <1>1, <2>4, <2>5, JobLaws
  <2> HIDE DEF j
  <2>2. /\ [j EXCEPT !.target = Packaged].by = Command
        /\ [j EXCEPT !.target = Packaged].kind = "bootstrap"
        /\ [j EXCEPT !.target = Packaged].at = "validate"
        /\ [j EXCEPT !.target = Packaged].had = NoCore
    BY <2>1 DEF Jobs
  <2>3. job' = [j EXCEPT !.target = Packaged] /\ staged' = Packaged
    BY DEF Bootstrap, j
  <2> QED BY <2>1, <2>2, <2>3
<1>6. TypeInv'
  BY <1>1, JobTypes, SaveTypes, NoJobLaws, <1>2
     DEF Bootstrap, Free, TypeInv, CoreTypeOK
<1>7. OrderInv'
  BY <1>1, NoJobLaws, NoSaveLaws, <1>2 DEF Bootstrap, Free, OrderInv, Kinds
<1>8. UnsafeInv'
  BY <1>1, <1>2 DEF Bootstrap, Free, UnsafeInv, OrderInv, TypeInv, CoreTypeOK
<1>9. KeptInv'
  BY <1>1, NoJobLaws, <1>2
     DEF Bootstrap, Free, KeptInv, PreviousCoreKept, Replacing
<1> QED BY <1>6, <1>7, <1>8, <1>9 DEF CoreInv

LEMMA AdoptKeeps == CoreInv /\ Adopt => CoreInv'
<1> SUFFICES ASSUME CoreInv, Adopt PROVE CoreInv'
  OBVIOUS
<1>1. TypeInv /\ OrderInv /\ UnsafeInv /\ KeptInv
  BY DEF CoreInv
<1>2. CASE ~(external /\ Free)
  <2>1. TypeInv'
    BY <1>1, <1>2 DEF Adopt, TypeInv, CoreTypeOK
  <2>2. OrderInv'
    BY <1>1, <1>2 DEF Adopt, OrderInv, Kinds, TypeInv, CoreTypeOK
  <2>3. UnsafeInv'
    BY <1>1, <1>2 DEF Adopt, UnsafeInv, TypeInv, CoreTypeOK
  <2>4. KeptInv'
    BY <1>1, <1>2 DEF Adopt, KeptInv, PreviousCoreKept
  <2> QED BY <2>1, <2>2, <2>3, <2>4 DEF CoreInv
<1>3. CASE external /\ Free
  <2>1. job' \in Jobs /\ job'.by = Panel /\ job'.kind = "adopt" /\ job'.at = "validate"
        /\ job'.had = NoCore /\ staged' \in OneOf
    <3> DEFINE j == Job(Panel, "adopt", "validate")
    <3>4. "adopt" \in Kinds \cup {"adopt"} /\ "validate" \in Ats
      BY DEF Ats
    <3>5. Packaged \in OneOf /\ Panel \in Processes
      BY DEF OneOf, Processes
    <3>1. /\ j \in Jobs /\ j.by = Panel /\ j.kind = "adopt" /\ j.at = "validate" /\ j.had = NoCore
          /\ Packaged \in OneOf /\ [j EXCEPT !.target = Packaged] \in Jobs
      BY <1>1, <3>4, <3>5, JobLaws
    <3> HIDE DEF j
    <3>2. /\ [j EXCEPT !.target = Packaged].by = Panel
          /\ [j EXCEPT !.target = Packaged].kind = "adopt"
          /\ [j EXCEPT !.target = Packaged].at = "validate"
          /\ [j EXCEPT !.target = Packaged].had = NoCore
      BY <3>1 DEF Jobs
    <3>3. job' = [j EXCEPT !.target = Packaged] /\ staged' = Packaged
      BY <1>3 DEF Adopt, j
    <3> QED BY <3>1, <3>2, <3>3
  <2>2. /\ open' = [open EXCEPT ![Panel] = "adopting"] /\ open[Panel] = "recovered"
        /\ current = NoCore /\ current' = current /\ save' = save /\ ~save.startup
    BY <1>3 DEF Adopt
  <2>3. TypeInv'
    BY <1>1, <1>3, <2>1, <2>2, JobTypes DEF Adopt, TypeInv, CoreTypeOK
  <2>4. OrderInv'
    BY <1>1, <2>1, <2>2 DEF OrderInv, Kinds, TypeInv, CoreTypeOK
  <2>5. UnsafeInv'
    BY <1>1, <2>2 DEF Adopt, UnsafeInv, TypeInv, CoreTypeOK
  <2>6. KeptInv'
    BY <1>1, <2>1 DEF Adopt, KeptInv, PreviousCoreKept, Replacing
  <2> QED BY <2>3, <2>4, <2>5, <2>6 DEF CoreInv
<1> QED BY <1>2, <1>3

-----------------------------------------------------------------------------
\* Starts, settings and ends of a process.
LEMMA StartKeeps == CoreInv /\ (\E p \in Processes : Start(p)) => CoreInv'
<1> SUFFICES ASSUME CoreInv, NEW p \in Processes, Start(p) PROVE CoreInv'
  OBVIOUS
<1>1. TypeInv /\ OrderInv /\ UnsafeInv /\ KeptInv
  BY DEF CoreInv
<1>2. open[p] = "down" /\ job.kind = "none"
  BY DEF Start, Free
<1>3. \/ job' = NoJob
      \/ /\ job' \in Jobs /\ job'.by = p /\ job'.kind = "recover" /\ job'.at = "reopen"
         /\ job'.had = NoCore
  <2> DEFINE j == Job(p, "recover", "reopen")
  <2>3. "reopen" \in Ats
    BY DEF Ats
  <2>4. row \in Rows
    BY <1>1 DEF TypeInv, CoreTypeOK
  <2>1. /\ j \in Jobs /\ j.by = p /\ j.kind = "recover" /\ j.at = "reopen" /\ j.had = NoCore
        /\ row \in Rows
    BY <1>1, <2>3, <2>4, JobLaws
  <2>2. job' = NoJob \/ job' = [j EXCEPT !.read = TRUE, !.seen = row]
    BY DEF Start, j
  <2> HIDE DEF j
  <2> QED BY <2>1, <2>2 DEF Jobs
<1>4. job' \in Jobs
  BY <1>3, NoJobLaws
<1>5. failClosed' = [failClosed EXCEPT ![p] = sentinel] /\ degraded' \in BOOLEAN
  BY <1>1 DEF Start, TypeInv, CoreTypeOK
<1>6. TypeInv'
  <2>1. failClosed' \in [Processes -> BOOLEAN]
    BY <1>1, <1>5 DEF TypeInv, CoreTypeOK
  <2>2. /\ staged' = NoCore /\ failed' = NoCore
        /\ UNCHANGED <<current, backups, sentinel, row, settings, external,
                       pendingRestart, running, open, background, observed>>
    BY DEF Start
  <2>3. staged' \in OneOf /\ failed' \in OneOf
    BY <2>2 DEF OneOf
  <2> QED BY <1>1, <1>4, <1>5, <2>1, <2>2, <2>3, JobTypes
     DEF TypeInv, CoreTypeOK, background, observed
<1>7. OrderInv'
  BY <1>1, <1>2, <1>3, NoJobLaws DEF Start, OrderInv, Kinds
<1>8. UnsafeInv'
  BY <1>1, <1>2, <1>5 DEF Start, UnsafeInv, TypeInv, CoreTypeOK
<1>9. KeptInv'
  BY <1>1, <1>3, NoJobLaws DEF Start, KeptInv, PreviousCoreKept, Replacing
<1> QED BY <1>6, <1>7, <1>8, <1>9 DEF CoreInv

LEMMA ReopenKeeps == CoreInv /\ Reopen => CoreInv'
<1> SUFFICES ASSUME CoreInv, Reopen PROVE CoreInv'
  OBVIOUS
<1>1. TypeInv /\ OrderInv /\ UnsafeInv /\ KeptInv
  BY DEF CoreInv
<1>2. /\ job.at = "reopen" /\ job' = NoJob /\ row' \in {row} \cup Rows
      /\ open' \in {[open EXCEPT ![job.by] = o] : o \in {"down", "recovered", "open"}}
      /\ replaced' \in {replaced, "no"} /\ good' \in {good, current}
  <2>1. /\ [job.seen EXCEPT !.updating = FALSE] \in Rows /\ current \in OneOf /\ job.seen \in Rows
    BY <1>1, WrittenLaws DEF TypeInv, CoreTypeOK
  <2> DEFINE c == IF current = NoCore THEN job.seen.current ELSE current
  <2>2. c \in OneOf
    BY <2>1, CurrentLaws
  <2>3. [job.seen EXCEPT !.updating = FALSE,
                         !.current = IF current = NoCore THEN @ ELSE current]
          = [job.seen EXCEPT !.current = c, !.updating = FALSE]
    BY <2>1 DEF Rows
  <2>4. [job.seen EXCEPT !.updating = FALSE,
                         !.current = IF current = NoCore THEN @ ELSE current] \in Rows
    <3> HIDE DEF c
    <3> QED BY <2>1, <2>2, <2>3, CurrentLaws
  <2> QED BY <2>4 DEF Reopen
<1>4. job.kind = "recover" /\ job.by \in Processes /\ open[job.by] = "down"
  BY <1>1, <1>2, JobTypes DEF OrderInv, TypeInv
<1>6. TypeInv'
  BY <1>1, <1>2, <1>4, NoJobLaws, JobTypes DEF Reopen, TypeInv, CoreTypeOK
<1>7. OrderInv'
  BY <1>1, <1>2, <1>4, NoJobLaws
     DEF Reopen, OrderInv, Kinds, TypeInv, CoreTypeOK
<1>8. UnsafeInv'
  BY <1>1, <1>2, <1>4 DEF Reopen, UnsafeInv, TypeInv, CoreTypeOK
<1>9. KeptInv'
  BY <1>1, <1>2, NoJobLaws DEF Reopen, KeptInv, PreviousCoreKept, Replacing
<1> QED BY <1>6, <1>7, <1>8, <1>9 DEF CoreInv

LEMMA SetMihomoBinaryPathKeeps == CoreInv /\ SetMihomoBinaryPath => CoreInv'
<1> SUFFICES ASSUME CoreInv, SetMihomoBinaryPath PROVE CoreInv'
  OBVIOUS
<1>1. TypeInv /\ OrderInv /\ UnsafeInv /\ KeptInv
  BY DEF CoreInv
<1>6. TypeInv'
  BY <1>1, JobTypes, SaveTypes, NoJobLaws
     DEF SetMihomoBinaryPath, Free, TypeInv, CoreTypeOK
<1>7. OrderInv'
  BY <1>1, NoJobLaws, NoSaveLaws DEF SetMihomoBinaryPath, Free, OrderInv, Kinds
<1>8. UnsafeInv'
  BY <1>1
     DEF SetMihomoBinaryPath, Free, UnsafeInv, OrderInv, TypeInv, CoreTypeOK
<1>9. KeptInv'
  BY <1>1, NoJobLaws
     DEF SetMihomoBinaryPath, Free, KeptInv, PreviousCoreKept, Replacing
<1> QED BY <1>6, <1>7, <1>8, <1>9 DEF CoreInv

LEMMA ScheduleStartupCheckKeeps == CoreInv /\ ScheduleStartupCheck => CoreInv'
<1> SUFFICES ASSUME CoreInv, ScheduleStartupCheck PROVE CoreInv'
  OBVIOUS
<1>1. TypeInv /\ OrderInv /\ UnsafeInv /\ KeptInv
  BY DEF CoreInv
<1>2. save' = save \/ (save' \in Saves /\ save'.at = "read" /\ save'.startup /\ save'.by = Panel)
  <2>1. \/ save' = save
        \/ save' = [NoSave EXCEPT !.at = "read", !.startup = TRUE, !.want = settings]
    BY DEF ScheduleStartupCheck
  <2>2. settings \in Settings
    BY <1>1 DEF TypeInv, CoreTypeOK
  <2> QED BY <2>1, <2>2, NoSaveLaws DEF Saves
<1>3. save.at = "none" /\ open[Panel] = "recovered"
  BY DEF ScheduleStartupCheck
<1>6. TypeInv'
  BY <1>1, JobTypes, SaveTypes, NoJobLaws, <1>2, <1>3
     DEF ScheduleStartupCheck, TypeInv, CoreTypeOK
<1>7. OrderInv'
  <2>1. ~save.startup
    BY <1>1, <1>3 DEF OrderInv
  <2>2. CASE settings.auto
    BY <1>1, <1>2, <1>3, <2>1, <2>2
       DEF ScheduleStartupCheck, files, NoSave, OrderInv, Kinds
  <2>3. CASE ~settings.auto
    BY <1>1, <1>2, <1>3, <2>1, <2>3
       DEF ScheduleStartupCheck, files, OrderInv, Kinds, TypeInv, CoreTypeOK
  <2> QED BY <2>2, <2>3
<1>8. UnsafeInv'
  BY <1>1, <1>2, <1>3
     DEF ScheduleStartupCheck, UnsafeInv, OrderInv, TypeInv, CoreTypeOK
<1>9. KeptInv'
  BY <1>1, NoJobLaws, <1>2, <1>3
     DEF ScheduleStartupCheck, KeptInv, PreviousCoreKept, Replacing
<1> QED BY <1>6, <1>7, <1>8, <1>9 DEF CoreInv

LEMMA DieKeeps ==
  ASSUME CoreInv, NEW p \in Processes, Die(p)
  PROVE  CoreInv'
<1>1. TypeInv /\ OrderInv /\ UnsafeInv /\ KeptInv
  BY DEF CoreInv
<1>2. /\ job' = NoJob \/ (job' = job /\ job.by # p)
      /\ save' = NoSave \/ (save' = save /\ save.by # p)
      /\ sched' \in {"off", sched} /\ wake' \in {FALSE, wake} /\ running' \in {running, NoCore}
      /\ unsafe' \in {unsafe, "no"} /\ unsafe' # p
  BY <1>1 DEF Die, UnsafeInv
<1>6. TypeInv'
  <2>1. job' \in Jobs /\ save' \in Saves
    BY <1>1, <1>2, NoJobLaws, NoSaveLaws DEF TypeInv
  <2>2. /\ open' \in [Processes -> {"down", "recovered", "adopting", "adopted", "open"}]
        /\ failClosed' \in [Processes -> BOOLEAN]
    BY <1>1 DEF Die, TypeInv, CoreTypeOK
  <2>3. wake' \in BOOLEAN
    BY <1>1 DEF Die, TypeInv, CoreTypeOK
  <2>4. UNCHANGED <<files, sentinel, degraded, row, settings, external,
                    pendingRestart, good, replaced>>
    BY DEF Die
  <2> QED BY <1>1, <1>2, <2>1, <2>2, <2>3, <2>4, JobTypes, SaveTypes
          DEF TypeInv, CoreTypeOK, OneOf
<1>7. OrderInv'
  BY <1>1, <1>2, NoJobLaws, NoSaveLaws
     DEF Die, OrderInv, Kinds, TypeInv, CoreTypeOK
<1>8. UnsafeInv'
  BY <1>1, <1>2 DEF Die, UnsafeInv, TypeInv, CoreTypeOK
<1>9. KeptInv'
  BY <1>1, <1>2, NoJobLaws DEF Die, KeptInv, PreviousCoreKept, Replacing
<1> QED BY <1>6, <1>7, <1>8, <1>9 DEF CoreInv

LEMMA AskSettingsKeeps ==
  ASSUME CoreInv, NEW p \in Processes, AskSettings(p)
  PROVE  CoreInv'
<1>1. TypeInv /\ OrderInv /\ UnsafeInv /\ KeptInv
  BY DEF CoreInv
<1>2. save' \in Saves /\ ~save'.startup
  BY <1>1, NoSaveLaws
     DEF AskSettings, Saves, NoSave, TypeInv, CoreTypeOK, Settings
<1>6. TypeInv'
  BY <1>1, JobTypes, SaveTypes, NoJobLaws, <1>2
     DEF AskSettings, TypeInv, CoreTypeOK
<1>7. OrderInv'
  BY <1>1, NoJobLaws, NoSaveLaws, <1>2 DEF AskSettings, OrderInv, Kinds
<1>8. UnsafeInv'
  BY <1>1, <1>2 DEF AskSettings, UnsafeInv, OrderInv, TypeInv, CoreTypeOK
<1>9. KeptInv'
  BY <1>1, NoJobLaws, <1>2 DEF AskSettings, KeptInv, PreviousCoreKept, Replacing
<1> QED BY <1>6, <1>7, <1>8, <1>9 DEF CoreInv

LEMMA ReadSettingsRowKeeps == CoreInv /\ ReadSettingsRow => CoreInv'
<1> SUFFICES ASSUME CoreInv, ReadSettingsRow PROVE CoreInv'
  OBVIOUS
<1>1. TypeInv /\ OrderInv /\ UnsafeInv /\ KeptInv
  BY DEF CoreInv
<1>2. save' \in Saves /\ save'.startup = save.startup /\ save'.at = "write" /\ save'.by = save.by
  BY <1>1 DEF ReadSettingsRow, Saves, TypeInv, CoreTypeOK
<1>6. TypeInv'
  BY <1>1, JobTypes, SaveTypes, NoJobLaws, <1>2
     DEF ReadSettingsRow, TypeInv, CoreTypeOK
<1>7. OrderInv'
  BY <1>1, NoJobLaws, NoSaveLaws, <1>2 DEF ReadSettingsRow, OrderInv, Kinds
<1>8. UnsafeInv'
  BY <1>1, <1>2 DEF ReadSettingsRow, UnsafeInv, OrderInv, TypeInv, CoreTypeOK
<1>9. KeptInv'
  BY <1>1, NoJobLaws, <1>2
     DEF ReadSettingsRow, KeptInv, PreviousCoreKept, Replacing
<1> QED BY <1>6, <1>7, <1>8, <1>9 DEF CoreInv

LEMMA SaveSettingsKeeps == CoreInv /\ SaveSettings => CoreInv'
<1> SUFFICES ASSUME CoreInv, SaveSettings PROVE CoreInv'
  OBVIOUS
<1>1. TypeInv /\ OrderInv /\ UnsafeInv /\ KeptInv
  BY DEF CoreInv
<1>2. PICK ok \in Outcomes("save"), next \in NextCheck :
        /\ row' = IF ~ok THEN row
                  ELSE [save.seen EXCEPT !.next = next,
                          !.available = IF save.startup \/ save.want.channel = save.was
                                        THEN @ ELSE NoCore]
        /\ settings' = IF ok /\ ~save.startup THEN save.want ELSE settings
        /\ wake' = (wake \/ (ok /\ save.by = Panel))
        /\ open' = IF ~save.startup THEN open
                   ELSE [open EXCEPT ![Panel] = IF ok THEN "open" ELSE "down"]
        /\ sched' = IF save.startup /\ ok THEN "look" ELSE sched
  BY DEF SaveSettings
<1>3. save' = NoSave /\ save \in Saves /\ next \in {"none", "due", "later"}
  BY <1>1, <1>2 DEF SaveSettings, NextCheck, TypeInv
<1>4. row' \in Rows
  <2> DEFINE a == IF save.startup \/ save.want.channel = save.was
                  THEN save.seen.available ELSE NoCore
  <2>1. save.seen \in Rows /\ row \in Rows
    BY <1>1, <1>3, SaveTypes DEF TypeInv, CoreTypeOK
  <2>2. a \in OneOf
    BY <2>1, CurrentLaws DEF OneOf
  <2>3. row' = IF ~ok THEN row ELSE [save.seen EXCEPT !.next = next, !.available = a]
    BY <1>2
  <2> HIDE DEF a
  <2> QED BY <1>3, <2>1, <2>2, <2>3, NextLaws
<1>5. /\ settings' \in Settings /\ wake' \in BOOLEAN
      /\ open' \in [Processes -> {"down", "recovered", "adopting", "adopted", "open"}]
      /\ sched' \in {"off", "look", "wait", "run"}
  BY <1>1, <1>2, <1>3, SaveTypes DEF TypeInv, CoreTypeOK
<1>6. TypeInv'
  BY <1>1, <1>3, <1>4, <1>5, NoSaveLaws, SaveTypes
     DEF SaveSettings, TypeInv, CoreTypeOK
<1>7. OrderInv'
  BY <1>1, <1>2, <1>3, NoSaveLaws
     DEF SaveSettings, OrderInv, Kinds, TypeInv, CoreTypeOK
<1>8. UnsafeInv'
  BY <1>1, <1>2 DEF SaveSettings, UnsafeInv, OrderInv, TypeInv, CoreTypeOK
<1>9. KeptInv'
  BY <1>1 DEF SaveSettings, KeptInv, PreviousCoreKept
<1> QED BY <1>6, <1>7, <1>8, <1>9 DEF CoreInv

LEMMA LookKeeps == CoreInv /\ Look => CoreInv'
<1> SUFFICES ASSUME CoreInv, Look PROVE CoreInv'
  OBVIOUS
<1>1. TypeInv /\ OrderInv /\ UnsafeInv /\ KeptInv
  BY DEF CoreInv
<1>2. CASE UpdateCore(Panel, "auto") /\ sched' = "run"
  BY <1>2, UpdateCoreKeeps DEF Look
<1>3. CASE ~(UpdateCore(Panel, "auto") /\ sched' = "run")
  <2>1. /\ sched' = "wait" /\ wake' = wake
        /\ UNCHANGED <<files, blocks, row, settings, external, pendingRestart,
                       running, open, job, save, observed>>
    BY <1>3 DEF Look
  <2>2. TypeInv'
    BY <1>1, <2>1 DEF TypeInv, CoreTypeOK
  <2>3. OrderInv'
    BY <1>1, <2>1 DEF OrderInv
  <2>4. UnsafeInv'
    BY <1>1, <2>1 DEF UnsafeInv
  <2>5. KeptInv'
    BY <1>1, <2>1 DEF KeptInv, PreviousCoreKept
  <2> QED BY <2>2, <2>3, <2>4, <2>5 DEF CoreInv
<1> QED BY <1>2, <1>3

LEMMA UpdateReturnsKeeps == CoreInv /\ UpdateReturns => CoreInv'
<1> SUFFICES ASSUME CoreInv, UpdateReturns PROVE CoreInv'
  OBVIOUS
<1>1. TypeInv /\ OrderInv /\ UnsafeInv /\ KeptInv
  BY DEF CoreInv
<1>6. TypeInv'
  BY <1>1, JobTypes, SaveTypes, NoJobLaws DEF UpdateReturns, TypeInv, CoreTypeOK
<1>7. OrderInv'
  BY <1>1, NoJobLaws, NoSaveLaws DEF UpdateReturns, OrderInv, Kinds
<1>8. UnsafeInv'
  BY <1>1 DEF UpdateReturns, UnsafeInv, OrderInv, TypeInv, CoreTypeOK
<1>9. KeptInv'
  BY <1>1, NoJobLaws DEF UpdateReturns, KeptInv, PreviousCoreKept, Replacing
<1> QED BY <1>6, <1>7, <1>8, <1>9 DEF CoreInv

LEMMA WakeKeeps == CoreInv /\ Wake => CoreInv'
<1> SUFFICES ASSUME CoreInv, Wake PROVE CoreInv'
  OBVIOUS
<1>1. TypeInv /\ OrderInv /\ UnsafeInv /\ KeptInv
  BY DEF CoreInv
<1>6. TypeInv'
  BY <1>1, JobTypes, SaveTypes, NoJobLaws DEF Wake, TypeInv, CoreTypeOK
<1>7. OrderInv'
  BY <1>1, NoJobLaws, NoSaveLaws DEF Wake, OrderInv, Kinds
<1>8. UnsafeInv'
  BY <1>1 DEF Wake, UnsafeInv, OrderInv, TypeInv, CoreTypeOK
<1>9. KeptInv'
  BY <1>1, NoJobLaws DEF Wake, KeptInv, PreviousCoreKept, Replacing
<1> QED BY <1>6, <1>7, <1>8, <1>9 DEF CoreInv

LEMMA PollKeeps == CoreInv /\ Poll => CoreInv'
<1> SUFFICES ASSUME CoreInv, Poll PROVE CoreInv'
  OBVIOUS
<1>1. TypeInv /\ OrderInv /\ UnsafeInv /\ KeptInv
  BY DEF CoreInv
<1>6. TypeInv'
  BY <1>1, JobTypes, SaveTypes, NoJobLaws DEF Poll, TypeInv, CoreTypeOK
<1>7. OrderInv'
  BY <1>1, NoJobLaws, NoSaveLaws DEF Poll, OrderInv, Kinds
<1>8. UnsafeInv'
  BY <1>1 DEF Poll, UnsafeInv, OrderInv, TypeInv, CoreTypeOK
<1>9. KeptInv'
  BY <1>1, NoJobLaws DEF Poll, KeptInv, PreviousCoreKept, Replacing
<1> QED BY <1>6, <1>7, <1>8, <1>9 DEF CoreInv

LEMMA TimePassesKeeps == CoreInv /\ TimePasses => CoreInv'
<1> SUFFICES ASSUME CoreInv, TimePasses PROVE CoreInv'
  OBVIOUS
<1>1. TypeInv /\ OrderInv /\ UnsafeInv /\ KeptInv
  BY DEF CoreInv
<1>2. row' \in Rows
  BY <1>1 DEF TimePasses, TypeInv, CoreTypeOK, Rows
<1>6. TypeInv'
  BY <1>1, <1>2 DEF TimePasses, TypeInv, CoreTypeOK
<1>7. OrderInv'
  BY <1>1, NoJobLaws, NoSaveLaws, NextLaws DEF TimePasses, OrderInv, Kinds
<1>8. UnsafeInv'
  BY <1>1, NextLaws DEF TimePasses, UnsafeInv, OrderInv, TypeInv, CoreTypeOK
<1>9. KeptInv'
  BY <1>1, NoJobLaws, NextLaws
     DEF TimePasses, KeptInv, PreviousCoreKept, Replacing
<1> QED BY <1>6, <1>7, <1>8, <1>9 DEF CoreInv

LEMMA OtherHolderKeeps == CoreInv /\ OtherHolder => CoreInv'
<1> SUFFICES ASSUME CoreInv, OtherHolder PROVE CoreInv'
  OBVIOUS
<1>1. TypeInv /\ OrderInv /\ UnsafeInv /\ KeptInv
  BY DEF CoreInv
<1>6. TypeInv'
  <2>1. pendingRestart' \in BOOLEAN /\ running' \in {running, current}
    BY DEF OtherHolder, Blocked
  <2> QED BY <1>1, <2>1 DEF OtherHolder, TypeInv, CoreTypeOK
<1>7. OrderInv'
  BY <1>1, NoJobLaws, NoSaveLaws DEF OtherHolder, OrderInv, Kinds
<1>8. UnsafeInv'
  BY <1>1 DEF OtherHolder, UnsafeInv, OrderInv, TypeInv, CoreTypeOK
<1>9. KeptInv'
  BY <1>1, NoJobLaws DEF OtherHolder, KeptInv, PreviousCoreKept, Replacing
<1> QED BY <1>6, <1>7, <1>8, <1>9 DEF CoreInv

LEMMA ReconcileKeeps == CoreInv /\ Reconcile => CoreInv'
<1> SUFFICES ASSUME CoreInv, Reconcile PROVE CoreInv'
  OBVIOUS
<1>1. TypeInv /\ OrderInv /\ UnsafeInv /\ KeptInv
  BY DEF CoreInv
<1>6. TypeInv'
  BY <1>1, JobTypes, SaveTypes, NoJobLaws DEF Reconcile, TypeInv, CoreTypeOK
<1>7. OrderInv'
  BY <1>1, NoJobLaws, NoSaveLaws DEF Reconcile, OrderInv, Kinds
<1>8. UnsafeInv'
  BY <1>1 DEF Reconcile, UnsafeInv, OrderInv, TypeInv, CoreTypeOK
<1>9. KeptInv'
  BY <1>1, NoJobLaws DEF Reconcile, KeptInv, PreviousCoreKept, Replacing
<1> QED BY <1>6, <1>7, <1>8, <1>9 DEF CoreInv

-----------------------------------------------------------------------------
LEMMA CoreInvInit == CoreInit => CoreInv
<1> SUFFICES ASSUME CoreInit PROVE CoreInv
  OBVIOUS
<1>1. PICK c \in {NoCore, Packaged} :
        /\ current = c /\ good = c /\ external = (c = NoCore)
        /\ row = [NoRow EXCEPT !.current = c]
  BY DEF CoreInit
<1>2. c \in OneOf /\ row \in Rows
  BY <1>1, NoJobLaws, CurrentLaws DEF OneOf
<1>3. backups \in Seq(Cores) /\ external \in BOOLEAN
  BY <1>1 DEF CoreInit
<1>4. TypeInv
  BY <1>1, <1>2, <1>3, NoJobLaws, NoSaveLaws, JobTypes, SaveTypes
     DEF CoreInit, TypeInv, CoreTypeOK, OneOf, Settings
<1>5. OrderInv
  BY NoJobLaws, NoSaveLaws DEF CoreInit, OrderInv, Kinds
<1>6. UnsafeInv /\ KeptInv
  BY NoJobLaws DEF CoreInit, UnsafeInv, KeptInv, PreviousCoreKept, Replacing
<1> QED BY <1>4, <1>5, <1>6 DEF CoreInv

LEMMA CoreInvNext == CoreInv /\ [CoreNext]_coreVars => CoreInv'
<1> SUFFICES ASSUME CoreInv, [CoreNext]_coreVars PROVE CoreInv'
  OBVIOUS
<1>1. CASE Step
  BY <1>1, ReadRowKeeps, MarkUpdateKeeps, ResolveKeeps, SaveCheckKeeps, SaveNoopKeeps,
     StageKeeps, ValidateKeeps, BackupKeeps, SwitchKeeps, PruneKeeps, RestartKeeps,
     CommitKeeps, RemoveKeeps, RestoreKeeps, SwapKeeps, AgainKeeps, SaveRestoredKeeps,
     MarkFailClosedKeeps, MarkDegradedKeeps, RecordFailureKeeps, ClearMarkerKeeps,
     InstallKeeps, UnblockKeeps, ReopenKeeps DEF Step
<1>2. CASE Request \/ Bootstrap \/ Adopt \/ SetMihomoBinaryPath \/ ScheduleStartupCheck
  BY <1>2, RequestKeeps, BootstrapKeeps, AdoptKeeps, SetMihomoBinaryPathKeeps,
     ScheduleStartupCheckKeeps
<1>3. CASE \E p \in Processes : Start(p) \/ Crash(p) \/ AskSettings(p)
  BY <1>3, StartKeeps, DieKeeps, AskSettingsKeeps DEF Crash
<1>4. CASE CommandReturns
  BY <1>4, DieKeeps DEF CommandReturns
<1>5. CASE ReadSettingsRow \/ SaveSettings \/ Schedule
  BY <1>5, ReadSettingsRowKeeps, SaveSettingsKeeps, LookKeeps, UpdateReturnsKeeps,
     WakeKeeps, PollKeeps DEF Schedule
<1>6. CASE TimePasses \/ OtherHolder \/ Reconcile
  BY <1>6, TimePassesKeeps, OtherHolderKeeps, ReconcileKeeps
<1>7. CASE UNCHANGED coreVars
  BY <1>7 DEF coreVars, CoreInv, TypeInv, CoreTypeOK, OrderInv, UnsafeInv,
     KeptInv, PreviousCoreKept
<1> QED BY <1>1, <1>2, <1>3, <1>4, <1>5, <1>6, <1>7 DEF CoreNext

THEOREM CoreInvHolds == CoreSpec => []CoreInv
  BY CoreInvInit, CoreInvNext, PTL DEF CoreSpec

\* Rows, files, marker and operations keep their types, whatever fails or crashes.
THEOREM CoreTypeCorrect == CoreSpec => []CoreTypeOK
<1>1. CoreInv => CoreTypeOK
  BY DEF CoreInv, TypeInv
<1> QED BY <1>1, CoreInvHolds, PTL

\* Whatever fails, and in whichever process: after a failed restore every process
\* that can know of it refuses to check, to update, to roll back and to publish.
THEOREM FailedRestoreBlocks == CoreSpec => []UnsafeCoreBlocked
<1>1. CoreInv => UnsafeCoreBlocked
  BY DEF CoreInv, UnsafeInv, UnsafeCoreBlocked, Blocked, TypeInv, CoreTypeOK
<1> QED BY <1>1, CoreInvHolds, PTL

\* The core that an activation replaced is never lost before the activation is
\* committed or undone, across failures, crashes and prunings.
THEOREM ReplacedCoreIsKept == CoreSpec => []PreviousCoreKept
<1>1. CoreInv => PreviousCoreKept
  BY DEF CoreInv, KeptInv
<1> QED BY <1>1, CoreInvHolds, PTL

-----------------------------------------------------------------------------
(***************************************************************************)
(* Between operations the core is settled, while settings are not saved    *)
(* beside an operation.  An activation keeps, from its first rename until  *)
(* it is committed or undone, the core it replaced in replaced: so where   *)
(* replaced is "no" the directory, the row and the observation agree, even *)
(* inside an operation, and an undone activation returns to the core they  *)
(* agreed on.                                                              *)
(***************************************************************************)
AgreeInv == replaced = "no" => current = good /\ row.current = current

\* What an activation that found everything settled may go back to: an
\* installation that fails has not written the row.
BackInv ==
  job.at \in Replacing /\ ~job.cut =>
    /\ job.had = good
    /\ Installing \/ job.at = "switch" => row.current = job.had

\* Which core the directory holds at each step.
PlacedInv ==
  /\ job.at \in {"validate", "backup", "switch"} => staged = job.target
  /\ job.at \in {"prune", "restart", "commit", "install"} => current = job.target
  /\ job.at \in {"again", "restored"} => current = job.had
  /\ job.at \in {"restart", "commit", "again", "restored"} => ~Installing

\* Nobody writes the row between the reading of a statement and its writing.
ReadInv ==
  /\ job.read => job.seen.current = row.current
  /\ save.at = "write" => save.seen.current = row.current
  /\ Free \/ save.at = "none"

SettledInv == AgreeInv /\ BackInv /\ PlacedInv /\ ReadInv

LEMMA RowCurrent ==
  ASSUME NEW r \in Rows, NEW c \in OneOf, NEW u \in BOOLEAN,
         NEW n \in {"none", "due", "later"}
  PROVE  /\ [r EXCEPT !.updating = u].current = r.current
         /\ [r EXCEPT !.next = n].current = r.current
         /\ [r EXCEPT !.next = n, !.available = c].current = r.current
         /\ \A ch \in Channels :
              [r EXCEPT !.asked = ch, !.next = n, !.available = c].current = r.current
         /\ [r EXCEPT !.current = c].current = c
         /\ [r EXCEPT !.current = c, !.updating = FALSE].current = c
         /\ [r EXCEPT !.updating = FALSE, !.current = c].current = c
         /\ [r EXCEPT !.current = c, !.available = c, !.updating = FALSE].current = c
  BY DEF Rows

\* How an operation goes on, and how it ends.
Same ==
  /\ job'.had = job.had /\ job'.cut = job.cut /\ job'.kind = job.kind
  /\ job'.target = job.target /\ ~job'.read

LEMMA GotoSame ==
  ASSUME TypeInv, NEW at \in Ats, Goto(at)
  PROVE  Same /\ job'.at = at
  BY DEF Goto, Same, TypeInv, Jobs

Stops == job'.at \in {"none", "record", "clear"} /\ ~job'.read

LEMMA NoJobStops == job' = NoJob => Stops
  BY DEF NoJob, Stops

LEMMA FinishStops == TypeInv /\ Finish => Stops
<1> SUFFICES ASSUME TypeInv, Finish PROVE Stops
  OBVIOUS
<1>1. CASE Updating
  <2>1. Goto("clear") /\ "clear" \in Ats
    BY <1>1 DEF Finish, Ats
  <2> QED BY <2>1, GotoSame DEF Same, Stops
<1>2. CASE ~Updating
  BY <1>2, NoJobStops DEF Finish
<1> QED BY <1>1, <1>2

LEMMA FailBeforeStops == TypeInv /\ FailBefore => Stops
<1> SUFFICES ASSUME TypeInv, FailBefore PROVE Stops
  OBVIOUS
<1>1. CASE Updating
  <2>1. Goto("record") /\ "record" \in Ats
    BY <1>1 DEF FailBefore, Ats
  <2> QED BY <2>1, GotoSame DEF Same, Stops
<1>2. CASE ~Updating
  BY <1>2, FinishStops DEF FailBefore
<1> QED BY <1>1, <1>2

\* An operation that runs has no settings request beside it.
LEMMA AloneLaws ==
  ASSUME CoreInv, SettledInv, job.at # "none"
  PROVE  save.at = "none" /\ ~Free
  BY DEF CoreInv, OrderInv, SettledInv, ReadInv, Free

LEMMA StopsSettle ==
  ASSUME CoreInv, SettledInv, Stops, job.at # "none", save' = save, AgreeInv'
  PROVE  SettledInv'
  BY AloneLaws DEF SettledInv, Stops, BackInv, PlacedInv, ReadInv, Replacing, Free

\* A step outside the activation that leaves the core and the row's core alone.
LEMMA GoesOnSettled ==
  ASSUME CoreInv, SettledInv, Same, job.at # "none", save' = save,
         UNCHANGED <<current, good, replaced>>, row'.current = row.current,
         job'.at \in {"resolve", "noop", "stage", "degrade", "clear"}
  PROVE  SettledInv'
<1>1. AgreeInv'
  BY DEF SettledInv, AgreeInv
<1>2. BackInv' /\ PlacedInv'
  BY DEF BackInv, PlacedInv, Replacing
<1>3. ReadInv'
  BY AloneLaws DEF ReadInv, Same
<1> QED BY <1>1, <1>2, <1>3 DEF SettledInv

LEMMA WrittenCurrent ==
  ASSUME TypeInv
  PROVE  /\ Checked.current = job.seen.current
         /\ Committed.current = job.target
         /\ [job.seen EXCEPT !.updating = TRUE].current = job.seen.current
         /\ [job.seen EXCEPT !.updating = FALSE].current = job.seen.current
         /\ [job.seen EXCEPT !.current = job.target].current = job.target
         /\ [job.seen EXCEPT !.current = job.had, !.updating = FALSE].current = job.had
         /\ [job.seen EXCEPT !.current = current, !.updating = FALSE].current = current
<1>1. job.seen \in Rows /\ job.target \in OneOf /\ job.had \in OneOf /\ current \in OneOf
      /\ job.channel \in Channels
  BY JobTypes DEF TypeInv, CoreTypeOK, Jobs
<1>2. Checked.current = job.seen.current
  <2> DEFINE a == IF job.target = NoCore THEN job.seen.available ELSE job.target
  <2>1. a \in OneOf
    BY <1>1, CurrentLaws
  <2>2. Checked = [job.seen EXCEPT !.asked = job.channel, !.next = "later",
                                   !.available = a]
    BY DEF Checked
  <2> HIDE DEF a
  <2> QED BY <1>1, <2>1, <2>2, RowCurrent
<1>3. Committed.current = job.target
  BY <1>1, RowCurrent DEF Committed
<1> QED BY <1>1, <1>2, <1>3, RowCurrent


LEMMA ReadRowSettles == CoreInv /\ SettledInv /\ ReadRow => SettledInv'
<1> SUFFICES ASSUME CoreInv, SettledInv, ReadRow PROVE SettledInv'
  OBVIOUS
<1>1. TypeInv /\ OrderInv /\ KeptInv /\ AgreeInv /\ BackInv /\ PlacedInv /\ ReadInv
  BY DEF CoreInv, SettledInv
<1>2. /\ job' = [job EXCEPT !.read = TRUE, !.seen = row] /\ job.at # "none"
      /\ UNCHANGED <<files, observed, row, save>>
  BY DEF ReadRow
<1>3. /\ job'.at = job.at /\ job'.kind = job.kind /\ job'.had = job.had /\ job'.cut = job.cut
      /\ job'.target = job.target /\ job'.seen = row
  BY <1>1, <1>2 DEF TypeInv, Jobs
<1>4. AgreeInv' /\ BackInv' /\ PlacedInv'
  BY <1>1, <1>2, <1>3 DEF AgreeInv, BackInv, PlacedInv, Installing
<1>5. ReadInv'
  BY <1>2, <1>3, AloneLaws DEF ReadInv
<1> QED BY <1>4, <1>5 DEF SettledInv

LEMMA MarkUpdateSettles == CoreInv /\ SettledInv /\ MarkUpdate => SettledInv'
<1> SUFFICES ASSUME CoreInv, SettledInv, MarkUpdate PROVE SettledInv'
  OBVIOUS
<1>1. TypeInv /\ OrderInv /\ KeptInv /\ AgreeInv /\ BackInv /\ PlacedInv /\ ReadInv
  BY DEF CoreInv, SettledInv
<1>2. PICK ok \in Outcomes("mark") :
        /\ Write("mark", [job.seen EXCEPT !.updating = TRUE], ok)
        /\ IF ok THEN Goto("resolve") ELSE job' = NoJob
        /\ UNCHANGED <<files, blocks, running, observed>>
  BY DEF MarkUpdate
<1>3. row'.current = row.current /\ job.at = "mark" /\ save' = save
  BY <1>1, <1>2, WrittenCurrent DEF Write, ReadInv
<1>4. AgreeInv'
  BY <1>1, <1>2, <1>3 DEF AgreeInv
<1>5. CASE ok
  <2>1. Same /\ job'.at = "resolve"
    BY <1>1, <1>2, <1>5, GotoSame DEF Ats
  <2> QED BY <1>2, <1>3, <2>1, GoesOnSettled DEF Replacing
<1>6. CASE ~ok
  BY <1>2, <1>3, <1>4, <1>6, NoJobStops, StopsSettle
<1> QED BY <1>5, <1>6

LEMMA ResolveSettles == CoreInv /\ SettledInv /\ Resolve => SettledInv'
<1> SUFFICES ASSUME CoreInv, SettledInv, Resolve PROVE SettledInv'
  OBVIOUS
<1>1. TypeInv /\ OrderInv /\ KeptInv /\ AgreeInv /\ BackInv /\ PlacedInv /\ ReadInv
  BY DEF CoreInv, SettledInv
<1>2. PICK c \in Builds[job.channel] \cup {NoCore} :
        job' = [job EXCEPT !.at = "check", !.target = c]
  BY DEF Resolve
<1>3. /\ job'.at = "check" /\ job'.read = job.read /\ job'.seen = job.seen
      /\ job.at = "resolve" /\ UNCHANGED <<files, observed, row, save>>
  BY <1>1, <1>2 DEF Resolve, TypeInv, Jobs
<1>4. AgreeInv' /\ BackInv' /\ PlacedInv'
  BY <1>1, <1>3 DEF AgreeInv, BackInv, PlacedInv, Replacing
<1>5. ReadInv'
  BY <1>1, <1>3, AloneLaws DEF ReadInv
<1> QED BY <1>4, <1>5 DEF SettledInv

LEMMA SaveCheckSettles == CoreInv /\ SettledInv /\ SaveCheck => SettledInv'
<1> SUFFICES ASSUME CoreInv, SettledInv, SaveCheck PROVE SettledInv'
  OBVIOUS
<1>1. TypeInv /\ OrderInv /\ KeptInv /\ AgreeInv /\ BackInv /\ PlacedInv /\ ReadInv
  BY DEF CoreInv, SettledInv
<1>2. PICK ok \in Outcomes("check"), told \in Outcomes("audit") :
        /\ Write("check", Checked, ok)
        /\ IF ~ok \/ ~told \/ job.target = NoCore THEN FailBefore
           ELSE IF ~Updating THEN Finish
           ELSE /\ Goto(IF current = job.target THEN "noop" ELSE "stage")
                /\ UNCHANGED staged
        /\ UNCHANGED <<current, backups, failed, blocks, running, observed>>
  BY DEF SaveCheck
<1>3. row'.current = row.current /\ job.at = "check" /\ save' = save
  BY <1>1, <1>2, WrittenCurrent DEF Write, ReadInv
<1>4. AgreeInv'
  BY <1>1, <1>2, <1>3 DEF AgreeInv
<1>5. CASE Stops
  BY <1>3, <1>4, <1>5, StopsSettle
<1>6. CASE ~Stops
  <2>1. Goto(IF current = job.target THEN "noop" ELSE "stage")
    BY <1>1, <1>2, <1>6, FinishStops, FailBeforeStops
  <2>2. Same /\ job'.at \in {"noop", "stage"}
    BY <1>1, <2>1, GotoSame DEF Ats
  <2> QED BY <1>2, <1>3, <2>2, GoesOnSettled DEF Replacing
<1> QED BY <1>5, <1>6

LEMMA SaveNoopSettles == CoreInv /\ SettledInv /\ SaveNoop => SettledInv'
<1> SUFFICES ASSUME CoreInv, SettledInv, SaveNoop PROVE SettledInv'
  OBVIOUS
<1>1. TypeInv /\ OrderInv /\ KeptInv /\ AgreeInv /\ BackInv /\ PlacedInv /\ ReadInv
  BY DEF CoreInv, SettledInv
<1>2. PICK ok \in Outcomes("noop") :
        /\ Write("noop", [job.seen EXCEPT !.current = current, !.updating = FALSE], ok)
        /\ Finish
        /\ UNCHANGED <<current, backups, failed, blocks, running, observed>>
  BY DEF SaveNoop
<1>3. row'.current \in {row.current, current} /\ job.at = "noop" /\ save' = save
  BY <1>1, <1>2, WrittenCurrent DEF Write
<1>4. AgreeInv'
  BY <1>1, <1>2, <1>3 DEF AgreeInv
<1> QED BY <1>1, <1>2, <1>3, <1>4, FinishStops, StopsSettle

LEMMA StageSettles == CoreInv /\ SettledInv /\ Stage => SettledInv'
<1> SUFFICES ASSUME CoreInv, SettledInv, Stage PROVE SettledInv'
  OBVIOUS
<1>1. TypeInv /\ OrderInv /\ KeptInv /\ AgreeInv /\ BackInv /\ PlacedInv /\ ReadInv
  BY DEF CoreInv, SettledInv
<1>2. PICK ok \in Outcomes("stage") :
        IF ok THEN Goto("validate") /\ staged' = job.target ELSE FailBefore
  BY DEF Stage
<1>3. job.at = "stage" /\ UNCHANGED <<current, observed, row, save>>
  BY DEF Stage
<1>4. AgreeInv'
  BY <1>1, <1>3 DEF AgreeInv
<1>5. CASE ok
  <2>1. Same /\ job'.at = "validate" /\ staged' = job.target
    BY <1>1, <1>2, <1>5, GotoSame DEF Ats
  <2>2. BackInv' /\ PlacedInv'
    BY <2>1 DEF BackInv, PlacedInv, Replacing, Same
  <2>3. ReadInv'
    BY <1>3, <2>1, AloneLaws DEF ReadInv, Same
  <2> QED BY <1>4, <2>2, <2>3 DEF SettledInv
<1>6. CASE ~ok
  BY <1>1, <1>2, <1>3, <1>4, <1>6, FailBeforeStops, StopsSettle
<1> QED BY <1>5, <1>6

LEMMA ValidateSettles == CoreInv /\ SettledInv /\ Validate => SettledInv'
<1> SUFFICES ASSUME CoreInv, SettledInv, Validate PROVE SettledInv'
  OBVIOUS
<1>1. TypeInv /\ OrderInv /\ KeptInv /\ AgreeInv /\ BackInv /\ PlacedInv /\ ReadInv
  BY DEF CoreInv, SettledInv
<1>2. PICK ok \in Outcomes("validate") :
        IF ok THEN Goto("backup") /\ UNCHANGED staged ELSE FailBefore
  BY DEF Validate
<1>3. job.at = "validate" /\ UNCHANGED <<current, observed, row, save>>
  BY DEF Validate
<1>4. AgreeInv'
  BY <1>1, <1>3 DEF AgreeInv
<1>5. CASE ok
  <2>1. Same /\ job'.at = "backup" /\ staged' = staged
    BY <1>1, <1>2, <1>5, GotoSame DEF Ats
  <2>2. BackInv' /\ PlacedInv'
    BY <1>1, <1>3, <2>1 DEF BackInv, PlacedInv, Replacing, Same
  <2>3. ReadInv'
    BY <1>3, <2>1, AloneLaws DEF ReadInv, Same
  <2> QED BY <1>4, <2>2, <2>3 DEF SettledInv
<1>6. CASE ~ok
  BY <1>1, <1>2, <1>3, <1>4, <1>6, FailBeforeStops, StopsSettle
<1> QED BY <1>5, <1>6

LEMMA BackupSettles == CoreInv /\ SettledInv /\ Backup => SettledInv'
<1> SUFFICES ASSUME CoreInv, SettledInv, Backup PROVE SettledInv'
  OBVIOUS
<1>1. TypeInv /\ OrderInv /\ KeptInv /\ AgreeInv /\ BackInv /\ PlacedInv /\ ReadInv
  BY DEF CoreInv, SettledInv
<1>2. job.at = "backup" /\ UNCHANGED <<row, save, good>>
  BY DEF Backup
<1>3. CASE FailBefore /\ UNCHANGED <<current, backups, replaced>>
  <2>1. AgreeInv'
    BY <1>1, <1>2, <1>3 DEF AgreeInv
  <2> QED BY <1>1, <1>2, <1>3, <2>1, FailBeforeStops, StopsSettle
<1>4. CASE ~(FailBefore /\ UNCHANGED <<current, backups, replaced>>)
  <2> DEFINE cut == replaced # "no"
  <2>1. /\ job' = [job EXCEPT !.at = "switch", !.had = current, !.cut = cut]
        /\ current' = NoCore /\ staged' = staged /\ replaced' = current
    BY <1>4 DEF Backup
  <2>2. ~cut => current = good /\ row.current = current
    BY <1>1 DEF AgreeInv
  <2> HIDE DEF cut
  <2>3. /\ job'.at = "switch" /\ job'.had = current /\ job'.cut = cut
        /\ job'.kind = job.kind /\ job'.target = job.target
        /\ job'.read = job.read /\ job'.seen = job.seen
    BY <1>1, <2>1 DEF TypeInv, Jobs
  <2>4. AgreeInv'
    BY <1>1, <2>1 DEF AgreeInv, TypeInv, CoreTypeOK, OneOf
  <2>5. BackInv'
    BY <1>2, <2>1, <2>2, <2>3 DEF BackInv
  <2>6. PlacedInv'
    BY <1>1, <1>2, <2>1, <2>3 DEF PlacedInv
  <2>7. ReadInv'
    BY <1>1, <1>2, <2>3, AloneLaws DEF ReadInv
  <2> QED BY <2>4, <2>5, <2>6, <2>7 DEF SettledInv
<1> QED BY <1>3, <1>4

LEMMA SwitchSettles == CoreInv /\ SettledInv /\ Switch => SettledInv'
<1> SUFFICES ASSUME CoreInv, SettledInv, Switch PROVE SettledInv'
  OBVIOUS
<1>1. TypeInv /\ OrderInv /\ KeptInv /\ AgreeInv /\ BackInv /\ PlacedInv /\ ReadInv
  BY DEF CoreInv, SettledInv
<1>2. PICK ok \in Outcomes("switch") :
        IF ok
        THEN /\ current' = staged /\ staged' = NoCore /\ Goto("prune")
             /\ UNCHANGED <<backups, replaced>>
        ELSE /\ current' = job.had /\ replaced' = Undone
             /\ backups' = IF job.had = NoCore THEN backups ELSE Tail(backups)
             /\ FailBefore
  BY DEF Switch
<1>3. /\ job.at = "switch" /\ UNCHANGED <<row, save, good>>
      /\ replaced = job.had /\ job.had # "no"
  BY <1>1, JobTypes DEF Switch, KeptInv, Replacing, TypeInv, OneOf
<1>4. CASE ok
  <2>1. Same /\ job'.at = "prune"
    BY <1>1, <1>2, <1>4, GotoSame DEF Ats
  <2>2. AgreeInv'
    BY <1>2, <1>3, <1>4 DEF AgreeInv
  <2>3. BackInv' /\ PlacedInv'
    BY <1>1, <1>2, <1>3, <1>4, <2>1 DEF BackInv, PlacedInv, Replacing, Same, Installing
  <2>4. ReadInv'
    BY <1>3, <2>1, AloneLaws DEF ReadInv, Same
  <2> QED BY <2>2, <2>3, <2>4 DEF SettledInv
<1>5. CASE ~ok
  <2>1. AgreeInv'
    BY <1>1, <1>2, <1>3, <1>5 DEF AgreeInv, BackInv, Replacing, Undone
  <2> QED BY <1>1, <1>2, <1>3, <1>5, <2>1, FailBeforeStops, StopsSettle
<1> QED BY <1>4, <1>5

LEMMA PruneSettles == CoreInv /\ SettledInv /\ Prune => SettledInv'
<1> SUFFICES ASSUME CoreInv, SettledInv, Prune PROVE SettledInv'
  OBVIOUS
<1>1. TypeInv /\ OrderInv /\ KeptInv /\ AgreeInv /\ BackInv /\ PlacedInv /\ ReadInv
  BY DEF CoreInv, SettledInv
<1>2. PICK ok \in Outcomes("prune") :
        Goto(IF ~ok THEN Undo ELSE IF Installing THEN "install" ELSE "restart")
  BY DEF Prune
<1>3. /\ job.at = "prune"
      /\ UNCHANGED <<current, good, replaced, row, save>>
  BY DEF Prune
<1>4. Same /\ job'.at \in {"remove", "restore", "install", "restart"}
      /\ (job'.at = "restart" => ~Installing)
  BY <1>1, <1>2, GotoSame DEF Ats, Undo
<1>5. BackInv' /\ PlacedInv' /\ AgreeInv'
  BY <1>1, <1>3, <1>4 DEF BackInv, PlacedInv, AgreeInv, Replacing, Same, Installing
<1>6. ReadInv'
  BY <1>3, <1>4, AloneLaws DEF ReadInv, Same
<1> QED BY <1>5, <1>6 DEF SettledInv

LEMMA RestartSettles == CoreInv /\ SettledInv /\ Restart => SettledInv'
<1> SUFFICES ASSUME CoreInv, SettledInv, Restart PROVE SettledInv'
  OBVIOUS
<1>1. TypeInv /\ OrderInv /\ KeptInv /\ AgreeInv /\ BackInv /\ PlacedInv /\ ReadInv
  BY DEF CoreInv, SettledInv
<1>2. PICK ok \in Outcomes("restart") : Goto(IF ok THEN "commit" ELSE Undo)
  BY DEF Restart
<1>3. /\ job.at = "restart"
      /\ UNCHANGED <<current, good, replaced, row, save>>
  BY DEF Restart
<1>4. Same /\ job'.at \in {"remove", "restore", "commit"}
  BY <1>1, <1>2, GotoSame DEF Ats, Undo
<1>5. BackInv' /\ PlacedInv' /\ AgreeInv'
  BY <1>1, <1>3, <1>4 DEF BackInv, PlacedInv, AgreeInv, Replacing, Same, Installing
<1>6. ReadInv'
  BY <1>3, <1>4, AloneLaws DEF ReadInv, Same
<1> QED BY <1>5, <1>6 DEF SettledInv

LEMMA CommitSettles == CoreInv /\ SettledInv /\ Commit => SettledInv'
<1> SUFFICES ASSUME CoreInv, SettledInv, Commit PROVE SettledInv'
  OBVIOUS
<1>1. TypeInv /\ OrderInv /\ KeptInv /\ AgreeInv /\ BackInv /\ PlacedInv /\ ReadInv
  BY DEF CoreInv, SettledInv
<1>2. PICK ok \in Outcomes("commit"), told \in Outcomes("audit") :
        /\ Write("commit", Committed, ok)
        /\ IF ok /\ told
           THEN Finish /\ good' = current /\ replaced' = "no"
           ELSE Goto(Undo) /\ UNCHANGED <<staged, good, replaced>>
        /\ UNCHANGED <<current, backups, failed, blocks, running, unsafe>>
  BY DEF Commit
<1>3. /\ job.at = "commit" /\ save' = save /\ current = job.target /\ ~Installing
      /\ replaced = job.had /\ job.had # "no" /\ current' = current
  BY <1>1, <1>2, JobTypes DEF Write, PlacedInv, KeptInv, Replacing, TypeInv, OneOf
<1>4. CASE ok /\ told
  <2>1. AgreeInv'
    BY <1>1, <1>2, <1>3, <1>4, WrittenCurrent DEF AgreeInv, Write
  <2> QED BY <1>1, <1>2, <1>3, <1>4, <2>1, FinishStops, StopsSettle
<1>5. CASE ~(ok /\ told)
  <2>1. Same /\ job'.at \in {"remove", "restore"}
    BY <1>1, <1>2, <1>5, GotoSame DEF Ats, Undo
  <2>2. UNCHANGED <<current, good, replaced>>
    BY <1>2, <1>5
  <2>3. BackInv' /\ PlacedInv' /\ AgreeInv'
    BY <1>1, <1>3, <2>1, <2>2 DEF BackInv, PlacedInv, AgreeInv, Replacing, Same, Installing
  <2>4. ReadInv'
    BY <1>3, <2>1, AloneLaws DEF ReadInv, Same
  <2> QED BY <2>3, <2>4 DEF SettledInv
<1> QED BY <1>4, <1>5

LEMMA RemoveSettles == CoreInv /\ SettledInv /\ Remove => SettledInv'
<1> SUFFICES ASSUME CoreInv, SettledInv, Remove PROVE SettledInv'
  OBVIOUS
<1>1. TypeInv /\ OrderInv /\ KeptInv /\ AgreeInv /\ BackInv /\ PlacedInv /\ ReadInv
  BY DEF CoreInv, SettledInv
<1>2. /\ job.at = "remove" /\ UNCHANGED <<good, replaced, row, save>>
      /\ IF Installing THEN Finish ELSE Goto("sentinel")
  BY DEF Remove
<1>3. replaced = job.had /\ job.had # "no"
  BY <1>1, <1>2, JobTypes DEF KeptInv, Replacing, TypeInv, OneOf
<1>4. AgreeInv'
  BY <1>2, <1>3 DEF AgreeInv
<1>5. CASE Installing
  BY <1>1, <1>2, <1>4, <1>5, FinishStops, StopsSettle
<1>6. CASE ~Installing
  <2>1. Same /\ job'.at = "sentinel"
    BY <1>1, <1>2, <1>6, GotoSame DEF Ats
  <2>2. BackInv' /\ PlacedInv'
    BY <2>1 DEF BackInv, PlacedInv, Replacing
  <2>3. ReadInv'
    BY <1>2, <2>1, AloneLaws DEF ReadInv, Same
  <2> QED BY <1>4, <2>2, <2>3 DEF SettledInv
<1> QED BY <1>5, <1>6

LEMMA RestoreSettles == CoreInv /\ SettledInv /\ Restore => SettledInv'
<1> SUFFICES ASSUME CoreInv, SettledInv, Restore PROVE SettledInv'
  OBVIOUS
<1>1. TypeInv /\ OrderInv /\ KeptInv /\ AgreeInv /\ BackInv /\ PlacedInv /\ ReadInv
  BY DEF CoreInv, SettledInv
<1>2. PICK ok \in Outcomes("restore") :
        IF ok
        THEN /\ failed' = current /\ current' = NoCore
             /\ Goto("swap") /\ UNCHANGED staged
        ELSE /\ IF Installing THEN Finish ELSE Goto("sentinel") /\ UNCHANGED staged
             /\ UNCHANGED <<current, failed>>
  BY DEF Restore
<1>3. /\ job.at = "restore" /\ UNCHANGED <<good, replaced, row, save>>
      /\ replaced = job.had /\ job.had # "no"
  BY <1>1, JobTypes DEF Restore, KeptInv, Replacing, TypeInv, OneOf
<1>4. AgreeInv'
  BY <1>3 DEF AgreeInv
<1>5. CASE Stops
  BY <1>3, <1>4, <1>5, StopsSettle
<1>6. CASE ~Stops
  <2>1. Goto("swap") \/ Goto("sentinel")
    BY <1>1, <1>2, <1>6, FinishStops
  <2>2. Same /\ job'.at \in {"swap", "sentinel"}
    BY <1>1, <2>1, GotoSame DEF Ats
  <2>3. BackInv' /\ PlacedInv'
    BY <1>1, <1>3, <2>2 DEF BackInv, PlacedInv, Replacing, Same, Installing
  <2>4. ReadInv'
    BY <1>3, <2>2, AloneLaws DEF ReadInv, Same
  <2> QED BY <1>4, <2>3, <2>4 DEF SettledInv
<1> QED BY <1>5, <1>6

LEMMA SwapSettles == CoreInv /\ SettledInv /\ Swap => SettledInv'
<1> SUFFICES ASSUME CoreInv, SettledInv, Swap PROVE SettledInv'
  OBVIOUS
<1>1. TypeInv /\ OrderInv /\ KeptInv /\ AgreeInv /\ BackInv /\ PlacedInv /\ ReadInv
  BY DEF CoreInv, SettledInv
<1>2. PICK ok \in Outcomes("swap"), swapped \in BOOLEAN :
        /\ ok => swapped
        /\ current' = IF swapped THEN job.had ELSE failed
        /\ replaced' = IF swapped /\ Installing THEN Undone ELSE replaced
        /\ IF Installing THEN Finish
           ELSE Goto(IF ok THEN "again" ELSE "sentinel") /\ UNCHANGED staged
  BY DEF Swap
<1>3. /\ job.at = "swap" /\ UNCHANGED <<good, row, save>>
      /\ replaced = job.had /\ job.had # "no"
  BY <1>1, JobTypes DEF Swap, KeptInv, Replacing, TypeInv, OneOf
<1>4. AgreeInv'
  BY <1>1, <1>2, <1>3 DEF AgreeInv, BackInv, Replacing, Undone
<1>5. CASE Installing
  BY <1>1, <1>2, <1>3, <1>4, <1>5, FinishStops, StopsSettle
<1>6. CASE ~Installing
  <2>1. Same /\ job'.at = (IF ok THEN "again" ELSE "sentinel")
    BY <1>1, <1>2, <1>6, GotoSame DEF Ats
  <2>2. BackInv' /\ PlacedInv'
    BY <1>2, <1>6, <2>1 DEF BackInv, PlacedInv, Replacing, Same, Installing
  <2>3. ReadInv'
    BY <1>3, <2>1, AloneLaws DEF ReadInv, Same
  <2> QED BY <1>4, <2>2, <2>3 DEF SettledInv
<1> QED BY <1>5, <1>6

LEMMA AgainSettles == CoreInv /\ SettledInv /\ Again => SettledInv'
<1> SUFFICES ASSUME CoreInv, SettledInv, Again PROVE SettledInv'
  OBVIOUS
<1>1. TypeInv /\ OrderInv /\ KeptInv /\ AgreeInv /\ BackInv /\ PlacedInv /\ ReadInv
  BY DEF CoreInv, SettledInv
<1>2. PICK ok \in Outcomes("again") : Goto(IF ok THEN "restored" ELSE "sentinel")
  BY DEF Again
<1>3. job.at = "again" /\ UNCHANGED <<current, good, replaced, row, save>>
  BY DEF Again
<1>4. Same /\ job'.at \in {"restored", "sentinel"}
  BY <1>1, <1>2, GotoSame DEF Ats
<1>5. AgreeInv' /\ BackInv' /\ PlacedInv'
  BY <1>1, <1>3, <1>4 DEF AgreeInv, BackInv, PlacedInv, Replacing, Same, Installing
<1>6. ReadInv'
  BY <1>3, <1>4, AloneLaws DEF ReadInv, Same
<1> QED BY <1>5, <1>6 DEF SettledInv

LEMMA SaveRestoredSettles == CoreInv /\ SettledInv /\ SaveRestored => SettledInv'
<1> SUFFICES ASSUME CoreInv, SettledInv, SaveRestored PROVE SettledInv'
  OBVIOUS
<1>1. TypeInv /\ OrderInv /\ KeptInv /\ AgreeInv /\ BackInv /\ PlacedInv /\ ReadInv
  BY DEF CoreInv, SettledInv
<1>2. PICK ok \in Outcomes("restored") :
        /\ Write("restored", [job.seen EXCEPT !.current = job.had, !.updating = FALSE], ok)
        /\ IF ok
           THEN FailBefore /\ good' = current /\ replaced' = "no"
           ELSE Goto("sentinel") /\ UNCHANGED <<staged, good, replaced>>
        /\ UNCHANGED <<current, backups, failed, blocks, running, unsafe>>
  BY DEF SaveRestored
<1>3. /\ job.at = "restored" /\ save' = save /\ current = job.had
      /\ row'.current = IF ok THEN job.had ELSE row.current
  BY <1>1, <1>2, WrittenCurrent DEF Write, PlacedInv
<1>4. AgreeInv'
  BY <1>1, <1>2, <1>3 DEF AgreeInv
<1>5. CASE ok
  BY <1>1, <1>2, <1>3, <1>4, <1>5, FailBeforeStops, StopsSettle
<1>6. CASE ~ok
  <2>1. Same /\ job'.at = "sentinel"
    BY <1>1, <1>2, <1>6, GotoSame DEF Ats
  <2>2. BackInv' /\ PlacedInv'
    BY <2>1 DEF BackInv, PlacedInv, Replacing
  <2>3. ReadInv'
    BY <1>3, <2>1, AloneLaws DEF ReadInv, Same
  <2> QED BY <1>4, <2>2, <2>3 DEF SettledInv
<1> QED BY <1>5, <1>6

LEMMA MarkFailClosedSettles == CoreInv /\ SettledInv /\ MarkFailClosed => SettledInv'
<1> SUFFICES ASSUME CoreInv, SettledInv, MarkFailClosed PROVE SettledInv'
  OBVIOUS
<1>1. TypeInv /\ OrderInv /\ KeptInv /\ AgreeInv /\ BackInv /\ PlacedInv /\ ReadInv
  BY DEF CoreInv, SettledInv
<1>2. /\ job.at = "sentinel" /\ Goto("degrade")
      /\ UNCHANGED <<current, good, replaced, row, save>>
  BY DEF MarkFailClosed
<1>3. Same /\ job'.at = "degrade"
  BY <1>1, <1>2, GotoSame DEF Ats
<1> QED BY <1>2, <1>3, GoesOnSettled DEF Replacing

LEMMA MarkDegradedSettles == CoreInv /\ SettledInv /\ MarkDegraded => SettledInv'
<1> SUFFICES ASSUME CoreInv, SettledInv, MarkDegraded PROVE SettledInv'
  OBVIOUS
<1>1. TypeInv /\ OrderInv /\ KeptInv /\ AgreeInv /\ BackInv /\ PlacedInv /\ ReadInv
  BY DEF CoreInv, SettledInv
<1>2. /\ job.at = "degrade" /\ FailBefore
      /\ UNCHANGED <<current, good, replaced, row, save>>
  BY DEF MarkDegraded
<1>3. AgreeInv'
  BY <1>1, <1>2 DEF AgreeInv
<1> QED BY <1>1, <1>2, <1>3, FailBeforeStops, StopsSettle

LEMMA RecordFailureSettles == CoreInv /\ SettledInv /\ RecordFailure => SettledInv'
<1> SUFFICES ASSUME CoreInv, SettledInv, RecordFailure PROVE SettledInv'
  OBVIOUS
<1>1. TypeInv /\ OrderInv /\ KeptInv /\ AgreeInv /\ BackInv /\ PlacedInv /\ ReadInv
  BY DEF CoreInv, SettledInv
<1>2. PICK ok \in Outcomes("record") :
        /\ Write("record", [job.seen EXCEPT !.updating = FALSE], ok)
        /\ Goto("clear")
        /\ UNCHANGED <<files, blocks, running, observed>>
  BY DEF RecordFailure
<1>3. row'.current = row.current /\ job.at = "record" /\ save' = save
  BY <1>1, <1>2, WrittenCurrent DEF Write, ReadInv
<1>4. Same /\ job'.at = "clear"
  BY <1>1, <1>2, GotoSame DEF Ats
<1> QED BY <1>2, <1>3, <1>4, GoesOnSettled DEF Replacing

LEMMA ClearMarkerSettles == CoreInv /\ SettledInv /\ ClearMarker => SettledInv'
<1> SUFFICES ASSUME CoreInv, SettledInv, ClearMarker PROVE SettledInv'
  OBVIOUS
<1>1. TypeInv /\ OrderInv /\ KeptInv /\ AgreeInv /\ BackInv /\ PlacedInv /\ ReadInv
  BY DEF CoreInv, SettledInv
<1>2. PICK ok \in Outcomes("clear") :
        /\ Write("clear", [job.seen EXCEPT !.updating = FALSE], ok)
        /\ job' = NoJob /\ staged' = NoCore
        /\ UNCHANGED <<current, backups, failed, blocks, running, observed>>
  BY DEF ClearMarker
<1>3. row'.current = row.current /\ job.at = "clear" /\ save' = save
  BY <1>1, <1>2, WrittenCurrent DEF Write, ReadInv
<1>4. AgreeInv'
  BY <1>1, <1>2, <1>3 DEF AgreeInv
<1> QED BY <1>2, <1>3, <1>4, NoJobStops, StopsSettle

LEMMA InstallSettles == CoreInv /\ SettledInv /\ Install => SettledInv'
<1> SUFFICES ASSUME CoreInv, SettledInv, Install PROVE SettledInv'
  OBVIOUS
<1>1. TypeInv /\ OrderInv /\ KeptInv /\ AgreeInv /\ BackInv /\ PlacedInv /\ ReadInv
  BY DEF CoreInv, SettledInv
<1>2. PICK ok \in Outcomes("install") :
        /\ Write("install", [job.seen EXCEPT !.current = job.target], ok)
        /\ Goto(IF ok THEN "unblock" ELSE Undo)
        /\ good' = IF ok THEN current ELSE good
        /\ replaced' = IF ok THEN "no" ELSE replaced
        /\ UNCHANGED <<files, blocks, running, unsafe>>
  BY DEF Install
<1>3. /\ job.at = "install" /\ save' = save /\ current' = current
      /\ current = job.target
      /\ IF ok THEN row'.current = job.target ELSE row' = row
  BY <1>1, <1>2, WrittenCurrent DEF Write, PlacedInv
<1>4. Same /\ job'.at = (IF ok THEN "unblock" ELSE Undo) /\ Undo \in {"remove", "restore"}
  BY <1>1, <1>2, GotoSame DEF Ats, Undo
<1>5. AgreeInv'
  BY <1>1, <1>2, <1>3 DEF AgreeInv
<1>6. BackInv' /\ PlacedInv'
  BY <1>1, <1>2, <1>3, <1>4 DEF BackInv, PlacedInv, Replacing, Same, Installing
<1>7. ReadInv'
  BY <1>3, <1>4, AloneLaws DEF ReadInv, Same
<1> QED BY <1>5, <1>6, <1>7 DEF SettledInv

LEMMA UnblockSettles == CoreInv /\ SettledInv /\ Unblock => SettledInv'
<1> SUFFICES ASSUME CoreInv, SettledInv, Unblock PROVE SettledInv'
  OBVIOUS
<1>1. TypeInv /\ OrderInv /\ KeptInv /\ AgreeInv /\ BackInv /\ PlacedInv /\ ReadInv
  BY DEF CoreInv, SettledInv
<1>2. /\ job.at = "unblock" /\ Finish
      /\ UNCHANGED <<current, good, replaced, row, save>>
  BY DEF Unblock
<1>3. AgreeInv'
  BY <1>1, <1>2 DEF AgreeInv
<1> QED BY <1>1, <1>2, <1>3, FinishStops, StopsSettle

LEMMA ReopenSettles == CoreInv /\ SettledInv /\ Reopen => SettledInv'
<1> SUFFICES ASSUME CoreInv, SettledInv, Reopen PROVE SettledInv'
  OBVIOUS
<1>1. TypeInv /\ OrderInv /\ KeptInv /\ AgreeInv /\ BackInv /\ PlacedInv /\ ReadInv
  BY DEF CoreInv, SettledInv
<1>2. PICK ok \in Outcomes("reopen") :
        /\ row' = IF ~ok THEN row
                  ELSE [job.seen EXCEPT !.updating = FALSE,
                          !.current = IF current = NoCore THEN @ ELSE current]
        /\ IF ok /\ current # NoCore
           THEN good' = current /\ replaced' = "no"
           ELSE UNCHANGED <<good, replaced>>
  BY DEF Reopen
<1>3. /\ job.at = "reopen" /\ job.read /\ job' = NoJob /\ UNCHANGED <<current, save>>
  BY DEF Reopen
<1>4. row'.current = IF ~ok \/ current = NoCore THEN row.current ELSE current
  <2> DEFINE c == IF current = NoCore THEN job.seen.current ELSE current
  <2>1. job.seen \in Rows /\ c \in OneOf /\ job.seen.current = row.current
    BY <1>1, <1>3, JobTypes, CurrentLaws DEF TypeInv, CoreTypeOK, ReadInv
  <2>2. row' = IF ~ok THEN row ELSE [job.seen EXCEPT !.updating = FALSE, !.current = c]
    BY <1>2
  <2>3. [job.seen EXCEPT !.updating = FALSE, !.current = c].current = c
    <3> HIDE DEF c
    <3> QED BY <2>1, RowCurrent
  <2> QED BY <2>1, <2>2, <2>3
<1>5. AgreeInv'
  BY <1>1, <1>2, <1>3, <1>4 DEF AgreeInv
<1> QED BY <1>3, <1>5, NoJobStops, StopsSettle

-----------------------------------------------------------------------------
\* The start of an operation, of which nothing is placed but the stage.
LEMMA BeginsSettled ==
  ASSUME CoreInv, SettledInv, UNCHANGED <<current, good, replaced, row, save>>,
         save.at = "none",
         job'.at \in {"mark", "resolve", "validate", "backup", "reopen"},
         job'.at \in {"validate", "backup"} => staged' = job'.target,
         job'.read => job'.seen = row
  PROVE  SettledInv'
<1>1. AgreeInv'
  BY DEF SettledInv, AgreeInv
<1>2. BackInv' /\ PlacedInv'
  BY DEF BackInv, PlacedInv, Replacing
<1>3. ReadInv'
  BY DEF ReadInv
<1> QED BY <1>1, <1>2, <1>3 DEF SettledInv

LEMMA JobBegins ==
  ASSUME TypeInv, NEW p \in Processes, NEW kind, NEW at \in Ats
  PROVE  LET j == Job(p, kind, at)
         IN  /\ j.at = at /\ ~j.read
             /\ \A t \in OneOf : LET k == [j EXCEPT !.target = t]
                                IN  k.at = at /\ k.target = t /\ ~k.read
             /\ LET k == [j EXCEPT !.read = TRUE, !.seen = row] IN k.at = at /\ k.seen = row
  BY DEF Job, NoJob

\* A step that leaves all of that alone.
LEMMA AsideSettled ==
  ASSUME SettledInv, UNCHANGED <<current, good, replaced, staged, job, save>>,
         row'.current = row.current
  PROVE  SettledInv'
<1>1. AgreeInv' /\ PlacedInv' /\ BackInv' /\ ReadInv'
  BY DEF SettledInv, AgreeInv, PlacedInv, BackInv, ReadInv, Installing, Free
<1> QED BY <1>1 DEF SettledInv

LEMMA CheckCoreSettles ==
  ASSUME CoreInv, SettledInv, ~Overlap, NEW p \in Processes, CheckCore(p)
  PROVE  SettledInv'
<1>1. TypeInv /\ OrderInv /\ KeptInv /\ AgreeInv /\ BackInv /\ PlacedInv /\ ReadInv
  BY DEF CoreInv, SettledInv
<1>2. /\ job' = Job(p, "check", "resolve") /\ save.at = "none"
      /\ UNCHANGED <<current, good, replaced, row, save>>
  BY DEF CheckCore, May, Unstarted
<1> QED BY <1>1, <1>2, JobBegins, BeginsSettled DEF Ats

LEMMA UpdateCoreSettles ==
  ASSUME CoreInv, SettledInv, ~Overlap, NEW p \in Processes,
         NEW kind \in {"update", "auto"}, UpdateCore(p, kind)
  PROVE  SettledInv'
<1>1. /\ job' = Job(p, kind, "mark") /\ save.at = "none" /\ TypeInv
      /\ UNCHANGED <<current, good, replaced, row, save>>
  BY DEF UpdateCore, May, Unstarted, CoreInv
<1> QED BY <1>1, JobBegins, BeginsSettled DEF Ats

LEMMA RollbackCoreSettles ==
  ASSUME CoreInv, SettledInv, ~Overlap, NEW p \in Processes, RollbackCore(p)
  PROVE  SettledInv'
<1>1. TypeInv /\ OrderInv /\ KeptInv /\ AgreeInv /\ BackInv /\ PlacedInv /\ ReadInv
  BY DEF CoreInv, SettledInv
<1>2. /\ job' = [Job(p, "rollback", "backup") EXCEPT !.target = LatestBackup]
      /\ staged' = LatestBackup /\ save.at = "none" /\ LatestBackup \in OneOf
      /\ UNCHANGED <<current, good, replaced, row, save>>
  BY <1>1, PopLaws
     DEF RollbackCore, May, Unstarted, LatestBackup, TypeInv, CoreTypeOK, OneOf
<1> QED BY <1>1, <1>2, JobBegins, BeginsSettled DEF Ats

LEMMA BootstrapSettles ==
  ASSUME CoreInv, SettledInv, ~Overlap, Bootstrap
  PROVE  SettledInv'
<1>1. TypeInv /\ OrderInv /\ KeptInv /\ AgreeInv /\ BackInv /\ PlacedInv /\ ReadInv
  BY DEF CoreInv, SettledInv
<1>2. /\ job' = [Job(Command, "bootstrap", "validate") EXCEPT !.target = Packaged]
      /\ staged' = Packaged /\ save.at = "none" /\ Packaged \in OneOf
      /\ UNCHANGED <<current, good, replaced, row, save>>
  BY DEF Bootstrap, OneOf
<1> QED BY <1>1, <1>2, JobBegins, BeginsSettled DEF Ats

LEMMA AdoptSettles ==
  ASSUME CoreInv, SettledInv, ~Overlap, Adopt
  PROVE  SettledInv'
<1>1. TypeInv /\ OrderInv /\ KeptInv /\ AgreeInv /\ BackInv /\ PlacedInv /\ ReadInv
  BY DEF CoreInv, SettledInv
<1>2. CASE external /\ Free
  <2>1. /\ job' = [Job(Panel, "adopt", "validate") EXCEPT !.target = Packaged]
        /\ staged' = Packaged /\ save.at = "none" /\ Packaged \in OneOf
        /\ UNCHANGED <<current, good, replaced, row, save>>
    BY <1>2 DEF Adopt, OneOf
  <2> QED BY <1>1, <2>1, JobBegins, BeginsSettled DEF Ats
<1>3. CASE ~(external /\ Free)
  BY <1>3, AsideSettled DEF Adopt
<1> QED BY <1>2, <1>3

LEMMA StartSettles ==
  ASSUME CoreInv, SettledInv, ~Overlap, NEW p \in Processes, Start(p)
  PROVE  SettledInv'
<1>1. TypeInv /\ OrderInv /\ KeptInv /\ AgreeInv /\ BackInv /\ PlacedInv /\ ReadInv
  BY DEF CoreInv, SettledInv
<1>2. /\ save.at = "none" /\ UNCHANGED <<current, good, replaced, row, save>>
      /\ \/ job' = NoJob
         \/ job' = [Job(p, "recover", "reopen") EXCEPT !.read = TRUE, !.seen = row]
  BY DEF Start
<1>3. CASE job' = NoJob
  <2>1. job'.at = "none" /\ ~job'.read
    BY <1>3 DEF NoJob
  <2>2. AgreeInv' /\ BackInv' /\ PlacedInv'
    BY <1>1, <1>2, <2>1 DEF AgreeInv, BackInv, PlacedInv, Replacing
  <2>3. ReadInv'
    BY <1>2, <2>1 DEF ReadInv
  <2> QED BY <2>2, <2>3 DEF SettledInv
<1>4. CASE job' = [Job(p, "recover", "reopen") EXCEPT !.read = TRUE, !.seen = row]
  BY <1>1, <1>2, <1>4, JobBegins, BeginsSettled DEF Ats
<1> QED BY <1>2, <1>3, <1>4

LEMMA DieSettles ==
  ASSUME CoreInv, SettledInv, ~Overlap, NEW p \in Processes, Die(p)
  PROVE  SettledInv'
<1>1. TypeInv /\ OrderInv /\ KeptInv /\ AgreeInv /\ BackInv /\ PlacedInv /\ ReadInv
  BY DEF CoreInv, SettledInv
<1>2. /\ job' = NoJob \/ job' = job
      /\ save' = NoSave \/ save' = save
      /\ UNCHANGED <<current, good, replaced, staged, row>>
      /\ NoSave.at = "none" /\ NoJob.at = "none" /\ ~NoJob.read /\ NoJob.kind = "none"
  BY NoJobLaws, NoSaveLaws DEF Die, NoJob
<1>3. AgreeInv'
  BY <1>1, <1>2 DEF AgreeInv
<1>4. BackInv'
  BY <1>1, <1>2 DEF BackInv, Installing, Replacing
<1>5. PlacedInv'
  BY <1>1, <1>2 DEF PlacedInv, Installing
<1>6. ReadInv'
  BY <1>1, <1>2 DEF ReadInv, Free
<1> QED BY <1>3, <1>4, <1>5, <1>6 DEF SettledInv

LEMMA AskSettingsSettles ==
  ASSUME CoreInv, SettledInv, ~Overlap, NEW p \in Processes, AskSettings(p)
  PROVE  SettledInv'
<1>1. TypeInv /\ OrderInv /\ KeptInv /\ AgreeInv /\ BackInv /\ PlacedInv /\ ReadInv
  BY DEF CoreInv, SettledInv
<1>2. /\ Free /\ save'.at # "write"
      /\ UNCHANGED <<current, good, replaced, staged, row, job>>
  BY NoSaveLaws DEF AskSettings, NoSave
<1>3. AgreeInv' /\ BackInv' /\ PlacedInv' /\ ReadInv'
  BY <1>1, <1>2 DEF AgreeInv, BackInv, PlacedInv, ReadInv, Installing, Free
<1> QED BY <1>3 DEF SettledInv

LEMMA ScheduleStartupCheckSettles ==
  ASSUME CoreInv, SettledInv, ~Overlap, ScheduleStartupCheck
  PROVE  SettledInv'
<1>1. TypeInv /\ OrderInv /\ KeptInv /\ AgreeInv /\ BackInv /\ PlacedInv /\ ReadInv
  BY DEF CoreInv, SettledInv
<1>2. /\ Free /\ save'.at # "write"
      /\ UNCHANGED <<current, good, replaced, staged, row, job>>
  BY NoSaveLaws DEF ScheduleStartupCheck, NoSave
<1>3. AgreeInv' /\ BackInv' /\ PlacedInv' /\ ReadInv'
  BY <1>1, <1>2 DEF AgreeInv, BackInv, PlacedInv, ReadInv, Installing, Free
<1> QED BY <1>3 DEF SettledInv

LEMMA ReadSettingsRowSettles ==
  ASSUME CoreInv, SettledInv, ~Overlap, ReadSettingsRow
  PROVE  SettledInv'
<1>1. TypeInv /\ OrderInv /\ KeptInv /\ AgreeInv /\ BackInv /\ PlacedInv /\ ReadInv
  BY DEF CoreInv, SettledInv
<1>2. /\ save.at = "read" /\ save'.at = "write" /\ save'.seen = row
      /\ UNCHANGED <<current, good, replaced, staged, row, job>>
  BY <1>1 DEF ReadSettingsRow, TypeInv, Saves
<1>3. AgreeInv' /\ BackInv' /\ PlacedInv'
  BY <1>1, <1>2 DEF AgreeInv, BackInv, PlacedInv, Installing
<1>4. ReadInv'
  BY <1>1, <1>2 DEF ReadInv, Free
<1> QED BY <1>3, <1>4 DEF SettledInv

LEMMA SaveSettingsSettles ==
  ASSUME CoreInv, SettledInv, ~Overlap, SaveSettings
  PROVE  SettledInv'
<1>1. TypeInv /\ OrderInv /\ KeptInv /\ AgreeInv /\ BackInv /\ PlacedInv /\ ReadInv
  BY DEF CoreInv, SettledInv
<1>2. PICK ok \in Outcomes("save"), next \in NextCheck :
        row' = IF ~ok THEN row
               ELSE [save.seen EXCEPT !.next = next,
                       !.available = IF save.startup \/ save.want.channel = save.was
                                     THEN @ ELSE NoCore]
  BY DEF SaveSettings
<1>3. /\ save.at = "write" /\ save' = NoSave /\ Free
      /\ UNCHANGED <<current, good, replaced, staged, job>>
  BY <1>1 DEF SaveSettings, ReadInv
<1>4. row'.current = row.current
  <2> DEFINE a == IF save.startup \/ save.want.channel = save.was
                  THEN save.seen.available ELSE NoCore
  <2>1. save.seen \in Rows /\ save.seen.current = row.current
    BY <1>1, <1>3, SaveTypes DEF TypeInv, ReadInv
  <2>2. a \in OneOf
    BY <2>1, CurrentLaws DEF OneOf
  <2>3. row' = IF ~ok THEN row ELSE [save.seen EXCEPT !.next = next, !.available = a]
    BY <1>2
  <2>4. next \in {"none", "due", "later"}
    BY <1>2 DEF NextCheck
  <2> HIDE DEF a
  <2> QED BY <2>1, <2>2, <2>3, <2>4, RowCurrent
<1>5. save'.at = "none" /\ (job.read => job.seen.current = row.current)
  BY <1>1, <1>3, NoSaveLaws DEF ReadInv
<1>6. AgreeInv' /\ BackInv' /\ PlacedInv'
  BY <1>1, <1>3, <1>4 DEF AgreeInv, BackInv, PlacedInv, Installing
<1>7. ReadInv'
  BY <1>3, <1>4, <1>5 DEF ReadInv, Free
<1> QED BY <1>6, <1>7 DEF SettledInv

LEMMA LookSettles ==
  ASSUME CoreInv, SettledInv, ~Overlap, Look
  PROVE  SettledInv'
<1>1. TypeInv /\ OrderInv /\ KeptInv /\ AgreeInv /\ BackInv /\ PlacedInv /\ ReadInv
  BY DEF CoreInv, SettledInv
<1>2. CASE UpdateCore(Panel, "auto")
  BY <1>2, UpdateCoreSettles
<1>3. CASE ~UpdateCore(Panel, "auto")
  BY <1>3, AsideSettled DEF Look
<1> QED BY <1>2, <1>3

LEMMA RestSettles ==
  ASSUME CoreInv, SettledInv,
         \/ SetMihomoBinaryPath \/ UpdateReturns \/ Wake \/ Poll
         \/ TimePasses \/ OtherHolder \/ Reconcile
  PROVE  SettledInv'
<1>1. UNCHANGED <<current, good, replaced, staged, job, save>>
  BY DEF SetMihomoBinaryPath, UpdateReturns, Wake, Poll, TimePasses, OtherHolder, Reconcile
<1>2. row'.current = row.current
  <2>1. CASE TimePasses
    <3>1. row' = [row EXCEPT !.next = "due"] /\ row \in Rows /\ NoCore \in OneOf
      BY <2>1 DEF TimePasses, CoreInv, TypeInv, CoreTypeOK, OneOf
    <3> QED BY <3>1, RowCurrent
  <2>2. CASE ~TimePasses
    BY <2>2 DEF SetMihomoBinaryPath, UpdateReturns, Wake, Poll, OtherHolder, Reconcile
  <2> QED BY <2>1, <2>2
<1> QED BY <1>1, <1>2, AsideSettled

LEMMA SettledInit == CoreInit => SettledInv
<1> SUFFICES ASSUME CoreInit PROVE SettledInv
  OBVIOUS
<1>1. job.at = "none" /\ ~job.read /\ job.kind = "none" /\ save.at = "none"
  BY NoSaveLaws DEF CoreInit, NoJob
<1>2. AgreeInv
  <2>1. PICK c \in {NoCore, Packaged} :
          current = c /\ good = c /\ row = [NoRow EXCEPT !.current = c]
    BY DEF CoreInit
  <2> QED BY <2>1 DEF AgreeInv, NoRow
<1>3. BackInv /\ PlacedInv /\ ReadInv
  BY <1>1 DEF BackInv, PlacedInv, ReadInv, Replacing, Free
<1> QED BY <1>2, <1>3 DEF SettledInv

LEMMA SettledNext ==
  ASSUME ~Overlap, CoreInv, SettledInv, [CoreNext]_coreVars
  PROVE  SettledInv'
<1>1. CASE Step
  BY <1>1, ReadRowSettles, MarkUpdateSettles, ResolveSettles, SaveCheckSettles,
     SaveNoopSettles, StageSettles, ValidateSettles, BackupSettles, SwitchSettles,
     PruneSettles, RestartSettles, CommitSettles, RemoveSettles, RestoreSettles,
     SwapSettles, AgainSettles, SaveRestoredSettles, MarkFailClosedSettles,
     MarkDegradedSettles, RecordFailureSettles, ClearMarkerSettles, InstallSettles,
     UnblockSettles, ReopenSettles DEF Step
<1>2. CASE Request
  BY <1>2, CheckCoreSettles, UpdateCoreSettles, RollbackCoreSettles DEF Request
<1>3. CASE Bootstrap \/ Adopt \/ ScheduleStartupCheck
  BY <1>3, BootstrapSettles, AdoptSettles, ScheduleStartupCheckSettles
<1>4. CASE \E p \in Processes : Start(p) \/ Crash(p) \/ AskSettings(p)
  BY <1>4, StartSettles, DieSettles, AskSettingsSettles DEF Crash
<1>5. CASE CommandReturns
  BY <1>5, DieSettles DEF CommandReturns
<1>6. CASE ReadSettingsRow \/ SaveSettings \/ Look
  BY <1>6, ReadSettingsRowSettles, SaveSettingsSettles, LookSettles
<1>7. CASE SetMihomoBinaryPath \/ UpdateReturns \/ Wake \/ Poll \/ TimePasses
           \/ OtherHolder \/ Reconcile
  BY <1>7, RestSettles
<1>8. CASE UNCHANGED coreVars
  BY <1>8, AsideSettled DEF coreVars
<1> QED BY <1>1, <1>2, <1>3, <1>4, <1>5, <1>6, <1>7, <1>8 DEF CoreNext, Schedule

\* Whichever step of an operation fails, and wherever a crash cuts it short:
\* between operations that went through or were undone, the managed core is the
\* one last committed, installed or found at a start, and the database names it,
\* as long as settings are not saved while an operation runs.
THEOREM CoreSettles ==
  ASSUME ~Overlap
  PROVE  CoreSpec => []SettledCore
<1>1. CoreInit => CoreInv /\ SettledInv
  BY CoreInvInit, SettledInit
<1>2. CoreInv /\ SettledInv /\ [CoreNext]_coreVars => (CoreInv /\ SettledInv)'
  BY CoreInvNext, SettledNext
<1>3. SettledInv => SettledCore
  BY DEF SettledInv, AgreeInv, SettledCore
<1> QED BY <1>1, <1>2, <1>3, PTL DEF CoreSpec
=============================================================================
