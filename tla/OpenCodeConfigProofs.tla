------------------------ MODULE OpenCodeConfigProofs ------------------------
(***************************************************************************)
(* The four properties of opencode.json for any keys, launchers, commands, *)
(* edits and times.                                                        *)
(*                                                                         *)
(* The argument.  Backups are named by the clock, so that the newest has   *)
(* the greatest name.  While a plan is carried out its backup is the       *)
(* newest, and what it was copied from is still the file (PlanInv).  What  *)
(* uninstall() restores is therefore what the last install had backed up   *)
(* (QuietInv).  And since a backup is removed only when it is the newest,  *)
(* the oldest complete one stays what it was, the user's own text, unless  *)
(* he lost it in one of the three ways that perils records (OwnInv).       *)
(***************************************************************************)
EXTENDS OpenCodeConfig, TLAPS, WellFoundedInduction

IsNewest(t) == t \in Saved /\ \A u \in Saved : u <= t
IsOldest(t) == t \in Complete /\ \A u \in Saved : t <= u

ClockInv == \A t \in Saved : t <= now

RestoreInv == pc \in {"truncate", "fill", "unlink"} => IsNewest(chosen)

PlanInv ==
  /\ pc \in {"backup", "copy", "consent", "write", "discard"} =>
       /\ ~edited => plan.current = Read(file)
       /\ \E l \in Launchers : plan.proposed = Merge(plan.current, l)
  /\ pc \in {"copy", "consent", "write", "discard"} => IsNewest(plan.backup)
  /\ pc \in {"consent", "write", "discard"} /\ perils = {} =>
       backups[plan.backup] = Copy(file)

QuietInv == quiet =>
  /\ (pc = "idle" /\ result = "installed") \/ pc = "select" =>
       IsNewest(plan.backup) /\ before = backups[plan.backup]
  /\ pc \in {"truncate", "fill", "unlink"} => before = backups[chosen]
  /\ pc = "unlink" => file = before
  /\ UninstallUndoesInstall

OwnInv == perils = {} =>
  /\ Complete = {} => Copy(own) = Copy(file)
  /\ Complete # {} => \E t \in Complete : IsOldest(t) /\ backups[t] = Copy(own)
  /\ pc = "unlink" => file = backups[chosen]

IInv == TypeOK /\ ClockInv /\ RestoreInv /\ PlanInv /\ QuietInv /\ OwnInv

-----------------------------------------------------------------------------
(* Backups and texts.                                                      *)

\* A set of instants that is not empty has a greatest element, which is its Max.
LEMMA MaxOfTimes ==
  ASSUME NEW S, S \subseteq Times, S # {}
  PROVE  Max(S) \in S /\ \A t \in S : t <= Max(S)
<1> DEFINE T == {d \in Nat : MaxTime - d \in S}
<1>1. MaxTime \in Nat /\ Times \subseteq Nat
  BY ConfigAssumption DEF Times
<1>2. T \subseteq Nat /\ T # {}
  <2>1. PICK t \in S : t \in Times
    OBVIOUS
  <2>2. MaxTime - t \in Nat /\ MaxTime - (MaxTime - t) = t
    BY <1>1, <2>1 DEF Times
  <2> QED
    BY <2>1, <2>2
<1>3. PICK d \in T : \A e \in T : <<e, d>> \notin OpToRel(<, Nat)
  <2> HIDE DEF T
  <2> QED
    BY <1>2, WFMin, NatLessThanWellFounded
<1>4. \A e \in T : d <= e
  <2> HIDE DEF T
  <2>1. SUFFICES ASSUME NEW e \in T PROVE d <= e
    OBVIOUS
  <2>2. e \in Nat /\ d \in Nat
    BY <1>2, <1>3
  <2>3. e < d => <<e, d>> \in OpToRel(<, Nat)
    BY <2>2 DEF OpToRel
  <2>4. ~(e < d)
    BY <1>3, <2>3
  <2> QED
    BY <2>2, <2>4
<1>5. \A t \in S : t <= MaxTime - d
  <2>1. SUFFICES ASSUME NEW t \in S PROVE t <= MaxTime - d
    OBVIOUS
  <2>2. t \in Nat /\ MaxTime - t \in T
    BY <1>1 DEF Times
  <2>3. d \in Nat /\ d <= MaxTime - t
    BY <1>3, <1>4, <2>2
  <2> QED
    BY <1>1, <2>2, <2>3
<1>6. MaxTime - d \in S /\ \A t \in S : MaxTime - d >= t
  BY <1>1, <1>3, <1>5 DEF Times
<1>7. \E x \in S : \A y \in S : x >= y
  BY <1>6
<1> QED
  BY <1>1, <1>7 DEF Max, Times

LEMMA MaxIsGreatest ==
  ASSUME NEW S, S \subseteq Times, NEW t \in S, \A u \in S : u <= t
  PROVE  Max(S) = t
<1>1. Max(S) \in S /\ t <= Max(S) /\ Max(S) <= t
  BY MaxOfTimes
<1> DEFINE m == Max(S)
<1>2. m \in S /\ t <= m /\ m <= t
  BY <1>1
<1> HIDE DEF m
<1>3. m \in Nat /\ t \in Nat
  BY <1>2, ConfigAssumption DEF Times
<1>4. m = t
  BY <1>2, <1>3
<1> QED
  BY <1>4 DEF m

\* What backup() copies is a text, and a copy of a copy is the same text.
LEMMA CopyOfFile ==
  ASSUME NEW f \in Files
  PROVE  /\ Copy(f) \in Files /\ Copy(f) # Missing
         /\ Copy(Copy(f)) = Copy(f)
         /\ f # Missing => Copy(f) = f
  BY ConfigAssumption DEF Copy, Written, Blank, Missing, Files, Text

\* read() finds a document in every file, and what is written of a document is a text.
LEMMA Documents ==
  /\ \A f \in Files : Read(f) \in Parse
  /\ \A d \in Parse, l \in Launchers : Merge(d, l) \in Parse
  /\ \A d \in Parse : Written(d) \in Files
  /\ Blank \in Parse /\ Missing \in Files
  BY ConfigAssumption DEF Read, Parse, Files, Text, Missing, Merge, Written, Blank

\* Four steps change the backups, each one of them.
LEMMA SavedStep ==
  ASSUME TypeOK, PlanInv, [Next]_vars
  PROVE  /\ BackupCreate => Saved' = Saved \cup {now}
         /\ BackupFill => Saved' = Saved
         /\ DiscardInstall => Saved' = Saved \ {plan.backup}
         /\ UnlinkBackup => Saved' = Saved \ {chosen}
         /\ BackupCreate \/ BackupFill \/ DiscardInstall \/ UnlinkBackup
            \/ (backups' = backups /\ Saved' = Saved)
<1>1. ASSUME BackupCreate PROVE Saved' = Saved \cup {now}
  <2>1. Written(Blank) # Missing
    BY DEF Written, Blank, Missing
  <2> QED
    BY <1>1, <2>1 DEF BackupCreate, Saved, TypeOK
<1>2. ASSUME BackupFill PROVE Saved' = Saved
  <2>1. Copy(file) # Missing
    BY CopyOfFile DEF TypeOK
  <2>2. plan.backup \in Saved
    BY <1>2 DEF BackupFill, PlanInv, IsNewest
  <2> QED
    BY <1>2, <2>1, <2>2 DEF BackupFill, Saved, TypeOK
<1>3. ASSUME DiscardInstall PROVE Saved' = Saved \ {plan.backup}
  BY <1>3 DEF DiscardInstall, Saved, TypeOK
<1>4. ASSUME UnlinkBackup PROVE Saved' = Saved \ {chosen}
  BY <1>4 DEF UnlinkBackup, Saved, TypeOK
<1>5. ASSUME ~(BackupCreate \/ BackupFill \/ DiscardInstall \/ UnlinkBackup)
      PROVE  backups' = backups /\ Saved' = Saved
  BY <1>5 DEF Next, CallInstall, PrepareRead, Consent, ApplyInstall, CallUninstall, SelectBackup,
     RollbackTruncate, RollbackFill, Edit, Tick, Kill, vars, Saved
<1> QED
  BY <1>1, <1>2, <1>3, <1>4, <1>5

-----------------------------------------------------------------------------
(* Each part of the invariant is preserved.                                *)

LEMMA TypeStep ==
  ASSUME IInv, [Next]_vars
  PROVE  TypeOK'
<1> USE ConfigAssumption, Documents DEF IInv, TypeOK, Times
<1>1. CASE CallInstall
  BY <1>1 DEF CallInstall, End, history
<1>2. CASE PrepareRead
  <2>1. CASE Unreadable(file)
    BY <1>2, <2>1 DEF PrepareRead, End
  <2>2. CASE ~Unreadable(file)
    <3>1. PICK l \in Launchers : plan' = [current  |-> Read(file),
                                         proposed |-> Merge(Read(file), l),
                                         backup   |-> now]
      BY <1>2, <2>2 DEF PrepareRead
    <3>2. Read(file) \in Parse /\ Merge(Read(file), l) \in Parse
      BY Documents DEF TypeOK
    <3>3. plan' \in [current : Parse, proposed : Parse, backup : Times]
      BY <3>1, <3>2 DEF TypeOK
    <3> QED
      BY <1>2, <2>2, <3>3 DEF PrepareRead
  <2> QED
    BY <2>1, <2>2
<1>3. CASE BackupCreate
  <2>1. Written(Blank) \in Files
    BY Documents
  <2>2. backups' \in [Times -> Files] /\ plan' \in [current : Parse, proposed : Parse, backup : Times]
    BY <1>3, <2>1 DEF BackupCreate
  <2>3. perils' \subseteq {"edited", "shared", "torn"}
    BY <1>3 DEF BackupCreate
  <2> QED
    BY <1>3, <2>2, <2>3 DEF BackupCreate
<1>16. CASE BackupFill
  <2>1. Copy(file) \in Files
    BY CopyOfFile
  <2>2. backups' \in [Times -> Files]
    BY <1>16, <2>1 DEF BackupFill
  <2> QED
    BY <1>16, <2>2 DEF BackupFill, history
<1>4. CASE Consent
  BY <1>4 DEF Consent, End, history
<1>5. CASE ApplyInstall
  BY <1>5 DEF ApplyInstall, End, history
<1>6. CASE DiscardInstall
  BY <1>6 DEF DiscardInstall, End, history
<1>7. CASE CallUninstall
  BY <1>7 DEF CallUninstall, End, history
<1>8. CASE SelectBackup
  <2>1. CASE Saved = {}
    BY <1>8, <2>1 DEF SelectBackup, End, history
  <2>2. CASE Saved # {}
    <3>1. chosen' = Max(Saved) /\ Saved \subseteq Times
      BY <1>8, <2>2 DEF SelectBackup, Saved
    <3>2. chosen' \in Times
      BY <2>2, <3>1, MaxOfTimes
    <3> QED
      BY <1>8, <2>2, <3>2 DEF SelectBackup, history
  <2> QED
    BY <2>1, <2>2
<1>9. CASE RollbackTruncate
  <2>1. chosen \in Saved /\ Written(Blank) \in Files
    BY <1>9, Documents DEF RollbackTruncate, RestoreInv, IsNewest
  <2>2. backups'[chosen'] # Missing
    BY <1>9, <2>1 DEF RollbackTruncate, Saved
  <2> QED
    BY <1>9, <2>1, <2>2 DEF RollbackTruncate, history
<1>10. CASE RollbackFill
  BY <1>10 DEF RollbackFill, End, history
<1>11. CASE UnlinkBackup
  BY <1>11 DEF UnlinkBackup, End, history
<1>12. CASE Edit
  <2>1. file' \in Files /\ own' \in Files /\ perils' \subseteq {"edited", "shared", "torn"}
    BY <1>12 DEF Edit, Files
  <2>2. edits' \in 0..MaxEdits
    BY <1>12, ConfigAssumption DEF Edit
  <2> QED
    BY <1>12, <2>1, <2>2 DEF Edit
<1>13. CASE Tick
  BY <1>13 DEF Tick, End, history
<1>14. CASE Kill
  BY <1>14 DEF Kill, End, history
<1>15. CASE UNCHANGED vars
  BY <1>15 DEF vars, history, End, history
<1> QED
  BY <1>1, <1>2, <1>3, <1>4, <1>5, <1>6, <1>7, <1>8, <1>9, <1>10, <1>11, <1>12, <1>13, <1>14,
     <1>15, <1>16 DEF Next

LEMMA ClockStep ==
  ASSUME IInv, [Next]_vars
  PROVE  ClockInv'
<1>1. now \in Nat /\ now' \in Nat /\ now <= now' /\ Saved \subseteq Nat
  <2>1. now' = now \/ Tick
    BY DEF Next, CallInstall, PrepareRead, BackupCreate, BackupFill, Consent, ApplyInstall, DiscardInstall,
       CallUninstall, SelectBackup, RollbackTruncate, RollbackFill, UnlinkBackup, Edit, Kill, vars
  <2> QED
    BY <2>1, ConfigAssumption DEF Tick, IInv, TypeOK, Times, Saved
<1>2. Saved' \subseteq Saved \cup {now}
  BY SavedStep DEF IInv
<1> QED
  BY <1>1, <1>2 DEF IInv, ClockInv

LEMMA RestoreStep ==
  ASSUME IInv, [Next]_vars
  PROVE  RestoreInv'
<1> USE DEF IInv, RestoreInv, IsNewest
<1>1. CASE CallInstall
  BY <1>1 DEF CallInstall, End, Saved
<1>2. CASE PrepareRead
  BY <1>2 DEF PrepareRead, End, Saved
<1>3. CASE BackupCreate
  BY <1>3 DEF BackupCreate, End, Saved
<1>16. CASE BackupFill
  BY <1>16 DEF BackupFill, End, Saved
<1>4. CASE Consent
  BY <1>4 DEF Consent, End, Saved
<1>5. CASE ApplyInstall
  BY <1>5 DEF ApplyInstall, End, Saved
<1>6. CASE DiscardInstall
  BY <1>6 DEF DiscardInstall, End, Saved
<1>7. CASE CallUninstall
  BY <1>7 DEF CallUninstall, End, Saved
<1>8. CASE SelectBackup
  <2>1. CASE Saved = {}
    BY <1>8, <2>1 DEF SelectBackup, End
  <2>2. CASE Saved # {}
    <3>1. Saved \subseteq Times /\ Saved' = Saved
      BY <1>8 DEF SelectBackup, Saved
    <3>2. chosen' = Max(Saved)
      BY <1>8, <2>2 DEF SelectBackup
    <3> QED
      BY <2>2, <3>1, <3>2, MaxOfTimes
  <2> QED
    BY <2>1, <2>2
<1>9. CASE RollbackTruncate
  BY <1>9 DEF RollbackTruncate, End, Saved
<1>10. CASE RollbackFill
  BY <1>10 DEF RollbackFill, End, Saved
<1>11. CASE UnlinkBackup
  BY <1>11 DEF UnlinkBackup, End
<1>12. CASE Edit
  BY <1>12 DEF Edit, End, Saved
<1>13. CASE Tick
  BY <1>13 DEF Tick, End, Saved
<1>14. CASE Kill
  BY <1>14 DEF Kill, End, Saved
<1>15. CASE UNCHANGED vars
  BY <1>15 DEF vars, history, End, Saved
<1> QED
  BY <1>1, <1>2, <1>3, <1>4, <1>5, <1>6, <1>7, <1>8, <1>9, <1>10, <1>11, <1>12, <1>13, <1>14,
     <1>15, <1>16 DEF Next

LEMMA PlanStep ==
  ASSUME IInv, [Next]_vars
  PROVE  PlanInv'
<1> USE DEF IInv, PlanInv
<1>1. CASE CallInstall
  BY <1>1 DEF CallInstall, End, IsNewest, Saved, history
<1>2. CASE PrepareRead
  BY <1>2 DEF PrepareRead, End, IsNewest, Saved, history
<1>3. CASE BackupCreate
  <2>1. Saved' = Saved \cup {now} /\ now \in Nat
    BY <1>3, SavedStep, ConfigAssumption DEF TypeOK, Times
  <2>2. /\ plan'.backup = now /\ plan'.current = plan.current /\ plan'.proposed = plan.proposed
        /\ file' = file /\ edited' = edited /\ pc = "backup" /\ pc' = "copy"
    BY <1>3 DEF BackupCreate, TypeOK
  <2>3. \A t \in Saved' : t <= now
    BY <2>1 DEF ClockInv
  <2> QED
    BY <2>1, <2>2, <2>3 DEF IsNewest
<1>16. CASE BackupFill
  <2>1. Saved' = Saved
    BY <1>16, SavedStep
  <2>2. /\ backups'[plan.backup] = Copy(file) /\ plan' = plan /\ file' = file /\ edited' = edited
        /\ pc = "copy"
    BY <1>16 DEF BackupFill, TypeOK, history
  <2> QED
    BY <2>1, <2>2 DEF IsNewest
<1>4. CASE Consent
  BY <1>4 DEF Consent, End, IsNewest, Saved, history
<1>5. CASE ApplyInstall
  BY <1>5 DEF ApplyInstall, End, IsNewest, Saved, history
<1>6. CASE DiscardInstall
  BY <1>6 DEF DiscardInstall, End, IsNewest, Saved, history
<1>7. CASE CallUninstall
  BY <1>7 DEF CallUninstall, End, IsNewest, Saved, history
<1>8. CASE SelectBackup
  BY <1>8 DEF SelectBackup, End, IsNewest, Saved, history
<1>9. CASE RollbackTruncate
  BY <1>9 DEF RollbackTruncate, End, IsNewest, Saved, history
<1>10. CASE RollbackFill
  BY <1>10 DEF RollbackFill, End, IsNewest, Saved, history
<1>11. CASE UnlinkBackup
  BY <1>11 DEF UnlinkBackup, End, IsNewest, Saved, history
<1>12. CASE Edit
  <2>1. pc \in {"consent", "write", "discard"} => perils' # {}
    BY <1>12 DEF Edit, Complete, IsNewest
  <2> QED
    BY <1>12, <2>1 DEF Edit, IsNewest, Saved
<1>13. CASE Tick
  BY <1>13 DEF Tick, End, IsNewest, Saved, history
<1>14. CASE Kill
  BY <1>14 DEF Kill, End, IsNewest, Saved, history
<1>15. CASE UNCHANGED vars
  BY <1>15 DEF vars, history, End, IsNewest, Saved, history
<1> QED
  BY <1>1, <1>2, <1>3, <1>4, <1>5, <1>6, <1>7, <1>8, <1>9, <1>10, <1>11, <1>12, <1>13, <1>14,
     <1>15, <1>16 DEF Next

LEMMA QuietStep ==
  ASSUME IInv, [Next]_vars
  PROVE  QuietInv'
<1> USE DEF IInv, QuietInv, UninstallUndoesInstall
<1>1. CASE CallInstall
  BY <1>1 DEF CallInstall, End, IsNewest, Saved, history
<1>2. CASE PrepareRead
  BY <1>2 DEF PrepareRead, End, IsNewest, Saved, history
<1>3. CASE BackupCreate
  BY <1>3 DEF BackupCreate, End, IsNewest, Saved, history
<1>16. CASE BackupFill
  BY <1>16 DEF BackupFill, End, IsNewest, Saved, history
<1>4. CASE Consent
  BY <1>4 DEF Consent, End, IsNewest, Saved, history
<1>5. CASE ApplyInstall
  <2>1. IsNewest(plan.backup) /\ Saved' = Saved
    BY <1>5 DEF ApplyInstall, PlanInv, Saved
  <2>2. IsNewest(plan.backup)'
    BY <1>5, <2>1 DEF ApplyInstall, IsNewest
  <2> QED
    BY <1>5, <2>2 DEF ApplyInstall, End
<1>6. CASE DiscardInstall
  BY <1>6 DEF DiscardInstall, End, IsNewest, Saved, history
<1>7. CASE CallUninstall
  BY <1>7 DEF CallUninstall, End, IsNewest, Saved, history
<1>8. CASE SelectBackup
  <2>1. SUFFICES ASSUME quiet PROVE QuietInv'
    BY <1>8 DEF SelectBackup, history
  <2>2. IsNewest(plan.backup) /\ before = backups[plan.backup]
    BY <1>8, <2>1 DEF SelectBackup
  <2>3. chosen' = Max(Saved) /\ pc' = "truncate" /\ result' = result
    BY <1>8, <2>2 DEF SelectBackup, IsNewest
  <2>4. Max(Saved) = plan.backup
    <3>1. Saved \subseteq Times /\ plan.backup \in Saved
      BY <2>2 DEF Saved, IsNewest
    <3> QED
      BY <2>2, <3>1, MaxIsGreatest DEF IsNewest
  <2> QED
    BY <1>8, <2>2, <2>3, <2>4 DEF SelectBackup, history
<1>9. CASE RollbackTruncate
  BY <1>9 DEF RollbackTruncate, End, IsNewest, Saved, history
<1>10. CASE RollbackFill
  BY <1>10 DEF RollbackFill, End, IsNewest, Saved, history
<1>11. CASE UnlinkBackup
  BY <1>11 DEF UnlinkBackup, End, IsNewest, Saved, history
<1>12. CASE Edit
  BY <1>12 DEF Edit, End, IsNewest, Saved, history
<1>13. CASE Tick
  BY <1>13 DEF Tick, End, IsNewest, Saved, history
<1>14. CASE Kill
  BY <1>14 DEF Kill, End, IsNewest, Saved, history
<1>15. CASE UNCHANGED vars
  BY <1>15 DEF vars, history, End, IsNewest, Saved, history
<1> QED
  BY <1>1, <1>2, <1>3, <1>4, <1>5, <1>6, <1>7, <1>8, <1>9, <1>10, <1>11, <1>12, <1>13, <1>14,
     <1>15, <1>16 DEF Next

LEMMA OwnStep ==
  ASSUME IInv, [Next]_vars
  PROVE  OwnInv'
<1> USE DEF IInv, OwnInv
<1>1. CASE CallInstall
  BY <1>1 DEF CallInstall, End, IsOldest, Complete, Saved, history
<1>2. CASE PrepareRead
  BY <1>2 DEF PrepareRead, End, IsOldest, Complete, Saved, history
<1>3. CASE BackupCreate
  <2>1. SUFFICES ASSUME perils = {}, Saved # {now} PROVE OwnInv'
    BY <1>3 DEF BackupCreate
  <2>2. Saved' = Saved \cup {now} /\ now \in Nat /\ Saved \subseteq Nat
    BY <1>3, SavedStep, ConfigAssumption DEF TypeOK, Times, Saved
  <2>3. /\ backups' = [backups EXCEPT ![now] = Written(Blank)] /\ plan'.backup = now
        /\ own' = own /\ pc = "backup" /\ pc' = "copy" /\ file' = file
    BY <1>3 DEF BackupCreate, TypeOK
  <2>4. Complete = Saved /\ Complete' = (Saved \cup {now}) \ {now}
    BY <2>2, <2>3 DEF Complete
  <2>5. CASE Saved = {}
    BY <2>1, <2>3, <2>4, <2>5
  <2>6. CASE Saved # {}
    <3>1. PICK t \in Saved : IsOldest(t) /\ backups[t] = Copy(own)
      BY <2>1, <2>4, <2>6
    <3>2. \A u \in Saved : t <= u /\ u <= now
      BY <3>1 DEF IsOldest, ClockInv
    <3>3. t # now
      <4>1. SUFFICES ASSUME t = now PROVE Saved = {now}
        BY <2>1
      <4>2. \A u \in Saved : u = now
        BY <2>2, <3>2, <4>1
      <4> QED
        BY <4>1, <4>2
    <3>4. backups'[t] = Copy(own)
      BY <2>3, <3>1, <3>3 DEF TypeOK, Saved
    <3>5. IsOldest(t)'
      BY <2>2, <2>4, <3>1, <3>2, <3>3 DEF IsOldest
    <3> QED
      BY <2>3, <2>4, <3>3, <3>4, <3>5
  <2> QED
    BY <2>5, <2>6
<1>16. CASE BackupFill
  <2>1. SUFFICES ASSUME perils = {} PROVE OwnInv'
    BY <1>16 DEF BackupFill, history
  <2>2. /\ IsNewest(plan.backup) /\ Saved' = Saved /\ Saved \subseteq Nat
        /\ Complete = Saved \ {plan.backup} /\ Complete' = Saved
    BY <1>16, SavedStep, ConfigAssumption DEF BackupFill, PlanInv, Complete, Saved, Times
  <2>3. backups' = [backups EXCEPT ![plan.backup] = Copy(file)] /\ own' = own /\ pc' # "unlink"
    BY <1>16 DEF BackupFill, history
  <2>4. CASE Complete = {}
    <3>1. Saved = {plan.backup}
      BY <2>2, <2>4 DEF IsNewest
    <3>2. backups'[plan.backup] = Copy(own)
      BY <2>1, <2>3, <2>4, <3>1 DEF TypeOK, Saved
    <3>3. IsOldest(plan.backup)'
      BY <1>16, <2>2, <3>1 DEF BackupFill, IsOldest
    <3> QED
      BY <1>16, <2>2, <2>3, <3>1, <3>2, <3>3 DEF BackupFill
  <2>5. CASE Complete # {}
    <3>1. PICK t \in Complete : IsOldest(t) /\ backups[t] = Copy(own)
      BY <2>1, <2>5
    <3>2. backups'[t] = Copy(own)
      BY <2>2, <2>3, <3>1 DEF TypeOK, Saved
    <3>3. IsOldest(t)'
      BY <2>2, <3>1 DEF IsOldest
    <3> QED
      BY <2>2, <2>3, <3>1, <3>2, <3>3
  <2> QED
    BY <2>4, <2>5
<1>4. CASE Consent
  BY <1>4 DEF Consent, End, IsOldest, Complete, Saved, history
<1>5. CASE ApplyInstall
  <2>1. SUFFICES ASSUME perils = {} PROVE OwnInv'
    BY <1>5 DEF ApplyInstall, history
  <2>2. Saved' = Saved /\ Saved # {} /\ Complete = Saved /\ Complete' = Saved
    BY <1>5 DEF ApplyInstall, End, PlanInv, IsNewest, Saved, Complete
  <2>3. PICK t \in Saved : IsOldest(t) /\ backups[t] = Copy(own)
    BY <2>1, <2>2
  <2>4. IsOldest(t)'
    BY <2>2, <2>3 DEF IsOldest
  <2> QED
    BY <1>5, <2>2, <2>3, <2>4 DEF ApplyInstall, End, history
<1>6. CASE DiscardInstall
  <2>1. SUFFICES ASSUME perils = {} PROVE OwnInv'
    BY <1>6 DEF DiscardInstall, history
  <2>2. Complete = Saved /\ Complete' = Saved'
    BY <1>6 DEF DiscardInstall, End, Complete
  <2>3. IsNewest(plan.backup) /\ Saved' = Saved \ {plan.backup}
    <3>1. IsNewest(plan.backup)
      BY <1>6 DEF DiscardInstall, PlanInv
    <3> QED
      BY <1>6, <3>1, SavedStep
  <2>4. Copy(file) = Copy(backups[plan.backup])
    BY <1>6, <2>1, CopyOfFile DEF DiscardInstall, PlanInv, TypeOK
  <2>5. PICK t \in Saved : IsOldest(t) /\ backups[t] = Copy(own)
    BY <2>1, <2>3, <2>2 DEF IsNewest
  <2>6. Saved \subseteq Nat
    BY ConfigAssumption DEF Saved, Times
  <2>7. CASE t = plan.backup
    <3>1. Saved' = {}
      BY <2>3, <2>5, <2>6, <2>7 DEF IsNewest, IsOldest
    <3>2. Copy(own) = Copy(file)
      BY <2>4, <2>5, <2>7, CopyOfFile DEF TypeOK
    <3> QED
      BY <1>6, <2>2, <3>1, <3>2 DEF DiscardInstall, End, history
  <2>8. CASE t # plan.backup
    <3>1. t \in Saved' /\ backups'[t] = Copy(own)
      BY <1>6, <2>3, <2>5, <2>8 DEF DiscardInstall, TypeOK, Saved
    <3>2. IsOldest(t)'
      BY <2>3, <2>5, <2>2, <3>1 DEF IsOldest
    <3> QED
      BY <1>6, <2>2, <3>1, <3>2 DEF DiscardInstall, End, history
  <2> QED
    BY <2>7, <2>8
<1>7. CASE CallUninstall
  BY <1>7 DEF CallUninstall, End, IsOldest, Complete, Saved, history
<1>8. CASE SelectBackup
  BY <1>8 DEF SelectBackup, End, IsOldest, Complete, Saved, history
<1>9. CASE RollbackTruncate
  <2>1. SUFFICES ASSUME perils = {} PROVE OwnInv'
    BY <1>9 DEF RollbackTruncate, history
  <2>2. Saved' = Saved /\ Saved # {} /\ Complete = Saved /\ Complete' = Saved
    BY <1>9 DEF RollbackTruncate, End, RestoreInv, IsNewest, Saved, Complete
  <2>3. PICK t \in Saved : IsOldest(t) /\ backups[t] = Copy(own)
    BY <2>1, <2>2
  <2>4. IsOldest(t)'
    BY <2>2, <2>3 DEF IsOldest
  <2> QED
    BY <1>9, <2>2, <2>3, <2>4 DEF RollbackTruncate, End, history
<1>10. CASE RollbackFill
  <2>1. SUFFICES ASSUME perils = {} PROVE OwnInv'
    BY <1>10 DEF RollbackFill, history
  <2>2. Saved' = Saved /\ Saved # {} /\ Complete = Saved /\ Complete' = Saved
    BY <1>10 DEF RollbackFill, End, RestoreInv, IsNewest, Saved, Complete
  <2>3. PICK t \in Saved : IsOldest(t) /\ backups[t] = Copy(own)
    BY <2>1, <2>2
  <2>4. IsOldest(t)'
    BY <2>2, <2>3 DEF IsOldest
  <2> QED
    BY <1>10, <2>2, <2>3, <2>4 DEF RollbackFill, End, history
<1>11. CASE UnlinkBackup
  <2>1. SUFFICES ASSUME perils = {} PROVE OwnInv'
    BY <1>11 DEF UnlinkBackup, history
  <2>2. Complete = Saved /\ Complete' = Saved'
    BY <1>11 DEF UnlinkBackup, End, Complete
  <2>3. IsNewest(chosen) /\ Saved' = Saved \ {chosen}
    <3>1. IsNewest(chosen)
      BY <1>11 DEF UnlinkBackup, RestoreInv
    <3> QED
      BY <1>11, <3>1, SavedStep
  <2>4. Copy(file) = Copy(backups[chosen])
    BY <1>11, <2>1 DEF UnlinkBackup
  <2>5. PICK t \in Saved : IsOldest(t) /\ backups[t] = Copy(own)
    BY <2>1, <2>3, <2>2 DEF IsNewest
  <2>6. Saved \subseteq Nat
    BY ConfigAssumption DEF Saved, Times
  <2>7. CASE t = chosen
    <3>1. Saved' = {}
      BY <2>3, <2>5, <2>6, <2>7 DEF IsNewest, IsOldest
    <3>2. Copy(own) = Copy(file)
      BY <2>4, <2>5, <2>7, CopyOfFile DEF TypeOK
    <3> QED
      BY <1>11, <2>2, <3>1, <3>2 DEF UnlinkBackup, End, history
  <2>8. CASE t # chosen
    <3>1. t \in Saved' /\ backups'[t] = Copy(own)
      BY <1>11, <2>3, <2>5, <2>8 DEF UnlinkBackup, TypeOK, Saved
    <3>2. IsOldest(t)'
      BY <2>3, <2>5, <2>2, <3>1 DEF IsOldest
    <3> QED
      BY <1>11, <2>2, <3>1, <3>2 DEF UnlinkBackup, End, history
  <2> QED
    BY <2>7, <2>8
<1>12. CASE Edit
  <2>1. SUFFICES ASSUME perils' = {} PROVE OwnInv'
    OBVIOUS
  <2>2. Complete = {} /\ Complete' = {} /\ own' = file' /\ pc' = pc
    BY <1>12, <2>1 DEF Edit, Complete, Saved
  <2>3. pc # "unlink"
    BY <2>2 DEF RestoreInv, IsNewest, Complete
  <2> QED
    BY <2>2, <2>3
<1>13. CASE Tick
  BY <1>13 DEF Tick, End, IsOldest, Complete, Saved, history
<1>14. CASE Kill
  <2>1. SUFFICES ASSUME perils = {}, pc = "copy" => Complete # {} PROVE OwnInv'
    BY <1>14 DEF Kill
  <2>2. Saved' = Saved /\ Complete' = Saved /\ Complete \subseteq Saved
    BY <1>14 DEF Kill, End, Complete, Saved
  <2>3. pc # "copy" => Complete = Saved
    BY DEF Complete
  <2>4. CASE Saved = {}
    BY <1>14, <2>1, <2>2, <2>3, <2>4 DEF Kill, End
  <2>5. CASE Saved # {}
    <3>1. PICK t \in Complete : IsOldest(t) /\ backups[t] = Copy(own)
      BY <2>1, <2>3, <2>5
    <3>2. IsOldest(t)'
      BY <2>2, <3>1 DEF IsOldest
    <3> QED
      BY <1>14, <2>2, <3>1, <3>2 DEF Kill, End
  <2> QED
    BY <2>4, <2>5
<1>15. CASE UNCHANGED vars
  BY <1>15 DEF vars, history, End, IsOldest, Complete, Saved, history
<1> QED
  BY <1>1, <1>2, <1>3, <1>4, <1>5, <1>6, <1>7, <1>8, <1>9, <1>10, <1>11, <1>12, <1>13, <1>14,
     <1>15, <1>16 DEF Next

-----------------------------------------------------------------------------
(* The theorems.                                                           *)

LEMMA InitIInv == Init => IInv
<1> SUFFICES ASSUME Init PROVE IInv
  OBVIOUS
<1>1. Saved = {} /\ 0 \in Times /\ own = file
  BY ConfigAssumption DEF Init, Saved, Times
<1>2. file \in Files
  BY ConfigAssumption DEF Init, Files, Text
<1>3. NoPlan \in [current : Parse, proposed : Parse, backup : Times]
  BY <1>1, Documents DEF NoPlan
<1>4. TypeOK
  <2>1. backups \in [Times -> Files] /\ before \in Files /\ own \in Files
    BY <1>1, <1>2, Documents DEF Init
  <2>2. now \in Times /\ chosen \in Times /\ commands \in 0..MaxCommands /\ edits \in 0..MaxEdits
    BY <1>1, ConfigAssumption DEF Init
  <2> QED
    BY <1>2, <1>3, <2>1, <2>2 DEF Init, TypeOK
<1>5. ClockInv /\ RestoreInv /\ PlanInv /\ QuietInv /\ OwnInv
  BY <1>1 DEF Init, Complete, ClockInv, RestoreInv, PlanInv, QuietInv, OwnInv
<1> QED
  BY <1>4, <1>5 DEF IInv

LEMMA NextIInv == IInv /\ [Next]_vars => IInv'
  BY TypeStep, ClockStep, RestoreStep, PlanStep, QuietStep, OwnStep DEF IInv

\* The inductive invariant holds in every state.
THEOREM ConfigInvariant == Spec => []IInv
  BY InitIInv, NextIInv, PTL DEF Spec

\* Whatever is installed, refused, killed, restored or edited, files are files, a plan
\* holds two documents, and a rollback fills the file from a backup that is there.
THEOREM ConfigTypeCorrect == Spec => []TypeOK
<1>1. IInv => TypeOK
  BY DEF IInv
<1> QED
  BY ConfigInvariant, <1>1, PTL

\* An uninstall that follows an install, with nobody interfering, restores the file
\* that install had backed up, for any number of commands and backups before.
THEOREM ConfigUninstallUndoesInstall == Spec => []UninstallUndoesInstall
<1>1. IInv => UninstallUndoesInstall
  BY DEF IInv, QuietInv, UninstallUndoesInstall
<1> QED
  BY ConfigInvariant, <1>1, PTL

\* What the user wrote is lost in no other way than the three of perils: it is the file,
\* or the oldest complete backup has it.
THEOREM ConfigOwnTextSurvives == Spec => []OwnTextSurvives
<1>1. IInv => OwnTextSurvives
  BY DEF IInv, OwnInv, OwnTextSurvives, Kept, Complete
<1> QED
  BY ConfigInvariant, <1>1, PTL

\* An install that ends well leaves the user's keys as they are in the file and sets
\* the entry of the plan, unless he edited the file meanwhile or reading it loses keys.
THEOREM ConfigInstallKeepsKeys == Spec => InstallKeepsKeys
<1>1. IInv /\ [Next]_vars =>
        [pc = "write" /\ pc' = "idle" /\ ~edited /\ result' = "installed" /\ file.form # "tangled"
           => file'.keys = file.keys /\ file'.apoch = plan.proposed.apoch]_vars
  <2> SUFFICES ASSUME IInv, [Next]_vars, pc = "write", pc' = "idle", ~edited,
                      result' = "installed", file.form # "tangled"
               PROVE  file'.keys = file.keys /\ file'.apoch = plan.proposed.apoch
    OBVIOUS
  <2>1. ApplyInstall
    BY DEF Next, CallInstall, PrepareRead, BackupCreate, BackupFill, Consent, DiscardInstall, CallUninstall,
       SelectBackup, RollbackTruncate, RollbackFill, UnlinkBackup, Edit, Tick, Kill, End, vars
  <2>2. PICK l \in Launchers : plan.proposed = Merge(plan.current, l)
    BY DEF IInv, PlanInv
  <2>3. plan.current = Read(file) /\ plan.current \in Parse
    BY DEF IInv, PlanInv, TypeOK
  <2>4. plan.proposed.keys = file.keys
    BY <2>2, <2>3 DEF Merge, Read, Parse
  <2> QED
    BY <2>1, <2>4 DEF ApplyInstall, Written
<1> QED
  BY ConfigInvariant, <1>1, PTL DEF Spec, InstallKeepsKeys

\* No step of a command, complete or cut short, makes a readable file unreadable; only
\* the user does, or a backup of a text that he broke.
THEOREM ConfigStaysReadable == Spec => StaysReadable
<1>1. IInv /\ [Next]_vars =>
        [~Unreadable(file) /\ Unreadable(file')
           => edits' > edits \/ \E t \in Saved : Unreadable(backups[t])]_vars
  <2> SUFFICES ASSUME IInv, [Next]_vars, ~Unreadable(file), Unreadable(file')
               PROVE  edits' > edits \/ \E t \in Saved : Unreadable(backups[t])
    OBVIOUS
  <2>1. file' # file
    OBVIOUS
  <2>2. ApplyInstall \/ RollbackTruncate \/ RollbackFill \/ Edit
    BY <2>1 DEF Next, CallInstall, PrepareRead, BackupCreate, BackupFill, Consent, DiscardInstall,
       CallUninstall, SelectBackup, UnlinkBackup, Tick, Kill, vars
  <2>3. ~ApplyInstall /\ ~RollbackTruncate
    BY DEF ApplyInstall, RollbackTruncate, Written, Unreadable
  <2>4. CASE RollbackFill
    BY <2>4 DEF RollbackFill, IInv, RestoreInv, IsNewest
  <2>5. CASE Edit
    BY <2>5, ConfigAssumption DEF Edit, IInv, TypeOK
  <2> QED
    BY <2>2, <2>3, <2>4, <2>5
<1> QED
  BY ConfigInvariant, <1>1, PTL DEF Spec, StaysReadable
=============================================================================
