--------------------------- MODULE ConfigStoreProofs ---------------------------
(***************************************************************************)
(* What holds of ConfigStore for every number of pages, every set of       *)
(* configurations and every set of hand edits.                             *)
(***************************************************************************)
EXTENDS ConfigStore, TLAPS

-----------------------------------------------------------------------------
(* Contents *)

\* A document describes a configuration, and the broken one is the only one
\* that is not valid.
LEMMA Documents ==
    ASSUME NEW d \in Contents
    PROVE  /\ Parsed(d) \in Configs
           /\ ~Valid(d) => d = Broken
BY ConfigsAssumption DEF Contents, Parsed, Valid, Canonical, ByHand, Broken, NoFile

LEMMA Fixed ==
    /\ Broken \in Contents /\ NoFile \in Contents
    /\ \A c \in Configs : Canonical(c) \in Contents /\ Parsed(Canonical(c)) = c
    /\ Edits \subseteq Contents
    /\ Empty \in Configs
BY ConfigsAssumption, EditsAssumption DEF Contents, Canonical, Parsed

-----------------------------------------------------------------------------
(* Types *)

\* What the watcher holds in the branches it takes for contents it refused.
Refused ==
    /\ poller = "record" => seen = Broken
    /\ poller = "swap" => seen \in {Broken, NoFile}

\* A configuration past Save's validation is a valid one.
Vetted == \A s \in Savers : pc[s] \in {"write", "commit", "notify"} => cfg[s] \in Configs

TypeInv == TypeOK /\ Refused /\ Vetted

\* Every step keeps the types, and what the types rest on.
LEMMA TypeStep == TypeInv /\ [Next]_vars => TypeInv'
<1> SUFFICES ASSUME TypeInv, [Next]_vars PROVE TypeInv'
  OBVIOUS
<1> USE Fixed DEF TypeInv, TypeOK, Refused, Vetted, store, watcher, savers, PollStates, SaveStates
<1>1. CASE Load
  BY <1>1, Documents DEF Load
<1>2. CASE Crash
  BY <1>2 DEF Crash
<1>3. ASSUME NEW d \in Edits, HandEdit(d) PROVE TypeInv'
  BY <1>3 DEF HandEdit
<1>4. CASE PollRead
  BY <1>4 DEF PollRead
<1>5. CASE PollCompare
  <2>1. CASE PollSame
    BY <1>5, <2>1 DEF PollCompare, PollSame
  <2>2. CASE PollDiffers
    BY <1>5, <2>2, Documents DEF PollCompare, PollDiffers
  <2> QED
    BY <1>5, <2>1, <2>2 DEF PollCompare
<1>6. CASE PollRecord
  BY <1>6 DEF PollRecord
<1>7. CASE PollSwap
  BY <1>7 DEF PollSwap
<1>8. CASE PollApply
  BY <1>8, Documents DEF PollApply
<1>9. CASE PollNotify
  BY <1>9, Documents DEF PollNotify
<1>10. ASSUME NEW s \in Savers, OpenForm(s) PROVE TypeInv'
  BY <1>10 DEF OpenForm
<1>11. ASSUME NEW s \in Savers, NEW c \in Configs \cup {Invalid}, Submit(s, c) PROVE TypeInv'
  BY <1>11 DEF Submit
<1>12. ASSUME NEW s \in Savers, SaveRefused(s) PROVE TypeInv'
  BY <1>12 DEF SaveRefused
<1>13. ASSUME NEW s \in Savers, SaveAccepted(s) PROVE TypeInv'
  BY <1>13 DEF SaveAccepted
<1>14. ASSUME NEW s \in Savers, SaveWriteFails(s) PROVE TypeInv'
  BY <1>14 DEF SaveWriteFails
<1>15. ASSUME NEW s \in Savers, SaveWrite(s) PROVE TypeInv'
  BY <1>15 DEF SaveWrite
<1>16. ASSUME NEW s \in Savers, SaveCommit(s) PROVE TypeInv'
  BY <1>16 DEF SaveCommit
<1>17. ASSUME NEW s \in Savers, SaveNotify(s) PROVE TypeInv'
  BY <1>17 DEF SaveNotify
<1>18. CASE UNCHANGED vars
  BY <1>18 DEF vars
<1> QED
  BY <1>1, <1>2, <1>3, <1>4, <1>5, <1>6, <1>7, <1>8, <1>9, <1>10, <1>11, <1>12,
     <1>13, <1>14, <1>15, <1>16, <1>17, <1>18 DEF Next, Poll, Save

LEMMA TypeInit == Init => TypeInv
<1> SUFFICES ASSUME Init PROVE TypeInv
  OBVIOUS
<1>1. TypeOK
  BY Fixed, ConfigsAssumption DEF Init, Fresh, TypeOK, PollStates, SaveStates
<1>2. Refused /\ Vetted
  BY DEF Init, Refused, Vetted
<1> QED
  BY <1>1, <1>2 DEF TypeInv

\* The variables keep their types, for any pages, configurations and edits.
THEOREM StoreTypes == Spec => []TypeOK
<1>1. Init => TypeInv
  BY TypeInit
<1>2. TypeInv => TypeOK
  BY DEF TypeInv
<1> QED
  BY <1>1, <1>2, TypeStep, PTL DEF Spec

-----------------------------------------------------------------------------
(* The lock *)

\* While the process is down nothing of it is left running.
Down == ~up => poller = "asleep" /\ \A s \in Savers : pc[s] \in {"browse", "form"}

LockInv == OneWriter /\ Down

\* Every step keeps the lock with the one saver inside the write.
LEMMA LockStep == TypeInv /\ LockInv /\ [Next]_vars => LockInv'
<1> SUFFICES ASSUME TypeInv, LockInv, [Next]_vars PROVE LockInv'
  OBVIOUS
<1> USE SaversAssumption DEF TypeInv, TypeOK, LockInv, OneWriter, Down, store, watcher, savers, SaveStates
<1>1. CASE Load
  BY <1>1 DEF Load
<1>2. CASE Crash
  BY <1>2 DEF Crash
<1>3. ASSUME NEW d \in Edits, HandEdit(d) PROVE LockInv'
  BY <1>3 DEF HandEdit
<1>4. CASE PollRead
  BY <1>4 DEF PollRead
<1>5. CASE PollCompare
  BY <1>5 DEF PollCompare, PollSame, PollDiffers
<1>6. CASE PollRecord
  BY <1>6 DEF PollRecord
<1>7. CASE PollSwap
  BY <1>7 DEF PollSwap
<1>8. CASE PollApply
  BY <1>8 DEF PollApply
<1>9. CASE PollNotify
  BY <1>9 DEF PollNotify
<1>10. ASSUME NEW s \in Savers, OpenForm(s) PROVE LockInv'
  BY <1>10 DEF OpenForm
<1>11. ASSUME NEW s \in Savers, NEW c \in Configs \cup {Invalid}, Submit(s, c) PROVE LockInv'
  BY <1>11 DEF Submit
<1>12. ASSUME NEW s \in Savers, SaveRefused(s) PROVE LockInv'
  BY <1>12 DEF SaveRefused
<1>13. ASSUME NEW s \in Savers, SaveAccepted(s) PROVE LockInv'
  BY <1>13 DEF SaveAccepted
<1>14. ASSUME NEW s \in Savers, SaveWriteFails(s) PROVE LockInv'
  BY <1>14 DEF SaveWriteFails
<1>15. ASSUME NEW s \in Savers, SaveWrite(s) PROVE LockInv'
  BY <1>15 DEF SaveWrite
<1>16. ASSUME NEW s \in Savers, SaveCommit(s) PROVE LockInv'
  BY <1>16 DEF SaveCommit
<1>17. ASSUME NEW s \in Savers, SaveNotify(s) PROVE LockInv'
  BY <1>17 DEF SaveNotify
<1>18. CASE UNCHANGED vars
  BY <1>18 DEF vars
<1> QED
  BY <1>1, <1>2, <1>3, <1>4, <1>5, <1>6, <1>7, <1>8, <1>9, <1>10, <1>11, <1>12,
     <1>13, <1>14, <1>15, <1>16, <1>17, <1>18 DEF Next, Poll, Save

\* Only the holder of the lock is inside the write, and the lock is never left held.
THEOREM LockIsKept == Spec => []OneWriter
<1>1. Init => TypeInv /\ LockInv
  BY TypeInit, SaversAssumption DEF Init, LockInv, OneWriter, Down
<1>2. LockInv => OneWriter
  BY DEF LockInv
<1> QED
  BY <1>1, <1>2, TypeStep, LockStep, PTL DEF Spec

-----------------------------------------------------------------------------
(* The hash a form carries *)

\* Every step keeps the live configuration with the hash it carries.
LEMMA FormStep == TypeInv /\ FormShowsItsFile /\ [Next]_vars => FormShowsItsFile'
<1> SUFFICES ASSUME TypeInv, FormShowsItsFile, [Next]_vars PROVE FormShowsItsFile'
  OBVIOUS
<1> USE DEF TypeInv, TypeOK, FormShowsItsFile, store, watcher, savers
<1>1. CASE Load
  BY <1>1 DEF Load, Valid
<1>2. CASE Crash
  BY <1>2 DEF Crash, NoFile
<1>3. ASSUME NEW d \in Edits, HandEdit(d) PROVE FormShowsItsFile'
  BY <1>3 DEF HandEdit
<1>4. CASE PollRead
  BY <1>4 DEF PollRead
<1>5. CASE PollCompare
  BY <1>5 DEF PollCompare, PollSame, PollDiffers
<1>6. CASE PollRecord
  BY <1>6 DEF PollRecord
<1>7. CASE PollSwap
  BY <1>7 DEF PollSwap, Refused, Broken, NoFile
<1>8. CASE PollApply
  BY <1>8 DEF PollApply
<1>9. CASE PollNotify
  BY <1>9 DEF PollNotify
<1>10. ASSUME NEW s \in Savers, OpenForm(s) PROVE FormShowsItsFile'
  BY <1>10 DEF OpenForm
<1>11. ASSUME NEW s \in Savers, NEW c \in Configs \cup {Invalid}, Submit(s, c) PROVE FormShowsItsFile'
  BY <1>11 DEF Submit
<1>12. ASSUME NEW s \in Savers, SaveRefused(s) PROVE FormShowsItsFile'
  BY <1>12 DEF SaveRefused
<1>13. ASSUME NEW s \in Savers, SaveAccepted(s) PROVE FormShowsItsFile'
  BY <1>13 DEF SaveAccepted
<1>14. ASSUME NEW s \in Savers, SaveWriteFails(s) PROVE FormShowsItsFile'
  BY <1>14 DEF SaveWriteFails
<1>15. ASSUME NEW s \in Savers, SaveWrite(s) PROVE FormShowsItsFile'
  BY <1>15 DEF SaveWrite
<1>16. ASSUME NEW s \in Savers, SaveCommit(s) PROVE FormShowsItsFile'
  BY <1>16 DEF SaveCommit, Canonical, Parsed
<1>17. ASSUME NEW s \in Savers, SaveNotify(s) PROVE FormShowsItsFile'
  BY <1>17 DEF SaveNotify
<1>18. CASE UNCHANGED vars
  BY <1>18 DEF vars
<1> QED
  BY <1>1, <1>2, <1>3, <1>4, <1>5, <1>6, <1>7, <1>8, <1>9, <1>10, <1>11, <1>12,
     <1>13, <1>14, <1>15, <1>16, <1>17, <1>18 DEF Next, Poll, Save

\* A form that carries the hash of a valid file shows that file's configuration.
THEOREM FormsAreFaithful == Spec => []FormShowsItsFile
<1>1. Init => TypeInv /\ FormShowsItsFile
  BY TypeInit DEF Init, Fresh, FormShowsItsFile, NoFile
<1> QED
  BY <1>1, TypeStep, FormStep, PTL DEF Spec

-----------------------------------------------------------------------------
(* The known hash *)

\* Why the guard knows the file. What poll has read is the file, unless it was
\* overtaken; what a save has renamed into place is the file until it is
\* committed, unless the file changed again or a poll has read it since; and
\* at any other time the known hash is the file's.
GuardInv ==
    ~overtaken =>
        /\ up /\ poller = "compare" => seen = disk
        /\ poller # "compare" => \A s \in Savers : pc[s] = "commit" => disk = Canonical(cfg[s])
        /\ GuardKnowsFile

\* Every step keeps what the store knows of the file.
LEMMA GuardStep == TypeInv /\ LockInv /\ GuardInv /\ [Next]_vars => GuardInv'
<1> SUFFICES ASSUME TypeInv, LockInv, GuardInv, [Next]_vars PROVE GuardInv'
  OBVIOUS
<1> USE SaversAssumption DEF TypeInv, TypeOK, LockInv, OneWriter, Down, GuardInv, GuardKnowsFile, store, watcher, savers
<1>1. CASE Load
  BY <1>1 DEF Load
<1>2. CASE Crash
  BY <1>2 DEF Crash
<1>3. ASSUME NEW d \in Edits, HandEdit(d) PROVE GuardInv'
  BY <1>3 DEF HandEdit
<1>4. CASE PollRead
  BY <1>4 DEF PollRead
<1>5. CASE PollCompare
  BY <1>5 DEF PollCompare, PollSame, PollDiffers
<1>6. CASE PollRecord
  BY <1>6 DEF PollRecord
<1>7. CASE PollSwap
  BY <1>7 DEF PollSwap
<1>8. CASE PollApply
  BY <1>8 DEF PollApply
<1>9. CASE PollNotify
  BY <1>9 DEF PollNotify
<1>10. ASSUME NEW s \in Savers, OpenForm(s) PROVE GuardInv'
  BY <1>10 DEF OpenForm
<1>11. ASSUME NEW s \in Savers, NEW c \in Configs \cup {Invalid}, Submit(s, c) PROVE GuardInv'
  BY <1>11 DEF Submit
<1>12. ASSUME NEW s \in Savers, SaveRefused(s) PROVE GuardInv'
  BY <1>12 DEF SaveRefused
<1>13. ASSUME NEW s \in Savers, SaveAccepted(s) PROVE GuardInv'
  BY <1>13 DEF SaveAccepted
<1>14. ASSUME NEW s \in Savers, SaveWriteFails(s) PROVE GuardInv'
  BY <1>14 DEF SaveWriteFails
<1>15. ASSUME NEW s \in Savers, SaveWrite(s) PROVE GuardInv'
  BY <1>15 DEF SaveWrite
<1>16. ASSUME NEW s \in Savers, SaveCommit(s) PROVE GuardInv'
  BY <1>16 DEF SaveCommit
<1>17. ASSUME NEW s \in Savers, SaveNotify(s) PROVE GuardInv'
  BY <1>17 DEF SaveNotify
<1>18. CASE UNCHANGED vars
  BY <1>18 DEF vars
<1> QED
  BY <1>1, <1>2, <1>3, <1>4, <1>5, <1>6, <1>7, <1>8, <1>9, <1>10, <1>11, <1>12,
     <1>13, <1>14, <1>15, <1>16, <1>17, <1>18 DEF Next, Poll, Save

\* Between the polls that follow a change of the file, the hash a save is
\* compared with is the hash of the file.
THEOREM GuardIsCurrent == Spec => []GuardKnowsFile
<1>1. Init => TypeInv /\ LockInv /\ GuardInv
  BY TypeInit, SaversAssumption DEF Init, LockInv, OneWriter, Down, GuardInv, GuardKnowsFile
<1>2. GuardInv => GuardKnowsFile
  BY DEF GuardInv, GuardKnowsFile
<1> QED
  BY <1>1, <1>2, TypeStep, LockStep, GuardStep, PTL DEF Spec
==============================================================================
