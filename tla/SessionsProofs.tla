---------------------------- MODULE SessionsProofs ----------------------------
(***************************************************************************)
(* What the history keeps, for any number of sessions, failing calls, ends *)
(* of the process and losses of power; then what the score, the rules and  *)
(* the collectors make of any computer, and what the button is on.         *)
(***************************************************************************)
EXTENDS Sessions, Sums, TLAPS, SequenceTheorems, FiniteSetTheorems, FunctionTheorems

Phases == {"closed", "adopting", "logging", "idle", "analysing", "stuck", "delivered", "writing",
           "replacing", "listing", "pruning", "quarantining"}

\* The folder of the new name is there from the first log on.
Opened == phase \in Phases \ {"closed", "adopting", "logging"} => Default \in DOMAIN data

HistoryTypes ==
  /\ phase \in Phases /\ listed \in Seq(Ids)
  /\ id \in Ids \cup {0} /\ (phase \in {"writing", "replacing"} => id \in Ids)
  /\ unflushed \subseteq Ids /\ excused \subseteq Ids /\ refused \in BOOLEAN
  /\ DOMAIN data \subseteq {Previous, Default}
  /\ faults \in 0..MaxFaults /\ kills \in 0..MaxKills

\* What is about to be moved is torn only if its write failed.
Written ==
  phase \in {"writing", "replacing"} =>
    /\ TemporaryFile(id) \in DOMAIN History
    /\ phase = "replacing" /\ History[TemporaryFile(id)] = "torn" => id \in excused

\* The two folders since the first start: one of the old name is the one that was found, and it is
\* beside one of the new name only if both were found or the rename was refused.
Adopting ==
  /\ Previous \in DOMAIN data =>
       \/ refused
       \/ \E start \in Starts :
            /\ Previous \in DOMAIN start.found /\ start.found[Previous] = data[Previous]
            /\ Default \in DOMAIN data => Default \in DOMAIN start.found
  /\ phase \notin {"adopting", "closed"} /\ Previous \in DOMAIN data => refused \/ Default \in DOMAIN data

\* The sessions of these files that are newer and not on the list.
NewerKept(session, list, files) ==
  {k \in Ids : k > session /\ SessionFile(k) \in DOMAIN files /\ \A i \in 1..Len(list) : list[i] # k}

Spared ==
  phase = "pruning" => \A i \in 1..Len(listed) : Cardinality(NewerKept(listed[i], listed, History)) >= Keep

HistoryInv == HistoryTypes /\ Opened /\ Written /\ KillNeverTears /\ Adopting /\ Spared

-----------------------------------------------------------------------------
(* Folders and their files. *)

LEMMA Removed ==
  ASSUME NEW file
  PROVE  /\ DOMAIN Without(file) = DOMAIN History \ {file}
         /\ \A f \in DOMAIN History : f # file => Without(file)[f] = History[f]
BY DEF Without

\* What is done to the history leaves the folder of the old name alone.
LEMMA OnlyHistory ==
  ASSUME NEW files, WithHistory(files)
  PROVE  /\ DOMAIN data' = DOMAIN data
         /\ Default \in DOMAIN data => History' = files
         /\ \A n \in DOMAIN data : n # Default => data'[n] = data[n]
BY DEF WithHistory, History

LEMMA Names ==
  /\ Previous # Default
  /\ \A s, t : SessionFile(s) # TemporaryFile(t) /\ SessionFile(s) # <<t, "corrupt">>
  /\ \A s, t : SessionFile(s) = SessionFile(t) => s = t
BY DEF SessionFile, TemporaryFile, Previous, Default

-----------------------------------------------------------------------------
(* Types, and the folder that is there. *)

LEMMA SavedAreIds ==
  /\ IsFiniteSet(Saved) /\ Saved \subseteq Ids /\ Cardinality(Saved) \in Nat
BY HistoryAssumption, FS_Subset, FS_CardinalityType DEF Saved

LEMMA Fewer ==
  ASSUME NEW s \in Saved, NEW t \in Saved, s < t
  PROVE  /\ Cardinality(Newer(t)) \in Nat /\ Cardinality(Newer(s)) \in Nat
         /\ Cardinality(Newer(t)) < Cardinality(Newer(s))
<1>1. Newer(t) \subseteq Newer(s) /\ t \in Newer(s) /\ t \notin Newer(t) /\ Newer(s) \subseteq Saved
  <2>1. Saved \subseteq Nat
    BY SavedAreIds, HistoryAssumption
  <2>2. s \in Nat /\ t \in Nat
    BY <2>1
  <2>3. \A k \in Saved : k > t => k > s
    BY <2>1, <2>2
  <2>4. t > s /\ ~(t > t)
    BY <2>2
  <2> QED
    BY <2>3, <2>4 DEF Newer
<1>2. IsFiniteSet(Newer(s))
  BY <1>1, SavedAreIds, FS_Subset
<1>3. /\ Cardinality(Newer(t)) <= Cardinality(Newer(s))
      /\ Cardinality(Newer(t)) # Cardinality(Newer(s)) /\ IsFiniteSet(Newer(t))
  BY <1>1, <1>2, FS_Subset
<1> QED
  BY <1>2, <1>3, FS_CardinalityType

\* Each place in the list is that of the one session with as many newer ones.
LEMMA Ranked ==
  \A i \in 1..Cardinality(Saved) :
    SessionFiles[i] \in Saved /\ Cardinality(Newer(SessionFiles[i])) = i - 1
<1> DEFINE rank   == [s \in Saved |-> Cardinality(Newer(s))]
           places == 0..(Cardinality(Saved) - 1)
<1>1. \A s \in Saved : Cardinality(Newer(s)) \in places
  <2> SUFFICES ASSUME NEW s \in Saved PROVE Cardinality(Newer(s)) \in places
    OBVIOUS
  <2>1. Newer(s) \subseteq Saved \ {s}
    BY SavedAreIds, HistoryAssumption DEF Newer
  <2>2. IsFiniteSet(Saved \ {s}) /\ Cardinality(Saved \ {s}) = Cardinality(Saved) - 1
    BY SavedAreIds, FS_RemoveElement
  <2>3. Cardinality(Newer(s)) \in Nat /\ Cardinality(Newer(s)) <= Cardinality(Saved) - 1
    BY <2>1, <2>2, FS_Subset, FS_CardinalityType
  <2> QED
    BY <2>3, SavedAreIds
<1>2. \A s, t \in Saved : Cardinality(Newer(s)) = Cardinality(Newer(t)) => s = t
  <2> SUFFICES ASSUME NEW s \in Saved, NEW t \in Saved, s # t
               PROVE  Cardinality(Newer(s)) # Cardinality(Newer(t))
    OBVIOUS
  <2>1. s < t \/ t < s
    BY SavedAreIds, HistoryAssumption
  <2> QED
    BY <2>1, Fewer
<1>3. rank \in Injection(Saved, places)
  BY <1>1, <1>2, Zenon DEF Injection, IsInjective
<1>4. IsFiniteSet(places) /\ Cardinality(places) = Cardinality(Saved)
  BY SavedAreIds, FS_Interval, SMTT(30)
<1>5. rank \in Surjection(Saved, places)
  <2> HIDE DEF rank, places
  <2> QED
    BY <1>3, <1>4, FS_Injection
<1>6. \A p \in places : \E s \in Saved : Cardinality(Newer(s)) = p
  BY <1>5 DEF Surjection
<1> SUFFICES ASSUME NEW i \in 1..Cardinality(Saved)
             PROVE  SessionFiles[i] \in Saved /\ Cardinality(Newer(SessionFiles[i])) = i - 1
  OBVIOUS
<1>7. i - 1 \in places
  BY SavedAreIds
<1>8. \E s \in Saved : Cardinality(Newer(s)) = i - 1
  BY <1>6, <1>7
<1>9. SessionFiles[i] = CHOOSE s \in Saved : Cardinality(Newer(s)) = i - 1
  BY DEF SessionFiles
<1> QED
  BY <1>8, <1>9

LEMMA ListIsSequence ==
  /\ SessionFiles \in Seq(Ids) /\ Len(SessionFiles) = Cardinality(Saved)
<1>1. SessionFiles \in [1..Cardinality(Saved) -> Ids]
  BY Ranked, SavedAreIds DEF SessionFiles
<1> QED
  BY <1>1, SavedAreIds

LEMMA BeyondTheKept ==
  ASSUME NEW rest, rest = SubSeq(SessionFiles, Keep + 1, Len(SessionFiles))
  PROVE  /\ rest \in Seq(Ids)
         /\ \A i \in 1..Len(rest) :
              Keep + i \in 1..Cardinality(Saved) /\ rest[i] = SessionFiles[Keep + i]
<1> DEFINE n == Cardinality(Saved)
<1>1. SessionFiles \in Seq(Ids) /\ Len(SessionFiles) = n /\ n \in Nat /\ Keep \in Nat
  BY ListIsSequence, SavedAreIds, HistoryAssumption
<1> HIDE DEF n
<1>2. CASE Keep + 1 > n
  <2>1. rest \in Seq(Ids) /\ Len(rest) = 0
    BY <1>1, <1>2
  <2> QED
    BY <2>1
<1>3. CASE Keep + 1 <= n
  <2>1. rest \in Seq(Ids) /\ Len(rest) = n - Keep /\ \A i \in 1..(n - Keep) : rest[i] = SessionFiles[Keep + i]
    BY <1>1, <1>3
  <2> QED
    BY <2>1, <1>1, <1>3 DEF n
<1>4. Keep + 1 > n \/ Keep + 1 <= n
  BY <1>1
<1> QED
  BY <1>2, <1>3, <1>4

LEMMA OfTheList ==
  ASSUME NEW sessions \in Seq(Ids), sessions # <<>>
  PROVE  /\ Head(sessions) \in Ids /\ Tail(sessions) \in Seq(Ids)
         /\ Len(sessions) \in Nat \ {0} /\ Len(Tail(sessions)) = Len(sessions) - 1
         /\ Head(sessions) = sessions[1]
         /\ \A i \in 1..Len(Tail(sessions)) : Tail(sessions)[i] = sessions[i + 1]
OBVIOUS

LEMMA Counted ==
  ASSUME Fail \/ faults' = faults, faults \in 0..MaxFaults
  PROVE  faults' \in 0..MaxFaults
BY HistoryAssumption DEF Fail

\* A step of the window, or the end of the process, which leaves every file alone.
Aside ==
  /\ UNCHANGED <<data, unflushed, excused, refused>>
  /\ listed' = listed \/ listed' = <<>>
  /\ id' = id \/ id' = 0
  /\ phase' \in {"idle", "analysing", "stuck", "delivered", "closed", "adopting"}
  /\ phase' = "adopting" => phase = "closed"
  /\ phase' \in {"idle", "analysing", "stuck", "delivered"} => phase \notin {"closed", "adopting", "logging"}
  /\ faults' \in 0..MaxFaults /\ kills' \in 0..MaxKills

LEMMA WindowSteps ==
  ASSUME HistoryTypes, Analysis \/ SelectRow \/ CloseWindow \/ Start \/ Kill, ~Deliver
  PROVE  Aside
<1>0. faults \in 0..MaxFaults /\ kills \in 0..MaxKills
  BY DEF HistoryTypes
<1>1. CASE StartAnalysis
  BY <1>0, <1>1 DEF Aside, StartAnalysis, storeVars
<1>2. CASE CollectAndRun
  <2>1. Fail \/ faults' = faults
    BY <1>2 DEF CollectAndRun
  <2>2. faults' \in 0..MaxFaults
    BY <1>0, <2>1, Counted
  <2> QED
    BY <1>0, <1>2, <2>2 DEF Aside, CollectAndRun
<1>3. CASE RunKeyVanishes
  <2>1. faults' \in 0..MaxFaults
    BY <1>0, <1>3, Counted DEF RunKeyVanishes
  <2> QED
    BY <1>0, <1>3, <2>1 DEF Aside, RunKeyVanishes
<1>4. CASE Finish
  BY <1>0, <1>4 DEF Aside, Finish
<1>5. CASE SelectRow
  BY <1>0, <1>5 DEF Aside, SelectRow, storeVars
<1>6. CASE CloseWindow
  BY <1>0, <1>6 DEF Aside, CloseWindow, storeVars
<1>7. CASE Start
  BY <1>0, <1>7 DEF Aside, Start, storeVars
<1>8. CASE Kill
  BY <1>0, <1>8, HistoryAssumption DEF Aside, Kill, Closed
<1> QED
  BY <1>1, <1>2, <1>3, <1>4, <1>5, <1>6, <1>7, <1>8 DEF Analysis

LEMMA Steps ==
  Next <=>
    \/ (Analysis \/ SelectRow \/ CloseWindow \/ Start) /\ ~Deliver
    \/ Deliver \/ Store \/ End
BY DEF Next, Analysis

\* The variables of the history hold what they should.
LEMMA TypesKept ==
  ASSUME HistoryTypes, Next
  PROVE  HistoryTypes'
<1>1. CASE Aside
  <2>1. <<>> \in Seq(Ids)
    OBVIOUS
  <2>2. listed' \in Seq(Ids)
    BY <1>1, <2>1 DEF Aside, HistoryTypes
  <2> QED
    BY <1>1, <2>2 DEF Aside, HistoryTypes, Phases
<1>2. CASE Deliver
  BY <1>2 DEF HistoryTypes, Phases, Deliver, OpenTemporary, WithHistory
<1>3. CASE AdoptPreviousDataDirectory
  <2>1. faults' \in 0..MaxFaults
    BY <1>3, Counted DEF HistoryTypes, AdoptPreviousDataDirectory
  <2> QED
    BY <1>3, <2>1 DEF HistoryTypes, Phases, AdoptPreviousDataDirectory, Renamed
<1>4. CASE InitializeLogging
  BY <1>4 DEF HistoryTypes, Phases, InitializeLogging, With
<1>5. CASE WriteSession
  <2>1. faults' \in 0..MaxFaults
    BY <1>5, Counted DEF HistoryTypes, WriteSession
  <2> QED
    BY <1>5, <2>1 DEF HistoryTypes, Phases, WriteSession, WithHistory
<1>6. CASE ReplaceAtomically
  <2>1. faults' \in 0..MaxFaults
    BY <1>6, Counted DEF HistoryTypes, ReplaceAtomically
  <2> QED
    BY <1>6, <2>1 DEF HistoryTypes, Phases, ReplaceAtomically, WithHistory
<1>7. CASE ApplyRetention
  <2>1. listed' \in Seq(Ids)
    BY <1>7, BeyondTheKept DEF ApplyRetention
  <2> QED
    BY <1>7, <2>1 DEF HistoryTypes, Phases, ApplyRetention
<1>8. CASE RemoveOld \/ QuarantineUnreadable
  <2>1. faults' \in 0..MaxFaults
    BY <1>8, Counted DEF HistoryTypes, RemoveOld, QuarantineUnreadable
  <2>2. listed' \in Seq(Ids)
    BY <1>8, OfTheList DEF HistoryTypes, RemoveOld, QuarantineUnreadable
  <2>3. DOMAIN data' = DOMAIN data
    BY <1>8 DEF RemoveOld, QuarantineUnreadable, WithHistory
  <2> QED
    BY <1>8, <2>1, <2>2, <2>3 DEF HistoryTypes, RemoveOld, QuarantineUnreadable
<1>9. CASE ListUnreadable
  <2>1. listed' \in Seq(Ids)
    BY <1>9, ListIsSequence DEF ListUnreadable
  <2> QED
    BY <1>9, <2>1 DEF HistoryTypes, Phases, ListUnreadable
<1>10. CASE LosePower
  <2>1. kills' \in 0..MaxKills
    BY <1>10, HistoryAssumption DEF HistoryTypes, LosePower
  <2>2. DOMAIN data' = DOMAIN data /\ listed' \in Seq(Ids)
    BY <1>10 DEF LosePower, WithHistory, Closed
  <2> QED
    BY <1>10, <2>1, <2>2 DEF HistoryTypes, Phases, LosePower, Closed
<1> QED
  BY <1>1, <1>2, <1>3, <1>4, <1>5, <1>6, <1>7, <1>8, <1>9, <1>10, Steps, WindowSteps
  DEF Store, End
-----------------------------------------------------------------------------
(* The folder of the history is there, and what is moved into it. *)

LEMMA OpenedKept ==
  ASSUME HistoryTypes, Opened, Next
  PROVE  Opened'
<1>1. CASE Aside
  BY <1>1 DEF Aside, Opened, HistoryTypes, Phases
<1>2. CASE Deliver
  BY <1>2 DEF Opened, Phases, Deliver, OpenTemporary, WithHistory
<1>3. CASE AdoptPreviousDataDirectory
  BY <1>3 DEF Opened, AdoptPreviousDataDirectory
<1>4. CASE InitializeLogging
  BY <1>4 DEF Opened, InitializeLogging, With
<1>5. CASE WriteSession \/ ReplaceAtomically \/ ApplyRetention \/ RemoveOld \/ ListUnreadable \/ QuarantineUnreadable
  <2>1. DOMAIN data' = DOMAIN data
    BY <1>5
    DEF WriteSession, ReplaceAtomically, ApplyRetention, RemoveOld, ListUnreadable,
        QuarantineUnreadable,
                WithHistory
  <2>2. phase \in Phases \ {"closed", "adopting", "logging"}
    BY <1>5
    DEF WriteSession, ReplaceAtomically, ApplyRetention, RemoveOld, ListUnreadable,
        QuarantineUnreadable, Phases
  <2> QED
    BY <2>1, <2>2 DEF Opened
<1>6. CASE LosePower
  BY <1>6 DEF Opened, LosePower, Closed
<1> QED
  BY <1>1, <1>2, <1>3, <1>4, <1>5, <1>6, Steps, WindowSteps DEF Store, End

LEMMA NoneTorn ==
  ASSUME KillNeverTears, excused \subseteq excused', DOMAIN data' = DOMAIN data, Default \in DOMAIN data,
         \A n \in DOMAIN data : n # Default => data'[n] = data[n],
         \A s \in Ids : SessionFile(s) \in DOMAIN History' /\ History'[SessionFile(s)] = "torn" =>
           s \in excused' \/ (SessionFile(s) \in DOMAIN History /\ History[SessionFile(s)] = "torn")
  PROVE  KillNeverTears'
BY DEF KillNeverTears, History

\* A session is torn only by a write that failed or by the loss of what was not flushed: the file
\* that is written is another one, and is moved over the session when it is complete.
LEMMA WrittenKept ==
  ASSUME HistoryTypes, Opened, Written, KillNeverTears, Next
  PROVE  Written' /\ KillNeverTears'
<1>1. CASE Aside
  BY <1>1 DEF Aside, Written, KillNeverTears, History
<1>2. CASE Deliver
  <2>0. Default \in DOMAIN data /\ phase' = "writing" /\ excused' = excused
    BY <1>2 DEF Deliver, Opened, Phases, OpenTemporary
  <2>1. PICK session \in Ids : id' = session /\ WithHistory(With(History, TemporaryFile(session), "torn"))
    BY <1>2 DEF Deliver, OpenTemporary
  <2>2. /\ DOMAIN data' = DOMAIN data /\ History' = With(History, TemporaryFile(session), "torn")
        /\ \A n \in DOMAIN data : n # Default => data'[n] = data[n]
    BY <2>0, <2>1, OnlyHistory
  <2>3. TemporaryFile(session) \in DOMAIN History'
    BY <2>2 DEF With
  <2>4. KillNeverTears'
    <3>1. \A s \in Ids : SessionFile(s) \in DOMAIN History' =>
            SessionFile(s) \in DOMAIN History /\ History'[SessionFile(s)] = History[SessionFile(s)]
      BY <2>2, Names DEF With
    <3> QED
      BY <2>0, <2>2, <3>1, NoneTorn
  <2> QED
    BY <2>0, <2>1, <2>3, <2>4 DEF Written, TemporaryFile
<1>3. CASE AdoptPreviousDataDirectory
  BY <1>3 DEF AdoptPreviousDataDirectory, Written, KillNeverTears, Renamed
<1>4. CASE InitializeLogging
  BY <1>4 DEF InitializeLogging, Written, KillNeverTears, With
<1>5. CASE WriteSession
  <2>0. Default \in DOMAIN data /\ id' = id /\ excused \subseteq excused' /\ id \in Ids
        /\ phase = "writing" /\ phase' = "replacing" /\ TemporaryFile(id) \in DOMAIN History
    BY <1>5 DEF WriteSession, Opened, Phases, HistoryTypes, Written
  <2>1. CASE WithHistory(With(History, TemporaryFile(id), "whole"))
    <3>1. /\ DOMAIN data' = DOMAIN data /\ History' = With(History, TemporaryFile(id), "whole")
          /\ \A n \in DOMAIN data : n # Default => data'[n] = data[n]
      BY <2>0, <2>1, OnlyHistory
    <3>2. TemporaryFile(id) \in DOMAIN History' /\ History'[TemporaryFile(id)] = "whole"
      BY <3>1 DEF With
    <3>3. KillNeverTears'
      <4>1. \A s \in Ids : SessionFile(s) \in DOMAIN History' =>
              SessionFile(s) \in DOMAIN History /\ History'[SessionFile(s)] = History[SessionFile(s)]
        BY <3>1, Names DEF With
      <4> QED
        BY <2>0, <3>1, <4>1, NoneTorn
    <3> QED
      BY <2>0, <3>2, <3>3 DEF Written, TemporaryFile
  <2>2. CASE data' = data /\ excused' = excused \cup {id}
    BY <2>0, <2>2 DEF Written, KillNeverTears, History, TemporaryFile
  <2> QED
    BY <1>5, <2>1, <2>2 DEF WriteSession
<1>6. CASE ReplaceAtomically
  <2> DEFINE left == Without(TemporaryFile(id))
             moved == History[TemporaryFile(id)]
  <2>0. Default \in DOMAIN data /\ id' = id /\ excused = excused' /\ id \in Ids /\ phase' = "listing"
        /\ TemporaryFile(id) \in DOMAIN History /\ (moved = "torn" => id \in excused)
    BY <1>6 DEF ReplaceAtomically, Opened, Phases, HistoryTypes, Written
  <2>1. CASE WithHistory(With(left, SessionFile(id), moved))
    <3>1. /\ DOMAIN data' = DOMAIN data /\ History' = With(left, SessionFile(id), moved)
          /\ \A n \in DOMAIN data : n # Default => data'[n] = data[n]
      BY <2>0, <2>1, OnlyHistory
    <3>2. \A s \in Ids : SessionFile(s) \in DOMAIN History' =>
            \/ s = id /\ History'[SessionFile(s)] = moved
            \/ SessionFile(s) \in DOMAIN History /\ History'[SessionFile(s)] = History[SessionFile(s)]
      <4> HIDE DEF moved
      <4> QED
        <5>1. /\ DOMAIN left = DOMAIN History \ {TemporaryFile(id)}
              /\ \A f \in DOMAIN left : left[f] = History[f]
          BY Removed
        <5> HIDE DEF left
        <5>2. /\ DOMAIN History' = DOMAIN left \cup {SessionFile(id)}
              /\ \A f \in DOMAIN History' : History'[f] = IF f = SessionFile(id) THEN moved ELSE left[f]
          BY <3>1 DEF With
        <5>3. \A s : SessionFile(s) = SessionFile(id) => s = id
          BY Names
        <5> QED
          BY <5>1, <5>2, <5>3
    <3>3. KillNeverTears'
      BY <2>0, <3>1, <3>2, NoneTorn
    <3> QED
      BY <2>0, <3>3 DEF Written
  <2>2. CASE WithHistory(left)
    <3>1. /\ DOMAIN data' = DOMAIN data /\ History' = left
          /\ \A n \in DOMAIN data : n # Default => data'[n] = data[n]
      BY <2>0, <2>2, OnlyHistory
    <3>2. KillNeverTears'
      <4>1. \A s \in Ids : SessionFile(s) \in DOMAIN History' =>
              SessionFile(s) \in DOMAIN History /\ History'[SessionFile(s)] = History[SessionFile(s)]
        BY <3>1, Removed, Names
      <4> QED
        BY <2>0, <3>1, <4>1, NoneTorn
    <3> QED
      BY <2>0, <3>2 DEF Written
  <2> QED
    BY <1>6, <2>1, <2>2 DEF ReplaceAtomically
<1>7. CASE ApplyRetention \/ ListUnreadable
  BY <1>7 DEF ApplyRetention, ListUnreadable, Written, KillNeverTears
<1>8. CASE RemoveOld
  <2>0. Default \in DOMAIN data /\ excused = excused' /\ phase' = "pruning"
    BY <1>8 DEF RemoveOld, Opened, Phases
  <2>1. CASE WithHistory(Without(SessionFile(Head(listed))))
    <3>1. /\ DOMAIN data' = DOMAIN data /\ History' = Without(SessionFile(Head(listed)))
          /\ \A n \in DOMAIN data : n # Default => data'[n] = data[n]
      BY <2>0, <2>1, OnlyHistory
    <3>2. KillNeverTears'
      <4>1. \A s \in Ids : SessionFile(s) \in DOMAIN History' =>
              SessionFile(s) \in DOMAIN History /\ History'[SessionFile(s)] = History[SessionFile(s)]
        BY <3>1, Removed, Names
      <4> QED
        BY <2>0, <3>1, <4>1, NoneTorn
    <3> QED
      BY <2>0, <3>2 DEF Written
  <2>2. CASE data' = data
    BY <2>0, <2>2 DEF Written, KillNeverTears
  <2> QED
    BY <1>8, <2>1, <2>2 DEF RemoveOld
<1>9. CASE QuarantineUnreadable
  <2> DEFINE session == Head(listed)
  <2>0. Default \in DOMAIN data /\ excused = excused' /\ phase' = "quarantining"
    BY <1>9 DEF QuarantineUnreadable, Opened, Phases
  <2>1. CASE WithHistory(SetAside(session))
    <3>1. /\ DOMAIN data' = DOMAIN data /\ History' = SetAside(session)
          /\ \A n \in DOMAIN data : n # Default => data'[n] = data[n]
      BY <2>0, <2>1, OnlyHistory
    <3>2. KillNeverTears'
      <4>1. \A s \in Ids : SessionFile(s) \in DOMAIN History' =>
              SessionFile(s) \in DOMAIN History /\ History'[SessionFile(s)] = History[SessionFile(s)]
        BY <3>1, Removed, Names DEF SetAside, With
      <4> QED
        BY <2>0, <3>1, <4>1, NoneTorn
    <3> QED
      BY <2>0, <3>2 DEF Written
  <2>2. CASE data' = data
    BY <2>0, <2>2 DEF Written, KillNeverTears
  <2> QED
    BY <1>9, <2>1, <2>2 DEF QuarantineUnreadable
<1>10. CASE LosePower
  <2>0. phase' = "closed" /\ excused' = excused \cup unflushed
    BY <1>10 DEF LosePower, Closed
  <2>1. WithHistory(Torn(History, unflushed))
    BY <1>10 DEF LosePower
  <2>2. DOMAIN data' = DOMAIN data
    BY <2>1, OnlyHistory
  <2>3. ASSUME NEW n \in DOMAIN data, NEW s \in Ids,
               SessionFile(s) \in DOMAIN data'[n], data'[n][SessionFile(s)] = "torn"
        PROVE  s \in excused'
    <3>1. CASE n # Default
      BY <2>0, <2>1, <2>3, <3>1, OnlyHistory DEF KillNeverTears
    <3>2. CASE n = Default
      <4>1. data'[n] = Torn(History, unflushed)
        BY <2>1, <3>2, OnlyHistory DEF History
      <4>2. /\ SessionFile(s) \in DOMAIN data[n]
            /\ \/ \E t \in unflushed : SessionFile(s) = SessionFile(t)
               \/ data[n][SessionFile(s)] = "torn"
        BY <2>3, <3>2, <4>1 DEF Torn, History
      <4> QED
        BY <2>0, <4>2, Names DEF KillNeverTears
    <3> QED
      BY <3>1, <3>2
  <2> QED
    BY <2>0, <2>2, <2>3 DEF Written, KillNeverTears
<1> QED
  BY <1>1, <1>2, <1>3, <1>4, <1>5, <1>6, <1>7, <1>8, <1>9, <1>10, Steps, WindowSteps
  DEF Store, End

-----------------------------------------------------------------------------
(* The folder of the old name. *)

LEMMA AdoptingKept ==
  ASSUME HistoryTypes, Opened, Adopting, Next
  PROVE  Adopting'
<1>1. CASE Aside
  BY <1>1 DEF Aside, Adopting
<1>2. ASSUME DOMAIN data' = DOMAIN data, \A n \in DOMAIN data : n # Default => data'[n] = data[n], refused' = refused,
             phase' = "closed" \/ phase \notin {"adopting", "closed"}
      PROVE  Adopting'
  BY <1>2, Names DEF Adopting
<1>3. CASE Deliver \/ WriteSession \/ ReplaceAtomically \/ RemoveOld \/ QuarantineUnreadable \/ LosePower
  <2>1. data' = data \/ \E files : WithHistory(files)
    BY <1>3
    DEF Deliver, OpenTemporary, WriteSession, ReplaceAtomically, RemoveOld,
        QuarantineUnreadable, LosePower
  <2>2. DOMAIN data' = DOMAIN data /\ \A n \in DOMAIN data : n # Default => data'[n] = data[n]
    BY <2>1 DEF WithHistory
  <2>3. refused' = refused /\ (phase' = "closed" \/ phase \notin {"adopting", "closed"})
    BY <1>3
    DEF Deliver, OpenTemporary, WriteSession, ReplaceAtomically, RemoveOld,
        QuarantineUnreadable, LosePower,
                Closed
  <2> QED
    BY <1>2, <2>2, <2>3
<1>4. CASE AdoptPreviousDataDirectory
  <2>1. CASE Previous \in DOMAIN data /\ Default \notin DOMAIN data
    BY <1>4, <2>1, Names DEF AdoptPreviousDataDirectory, Adopting, Renamed
  <2>2. CASE ~(Previous \in DOMAIN data /\ Default \notin DOMAIN data)
    BY <1>4, <2>2 DEF AdoptPreviousDataDirectory, Adopting
  <2> QED
    BY <2>1, <2>2
<1>5. CASE InitializeLogging
  <2>1. CASE Default \in DOMAIN data
    BY <1>5, <2>1 DEF InitializeLogging, Adopting
  <2>2. CASE Default \notin DOMAIN data
    <3>1. Previous \in DOMAIN data => refused
      BY <1>5, <2>2 DEF InitializeLogging, Adopting
    <3> QED
      BY <1>5, <2>2, <3>1, Names DEF InitializeLogging, Adopting, With
  <2> QED
    BY <2>1, <2>2
<1>6. CASE ApplyRetention \/ ListUnreadable
  BY <1>6 DEF ApplyRetention, ListUnreadable, Adopting
<1> QED
  BY <1>1, <1>3, <1>4, <1>5, <1>6, Steps, WindowSteps DEF Store, End

-----------------------------------------------------------------------------
(* The retention. *)

LEMMA NewerKeptIsFinite ==
  ASSUME NEW s, NEW list, NEW files
  PROVE  IsFiniteSet(NewerKept(s, list, files))
BY HistoryAssumption, FS_Subset DEF NewerKept

LEMMA AtLeastKeep ==
  ASSUME NEW S, NEW T, S \subseteq T, IsFiniteSet(T), Cardinality(S) >= Keep
  PROVE  Cardinality(T) >= Keep
<1>1. Cardinality(S) <= Cardinality(T) /\ Cardinality(S) \in Nat /\ Cardinality(T) \in Nat
  BY FS_Subset, FS_CardinalityType
<1> QED
  BY <1>1, HistoryAssumption

\* Those the list leaves out are newer than every session on it.
LEMMA SparedByTheList ==
  ASSUME HistoryTypes, ApplyRetention
  PROVE  Spared'
<1> DEFINE rest  == SubSeq(SessionFiles, Keep + 1, Len(SessionFiles))
           first == SessionFiles[Keep + 1]
<1>1. listed' = rest /\ data' = data
  BY DEF ApplyRetention
<1>2. /\ rest \in Seq(Ids)
      /\ \A i \in 1..Len(rest) : Keep + i \in 1..Cardinality(Saved) /\ rest[i] = SessionFiles[Keep + i]
  BY BeyondTheKept
<1> HIDE DEF rest
<1> SUFFICES ASSUME NEW i \in 1..Len(rest) PROVE Cardinality(NewerKept(rest[i], rest, History)) >= Keep
  BY <1>1 DEF Spared, History
<1>3. Keep \in Nat /\ Len(rest) \in Nat /\ Cardinality(Saved) \in Nat /\ Saved \subseteq Nat
  BY <1>2, HistoryAssumption, SavedAreIds
<1>4. first \in Saved /\ Cardinality(Newer(first)) = Keep
  <2>1. Keep + 1 \in 1..Cardinality(Saved)
    BY <1>2, <1>3
  <2> QED
    BY <2>1, <1>3, Ranked
<1>5. ASSUME NEW j \in 1..Len(rest) PROVE rest[j] \in Saved /\ rest[j] <= first
  <2>1. PICK place : place = Keep + j
    OBVIOUS
  <2>2. rest[j] \in Saved /\ Cardinality(Newer(rest[j])) = place - 1
    <3>1. place \in 1..Cardinality(Saved) /\ rest[j] = SessionFiles[place]
      BY <1>2, <2>1
    <3> QED
      BY <3>1, Ranked, Zenon
  <2>3. ~(first < rest[j])
    <3> SUFFICES ASSUME first < rest[j] PROVE FALSE
      OBVIOUS
    <3>1. Cardinality(Newer(rest[j])) < Cardinality(Newer(first))
      BY <1>4, <2>2, Fewer
    <3> QED
      BY <3>1, <2>1, <2>2, <1>3, <1>4
  <2>4. first \in Nat /\ rest[j] \in Nat
    BY <1>3, <1>4, <2>2
  <2> QED
    BY <2>2, <2>3, <2>4
<1>6. ASSUME NEW k \in Newer(first)
      PROVE  k \in NewerKept(rest[i], rest, History)
  <2>1. k \in Saved /\ k > first /\ k \in Nat /\ first \in Nat /\ \A j \in 1..Len(rest) : rest[j] \in Nat
    BY <1>3, <1>4, <1>5 DEF Newer
  <2>2. k > rest[i] /\ \A j \in 1..Len(rest) : rest[j] # k
    BY <1>5, <2>1
  <2>3. k \in Ids /\ SessionFile(k) \in DOMAIN History
    BY <2>1 DEF Saved
  <2> QED
    BY <2>2, <2>3 DEF NewerKept
<1>7. Newer(first) \subseteq NewerKept(rest[i], rest, History)
  BY <1>6
<1>8. IsFiniteSet(NewerKept(rest[i], rest, History))
  BY NewerKeptIsFinite
<1>9. Keep <= Cardinality(Newer(first))
  BY <1>3, <1>4
<1> QED
  BY <1>7, <1>8, <1>9, AtLeastKeep

\* The one that is removed is the first of the list; those that keep the others are not on it.
LEMMA SparedByTheRest ==
  ASSUME HistoryTypes, Opened, Spared, RemoveOld
  PROVE  Spared'
<1> DEFINE old == listed[1]
<1>1. Len(listed) \in Nat \ {0} /\ Head(listed) = old
      /\ Len(listed') = Len(listed) - 1 /\ \A i \in 1..Len(listed') : listed'[i] = listed[i + 1]
  BY OfTheList DEF RemoveOld, HistoryTypes
<1>2. \A k \in Ids : SessionFile(k) \in DOMAIN History /\ k # old => SessionFile(k) \in DOMAIN History'
  <2>1. CASE data' = data
    BY <2>1 DEF History
  <2>2. CASE WithHistory(Without(SessionFile(Head(listed))))
    <3>1. Default \in DOMAIN data
      BY DEF Opened, Phases, RemoveOld
    <3>2. History' = Without(SessionFile(old))
      BY <1>1, <2>2, <3>1, OnlyHistory
    <3> QED
      BY <3>2, Names DEF Without
  <2> QED
    BY <2>1, <2>2 DEF RemoveOld
<1> SUFFICES ASSUME NEW i \in 1..Len(listed')
             PROVE  Cardinality(NewerKept(listed'[i], listed', History')) >= Keep
  BY DEF Spared
<1>3. i + 1 \in 1..Len(listed) /\ listed'[i] = listed[i + 1]
  BY <1>1
<1>4. Cardinality(NewerKept(listed[i + 1], listed, History)) >= Keep
  BY <1>3 DEF Spared, RemoveOld
<1>5. ASSUME NEW k \in NewerKept(listed[i + 1], listed, History)
      PROVE  k \in NewerKept(listed'[i], listed', History')
  <2>1. k \in Ids /\ k > listed[i + 1] /\ SessionFile(k) \in DOMAIN History
        /\ \A j \in 1..Len(listed) : listed[j] # k
    BY DEF NewerKept
  <2>2. k # old /\ \A j \in 1..Len(listed') : listed'[j] # k
    <3>1. \A j \in 1..Len(listed') : j + 1 \in 1..Len(listed)
      BY <1>1
    <3> QED
      BY <1>1, <2>1, <3>1
  <2> QED
    BY <1>2, <1>3, <2>1, <2>2 DEF NewerKept
<1> QED
  BY <1>4, <1>5, NewerKeptIsFinite, AtLeastKeep

LEMMA SparedKept ==
  ASSUME HistoryTypes, Opened, Spared, Next
  PROVE  Spared'
<1>1. CASE ApplyRetention
  BY <1>1, SparedByTheList
<1>2. CASE RemoveOld
  BY <1>2, SparedByTheRest
<1>3. CASE ~ApplyRetention /\ ~RemoveOld
  <2>1. phase' # "pruning"
    <3>1. CASE Aside
      BY <3>1 DEF Aside
    <3>2. CASE Deliver \/ End
      BY <3>2 DEF Deliver, End, Kill, LosePower, Closed
    <3>3. CASE Store
      BY <1>3, <3>3
      DEF Store, AdoptPreviousDataDirectory, InitializeLogging, WriteSession, ReplaceAtomically,
                        ListUnreadable, QuarantineUnreadable
    <3> QED
      BY <3>1, <3>2, <3>3, Steps, WindowSteps
  <2> QED
    BY <2>1 DEF Spared
<1> QED
  BY <1>1, <1>2, <1>3

-----------------------------------------------------------------------------
(* The theorems about the history. *)

THEOREM HistoryInductive == Spec => []HistoryInv
<1>1. Init => HistoryInv
  <2> SUFFICES ASSUME Init PROVE HistoryInv
    OBVIOUS
  <2>1. PICK start \in Starts : StoreInit(start.found)
    BY DEF Init
  <2>2. data = start.found /\ phase = "adopting" /\ excused = {}
    BY <2>1 DEF StoreInit
  <2>3. HistoryTypes
    <3>1. <<>> \in Seq(Ids) /\ 0 \in 0..MaxFaults /\ 0 \in 0..MaxKills
      BY HistoryAssumption
    <3>2. DOMAIN data \subseteq {Previous, Default}
      BY <2>2, StartsAssumption
    <3> QED
      BY <2>1, <3>1, <3>2 DEF StoreInit, HistoryTypes, Phases
  <2>4. Opened /\ Written /\ Spared
    BY <2>2 DEF Opened, Written, Spared
  <2>5. KillNeverTears
    BY <2>2, StartsAssumption DEF KillNeverTears
  <2>6. Adopting
    BY <2>2 DEF Adopting
  <2> QED
    BY <2>3, <2>4, <2>5, <2>6 DEF HistoryInv
<1>2. HistoryInv /\ [Next]_vars => HistoryInv'
  <2> SUFFICES ASSUME HistoryInv, [Next]_vars PROVE HistoryInv'
    OBVIOUS
  <2>1. CASE Next
    BY <2>1, TypesKept, OpenedKept, WrittenKept, AdoptingKept, SparedKept DEF HistoryInv
  <2>2. CASE UNCHANGED vars
    BY <2>2
    DEF vars, storeVars, HistoryInv, HistoryTypes, Opened, Written, KillNeverTears, Adopting,
        Spared, History
  <2> QED
    BY <2>1, <2>2
<1> QED
  BY <1>1, <1>2, PTL DEF Spec

\* However the calls fail and wherever the process is killed, a session that is torn is one whose
\* write failed or that the power took before the disk had it (HistoryStore::save).
THEOREM NoKillTears == Spec => []KillNeverTears
<1>1. HistoryInv => KillNeverTears
  BY DEF HistoryInv
<1> QED
  BY <1>1, HistoryInductive, PTL

\* Once the program is up, a folder of the old name is left only where both were found or the system
\* refused the rename, through every restart (adopt_previous_data_directory, initialize_logging).
THEOREM OldNameAdopted == Spec => []AdoptedUnlessRefused
<1>1. HistoryInv => AdoptedUnlessRefused
  <2> SUFFICES ASSUME HistoryInv, phase \notin {"adopting", "closed"}, Previous \in DOMAIN data, ~refused
               PROVE  \E start \in Starts :
                        {Previous, Default} \subseteq DOMAIN start.found /\ start.found[Previous] = data[Previous]
    BY DEF AdoptedUnlessRefused
  <2>1. Default \in DOMAIN data
    BY DEF HistoryInv, Adopting
  <2> QED
    BY <2>1 DEF HistoryInv, Adopting
<1> QED
  BY <1>1, HistoryInductive, PTL

\* The retention removes a session only while Keep newer ones stay, whatever it failed to remove
\* before and however many there are (HistoryStore::apply_retention).
THEOREM NewestStay == Spec => NewestKept
<1>1. HistoryInv /\ [Next]_vars =>
        [phase = "pruning" /\ phase' = "pruning" =>
           \A s \in Ids :
             SessionFile(s) \in DOMAIN History /\ SessionFile(s) \notin DOMAIN data'[Default] =>
               Cardinality({k \in Ids : k > s /\ SessionFile(k) \in DOMAIN data'[Default]}) >= Keep]_vars
  <2> SUFFICES ASSUME HistoryInv, Next, phase = "pruning", phase' = "pruning",
                      NEW s \in Ids, SessionFile(s) \in DOMAIN History, SessionFile(s) \notin DOMAIN data'[Default]
               PROVE  Cardinality({k \in Ids : k > s /\ SessionFile(k) \in DOMAIN data'[Default]}) >= Keep
    OBVIOUS
  <2> USE DEF HistoryInv
  <2>1. RemoveOld
    <3>1. ~Aside
      BY DEF Aside
    <3>2. ~Deliver /\ ~End
      BY DEF Deliver, End, Kill, LosePower, Closed
    <3>3. Store
      BY <3>1, <3>2, Steps, WindowSteps
    <3> QED
      BY <3>3
      DEF Store, AdoptPreviousDataDirectory, InitializeLogging, WriteSession,
          ReplaceAtomically, ApplyRetention,
                  ListUnreadable, QuarantineUnreadable
  <2>2. WithHistory(Without(SessionFile(Head(listed)))) /\ Default \in DOMAIN data
    BY <2>1 DEF RemoveOld, History, Opened, Phases
  <2>3. data'[Default] = Without(SessionFile(Head(listed)))
    BY <2>2 DEF WithHistory
  <2>4. s = Head(listed) /\ s = listed[1] /\ 1 \in 1..Len(listed)
    <3>1. SessionFile(s) = SessionFile(Head(listed))
      BY <2>3 DEF Without
    <3> QED
      BY <3>1, <2>1, Names, OfTheList DEF HistoryTypes, RemoveOld
  <2>5. Cardinality(NewerKept(s, listed, History)) >= Keep
    BY <2>4 DEF Spared
  <2>6. \A k \in Ids : SessionFile(k) \in DOMAIN History /\ k # s => SessionFile(k) \in DOMAIN data'[Default]
    BY <2>3, <2>4, Names DEF Without
  <2>7. NewerKept(s, listed, History) \subseteq {k \in Ids : k > s /\ SessionFile(k) \in DOMAIN data'[Default]}
    BY <2>4, <2>6 DEF NewerKept
  <2>8. IsFiniteSet({k \in Ids : k > s /\ SessionFile(k) \in DOMAIN data'[Default]})
    BY HistoryAssumption, FS_Subset
  <2> QED
    BY <2>5, <2>7, <2>8, AtLeastKeep
<1> QED
  BY <1>1, HistoryInductive, PTL DEF Spec, NewestKept

-----------------------------------------------------------------------------
(* What findings take from a category. *)

Severities == {"Info", "Attention", "Serious"}

IsFinding(f) ==
  f.category \in Categories /\ f.severity \in Severities /\ f.counts \in BOOLEAN /\ f.evidence \in Nat \ {0}

AreFindings(q) == \E S : q \in Seq(S) /\ \A f \in S : IsFinding(f)

Against(q, c, s) == {i \in DOMAIN q : q[i].counts /\ q[i].category = c /\ q[i].severity = s}

Taken(q, c) ==
  3 * Cardinality(Against(q, c, "Info")) + 10 * Cardinality(Against(q, c, "Attention"))
    + 20 * Cardinality(Against(q, c, "Serious"))

LEMMA ScoreIs ==
  ASSUME NEW q, NEW c
  PROVE  ScoreOf(q, c) = IF Taken(q, c) > 100 THEN 0 ELSE 100 - Taken(q, c)
BY DEF ScoreOf, Taken, Against, DeductionFor

LEMMA FiniteFindings ==
  ASSUME NEW q, AreFindings(q)
  PROVE  /\ Len(q) \in Nat /\ DOMAIN q = 1..Len(q) /\ \A i \in DOMAIN q : IsFinding(q[i])
         /\ \A c, s : IsFiniteSet(Against(q, c, s)) /\ Cardinality(Against(q, c, s)) \in Nat
         /\ \A c : Taken(q, c) \in Nat
<1>1. PICK S : q \in Seq(S) /\ \A f \in S : IsFinding(f)
  BY DEF AreFindings
<1>2. Len(q) \in Nat /\ DOMAIN q = 1..Len(q) /\ \A i \in DOMAIN q : q[i] \in S
  BY <1>1
<1>3. IsFiniteSet(DOMAIN q)
  BY <1>2, FS_Interval
<1>4. \A c, s : IsFiniteSet(Against(q, c, s)) /\ Cardinality(Against(q, c, s)) \in Nat
  <2> TAKE c, s
  <2>1. Against(q, c, s) \subseteq DOMAIN q
    BY DEF Against
  <2> QED
    BY <2>1, <1>3, FS_Subset, FS_CardinalityType
<1>5. \A c : Taken(q, c) \in Nat
  BY <1>4 DEF Taken
<1> QED
  BY <1>1, <1>2, <1>4, <1>5

LEMMA CardinalityApart ==
  ASSUME NEW S, NEW T, IsFiniteSet(S), IsFiniteSet(T), \A x \in S : x \notin T
  PROVE  Cardinality(S \cup T) = Cardinality(S) + Cardinality(T)
<1>1. S \cap T = {}
  OBVIOUS
<1>2. Cardinality(S \cap T) = 0
  BY <1>1, FS_EmptySet
<1>3. Cardinality(S \cup T) = Cardinality(S) + Cardinality(T) - Cardinality(S \cap T)
  BY FS_Union
<1> QED
  BY <1>2, <1>3, FS_CardinalityType

Shifted(S, m) == {i + m : i \in S}

LEMMA ShiftedCardinality ==
  ASSUME NEW S, S \subseteq Int, IsFiniteSet(S), NEW m \in Int
  PROVE  IsFiniteSet(Shifted(S, m)) /\ Cardinality(Shifted(S, m)) = Cardinality(S)
<1> DEFINE moved == [i \in S |-> i + m]
<1>1. moved \in [S -> Shifted(S, m)]
  BY DEF Shifted
<1>2. \A i, j \in S : moved[i] = moved[j] => i = j
  OBVIOUS
<1>3. \A x \in Shifted(S, m) : \E i \in S : moved[i] = x
  BY DEF Shifted
<1> HIDE DEF moved
<1>4. moved \in Bijection(S, Shifted(S, m))
  BY <1>1, <1>2, <1>3 DEF Bijection, Injection, Surjection, IsInjective
<1>5. ExistsBijection(S, Shifted(S, m))
  BY <1>4 DEF ExistsBijection
<1> QED
  BY <1>5, FS_Bijection

\* The findings of a second sequence are moved behind those of the first.
LEMMA AgainstBoth ==
  ASSUME NEW a, NEW b, AreFindings(a), AreFindings(b), NEW c, NEW s
  PROVE  Cardinality(Against(a \o b, c, s)) = Cardinality(Against(a, c, s)) + Cardinality(Against(b, c, s))
<1>1. PICK S : a \in Seq(S)
  BY DEF AreFindings
<1>2. PICK T : b \in Seq(T)
  BY DEF AreFindings
<1>3. a \in Seq(S \cup T) /\ b \in Seq(S \cup T)
  BY <1>1, <1>2
<1> DEFINE m == Len(a)
           n == Len(b)
<1>4. m \in Nat /\ n \in Nat /\ DOMAIN a = 1..m /\ DOMAIN b = 1..n
  BY <1>3
<1>5. /\ DOMAIN (a \o b) = 1..(m + n)
      /\ \A i \in 1..m : (a \o b)[i] = a[i]
      /\ \A i \in 1..n : (a \o b)[i + m] = b[i]
  BY <1>3, <1>4
<1>6. Against(a, c, s) \subseteq 1..m /\ Against(b, c, s) \subseteq 1..n
  BY <1>4 DEF Against
<1>7. Against(a \o b, c, s) = Against(a, c, s) \cup Shifted(Against(b, c, s), m)
  <2>1. ASSUME NEW i \in Against(a \o b, c, s) PROVE i \in Against(a, c, s) \cup Shifted(Against(b, c, s), m)
    <3>1. i \in 1..(m + n)
      BY <2>1, <1>5 DEF Against
    <3>2. CASE i \in 1..m
      BY <3>2, <2>1, <1>4, <1>5 DEF Against
    <3>3. CASE i \notin 1..m
      <4>1. PICK k : k = i - m
        OBVIOUS
      <4>2. k \in 1..n /\ i = k + m
        BY <4>1, <3>1, <3>3, <1>4
      <4>3. k \in Against(b, c, s)
        BY <4>2, <2>1, <1>4, <1>5 DEF Against
      <4> QED
        BY <4>2, <4>3 DEF Shifted
    <3> QED
      BY <3>2, <3>3
  <2>2. ASSUME NEW i \in Against(a, c, s) PROVE i \in Against(a \o b, c, s)
    <3>1. i \in 1..m /\ i \in 1..(m + n)
      BY <1>4, <1>6
    <3> QED
      BY <3>1, <1>4, <1>5 DEF Against
  <2>3. ASSUME NEW k \in Against(b, c, s) PROVE k + m \in Against(a \o b, c, s)
    <3>1. k \in 1..n /\ k + m \in 1..(m + n)
      BY <1>4, <1>6
    <3> QED
      BY <3>1, <1>4, <1>5 DEF Against
  <2> HIDE DEF m, n
  <2> QED
    BY <2>1, <2>2, <2>3 DEF Shifted
<1>8. \A i \in Against(a, c, s) : i \notin Shifted(Against(b, c, s), m)
  BY <1>4, <1>6 DEF Shifted
<1>9. IsFiniteSet(Against(a, c, s)) /\ IsFiniteSet(Against(b, c, s))
  BY FiniteFindings
<1>10. /\ IsFiniteSet(Shifted(Against(b, c, s), m))
       /\ Cardinality(Shifted(Against(b, c, s), m)) = Cardinality(Against(b, c, s))
  <2>1. Against(b, c, s) \subseteq Int
    BY <1>4, <1>6
  <2> QED
    BY <2>1, <1>4, <1>9, ShiftedCardinality
<1> HIDE DEF m, n
<1> QED
  BY <1>7, <1>8, <1>9, <1>10, CardinalityApart

LEMMA Joined ==
  ASSUME NEW a, NEW b, AreFindings(a), AreFindings(b)
  PROVE  AreFindings(a \o b) /\ \A c : Taken(a \o b, c) = Taken(a, c) + Taken(b, c)
<1>1. AreFindings(a \o b)
  <2>1. PICK S : a \in Seq(S) /\ \A f \in S : IsFinding(f)
    BY DEF AreFindings
  <2>2. PICK T : b \in Seq(T) /\ \A f \in T : IsFinding(f)
    BY DEF AreFindings
  <2>3. a \o b \in Seq(S \cup T) /\ \A f \in S \cup T : IsFinding(f)
    BY <2>1, <2>2
  <2> QED
    BY <2>3 DEF AreFindings
<1>2. ASSUME NEW c PROVE Taken(a \o b, c) = Taken(a, c) + Taken(b, c)
  <2>1. \A s : /\ Cardinality(Against(a, c, s)) \in Nat /\ Cardinality(Against(b, c, s)) \in Nat
               /\ Cardinality(Against(a \o b, c, s))
                    = Cardinality(Against(a, c, s)) + Cardinality(Against(b, c, s))
    BY AgainstBoth, FiniteFindings
  <2> QED
    BY <2>1 DEF Taken
<1> QED
  BY <1>1, <1>2

\* The first findings take no more of any category than the second ones.
Milder(a, b) == AreFindings(a) /\ AreFindings(b) /\ \A c : Taken(a, c) <= Taken(b, c)

LEMMA MilderJoined ==
  ASSUME NEW a, NEW b, NEW x, NEW y, Milder(a, b), Milder(x, y)
  PROVE  Milder(a \o x, b \o y)
<1>1. AreFindings(a \o x) /\ AreFindings(b \o y)
  BY Joined DEF Milder
<1>2. ASSUME NEW c PROVE Taken(a \o x, c) <= Taken(b \o y, c)
  <2>1. Taken(a \o x, c) = Taken(a, c) + Taken(x, c) /\ Taken(b \o y, c) = Taken(b, c) + Taken(y, c)
    BY Joined DEF Milder
  <2>2. /\ Taken(a, c) \in Nat /\ Taken(b, c) \in Nat /\ Taken(x, c) \in Nat /\ Taken(y, c) \in Nat
        /\ Taken(a, c) <= Taken(b, c) /\ Taken(x, c) <= Taken(y, c)
    BY FiniteFindings DEF Milder
  <2> QED
    BY <2>1, <2>2
<1> QED
  BY <1>1, <1>2 DEF Milder

LEMMA TheyAreFindings ==
  ASSUME NEW q, NEW S, q \in Seq(S), \A f \in S : IsFinding(f)
  PROVE  AreFindings(q)
BY DEF AreFindings

LEMMA NoFinding == AreFindings(<<>>) /\ \A c : Taken(<<>>, c) = 0
<1>1. <<>> \in Seq({})
  OBVIOUS
<1>2. \A c, s : Against(<<>>, c, s) = {}
  BY DEF Against
<1>3. \A c, s : Cardinality(Against(<<>>, c, s)) = 0
  BY <1>2, FS_EmptySet
<1>4. \A c : Taken(<<>>, c) = 0
  BY <1>3 DEF Taken
<1>5. PICK S : S = {}
  OBVIOUS
<1>6. <<>> \in Seq(S) /\ \A f \in S : IsFinding(f)
  BY <1>1, <1>5
<1>7. AreFindings(<<>>)
  <2>1. PICK q : q = <<>>
    OBVIOUS
  <2> QED
    BY <1>6, <2>1, TheyAreFindings
<1> QED
  BY <1>4, <1>7

LEMMA OneFinding ==
  ASSUME NEW f, IsFinding(f)
  PROVE  /\ AreFindings(<<f>>)
         /\ \A c : Taken(<<f>>, c) = IF f.counts /\ f.category = c THEN DeductionFor(f.severity) ELSE 0
<1>1. <<f>> \in Seq({f}) /\ DOMAIN <<f>> = {1} /\ <<f>>[1] = f
  OBVIOUS
<1>2. AreFindings(<<f>>)
  <2>1. PICK S : S = {f}
    OBVIOUS
  <2>2. <<f>> \in Seq(S) /\ \A g \in S : IsFinding(g)
    BY <1>1, <2>1
  <2>3. PICK q : q = <<f>>
    OBVIOUS
  <2> QED
    BY <2>2, <2>3, TheyAreFindings
<1>3. ASSUME NEW c, NEW s
      PROVE  Cardinality(Against(<<f>>, c, s))
               = IF f.counts /\ f.category = c /\ f.severity = s THEN 1 ELSE 0
  <2>1. CASE f.counts /\ f.category = c /\ f.severity = s
    <3>1. Against(<<f>>, c, s) = {1}
      BY <2>1, <1>1 DEF Against
    <3> QED
      BY <3>1, <2>1, FS_Singleton
  <2>2. CASE ~(f.counts /\ f.category = c /\ f.severity = s)
    <3>1. Against(<<f>>, c, s) = {}
      BY <2>2, <1>1 DEF Against
    <3> QED
      BY <3>1, <2>2, FS_EmptySet
  <2> QED
    BY <2>1, <2>2
<1>4. ASSUME NEW c
      PROVE  Taken(<<f>>, c) = IF f.counts /\ f.category = c THEN DeductionFor(f.severity) ELSE 0
  BY <1>3 DEF Taken, DeductionFor, IsFinding, Severities
<1> QED
  BY <1>2, <1>4

\* A rule with one finding at most is milder where it finds nothing more and nothing more severe.
LEMMA MilderWhen ==
  ASSUME NEW p \in BOOLEAN, NEW q \in BOOLEAN, p => q, NEW f, NEW g, p => IsFinding(f), q => IsFinding(g),
         p => f.category = g.category /\ (f.counts => g.counts)
                /\ DeductionFor(f.severity) <= DeductionFor(g.severity)
  PROVE  Milder(When(p, f), When(q, g))
<1>1. AreFindings(When(p, f)) /\ AreFindings(When(q, g))
  BY NoFinding, OneFinding DEF When
<1>2. ASSUME NEW c PROVE Taken(When(p, f), c) <= Taken(When(q, g), c)
  <2>1. \A s \in Severities : DeductionFor(s) \in Nat
    BY DEF DeductionFor, Severities
  <2>2. p => DeductionFor(f.severity) \in Nat /\ DeductionFor(g.severity) \in Nat
    BY <2>1 DEF IsFinding
  <2>3. CASE p
    <3>1. /\ Taken(<<f>>, c) = IF f.counts /\ f.category = c THEN DeductionFor(f.severity) ELSE 0
          /\ Taken(<<g>>, c) = IF g.counts /\ g.category = c THEN DeductionFor(g.severity) ELSE 0
      BY <2>3, OneFinding
    <3> QED
      BY <2>2, <2>3, <3>1 DEF When
  <2>4. CASE ~p
    <3>1. Taken(When(p, f), c) = 0
      BY <2>4, NoFinding DEF When
    <3>2. Taken(When(q, g), c) \in Nat
      BY <1>1, FiniteFindings
    <3> QED
      BY <3>1, <3>2
  <2> QED
    BY <2>3, <2>4
<1> QED
  BY <1>1, <1>2 DEF Milder

\* Findings that do not count take nothing.
LEMMA Opportunities ==
  ASSUME NEW n \in Nat, NEW q, q = [i \in 1..n |-> q[i]],
         \A i \in 1..n : IsFinding(q[i]) /\ ~q[i].counts
  PROVE  AreFindings(q) /\ \A c : Taken(q, c) = 0
<1>1. AreFindings(q)
  <2>1. q \in Seq({q[i] : i \in 1..n})
    <3>1. \A i \in 1..n : q[i] \in {q[k] : k \in 1..n}
      OBVIOUS
    <3> QED
      BY <3>1, IsASeq
  <2>2. \A f \in {q[i] : i \in 1..n} : IsFinding(f)
    OBVIOUS
  <2> QED
    BY <2>1, <2>2, TheyAreFindings
<1>2. \A c, s : Against(q, c, s) = {}
  BY DEF Against
<1>3. \A c, s : Cardinality(Against(q, c, s)) = 0
  BY <1>2, FS_EmptySet
<1> QED
  BY <1>1, <1>3 DEF Taken

\* A serious finding takes a fifth of its category.
LEMMA SeriousTakes ==
  ASSUME NEW q, AreFindings(q), NEW i \in DOMAIN q, q[i].counts, q[i].severity = "Serious"
  PROVE  q[i].category \in Categories /\ Taken(q, q[i].category) >= 20
<1>1. PICK c : c = q[i].category
  OBVIOUS
<1>2. c \in Categories
  BY <1>1, FiniteFindings DEF IsFinding
<1>3. i \in Against(q, c, "Serious")
  BY <1>1 DEF Against
<1>4. Cardinality(Against(q, c, "Serious")) # 0
  BY <1>3, FiniteFindings, FS_EmptySet
<1>5. Taken(q, c) >= 20
  <2>1. \A s : Cardinality(Against(q, c, s)) \in Nat
    BY FiniteFindings
  <2> QED
    BY <1>4, <2>1 DEF Taken
<1> QED
  BY <1>1, <1>2, <1>5

\* All the findings of the rules have evidence: none is dropped.
LEMMA NoneDropped ==
  ASSUME NEW q, AreFindings(q)
  PROVE  Validated(q) = q
<1>1. PICK S : q \in Seq(S)
  BY DEF AreFindings
<1>2. PICK n : n = Len(q)
  OBVIOUS
<1>3. n \in Nat /\ DOMAIN q = 1..n /\ q = [i \in 1..n |-> q[i]] /\ \A i \in 1..n : IsFinding(q[i])
  BY <1>1, <1>2, FiniteFindings
<1>4. {i \in DOMAIN q : q[i].evidence > 0} = 1..n
  BY <1>3 DEF IsFinding
<1>5. Cardinality(1..n) = n
  BY <1>3, FS_Interval
<1>6. \A i \in 1..n : Cardinality({j \in 1..n : j <= i}) = i
  <2> TAKE i \in 1..n
  <2>1. {j \in 1..n : j <= i} = 1..i
    BY <1>3
  <2>2. Cardinality(1..i) = i
    <3>1. i \in Int /\ 1 \in Int /\ ~(1 > i) /\ i - 1 + 1 = i
      BY <1>3
    <3>2. Cardinality(1..i) = i - 1 + 1
      BY <3>1, FS_Interval
    <3> QED
      BY <3>1, <3>2
  <2> QED
    BY <2>1, <2>2
<1>7. \A k \in 1..n : (CHOOSE i \in 1..n : Cardinality({j \in 1..n : j <= i}) = k) = k
  BY <1>6
<1> DEFINE supported == {i \in DOMAIN q : q[i].evidence > 0}
<1> DEFINE Kept(K) == [k \in 1..Cardinality(K) |->
                         q[CHOOSE i \in K : Cardinality({j \in K : j <= i}) = k]]
<1>9. Validated(q) = Kept(supported)
  BY DEF Validated
<1> HIDE DEF supported, Kept
<1>10. supported = 1..n
  BY <1>4 DEF supported
<1>11. Kept(1..n) = [k \in 1..n |-> q[CHOOSE i \in 1..n : Cardinality({j \in 1..n : j <= i}) = k]]
  BY <1>5 DEF Kept
<1>8. Validated(q) = [k \in 1..n |-> q[CHOOSE i \in 1..n : Cardinality({j \in 1..n : j <= i}) = k]]
  BY <1>9, <1>10, <1>11
<1> QED
  BY <1>3, <1>7, <1>8

-----------------------------------------------------------------------------
(* The score. *)

LEMMA ScoreFalls ==
  ASSUME NEW a, NEW b, Milder(a, b), NEW c
  PROVE  ScoreOf(a, c) \in 0..100 /\ ScoreOf(b, c) \in 0..100 /\ ScoreOf(b, c) <= ScoreOf(a, c)
<1>1. Taken(a, c) \in Nat /\ Taken(b, c) \in Nat /\ Taken(a, c) <= Taken(b, c)
  BY FiniteFindings DEF Milder
<1> QED
  BY <1>1, ScoreIs

LEMMA MildAsItself == ASSUME NEW q, AreFindings(q) PROVE Milder(q, q)
BY FiniteFindings DEF Milder

LEMMA WorstIs ==
  ASSUME NEW q, AreFindings(q)
  PROVE  /\ Worst(q) \in 0..100 /\ \E c \in Categories : Worst(q) = ScoreOf(q, c)
         /\ \A c \in Categories : Worst(q) <= ScoreOf(q, c)
<1> DEFINE scores == {ScoreOf(q, c) : c \in Categories}
<1>1. \A c \in Categories : ScoreOf(q, c) \in 0..100
  BY MildAsItself, ScoreFalls
<1>2. scores \subseteq Nat
  BY <1>1
<1>3. scores # {}
  BY DEF Categories
<1>4. \E w \in scores : \A k \in scores : w <= k
  <2> HIDE DEF scores
  <2> QED
    BY <1>2, <1>3, Least
<1>5. Worst(q) \in scores /\ \A c \in Categories : Worst(q) <= ScoreOf(q, c)
  <2>1. Worst(q) = CHOOSE w \in scores : \A c \in Categories : w <= ScoreOf(q, c)
    BY DEF Worst
  <2>2. \E w \in scores : \A c \in Categories : w <= ScoreOf(q, c)
    BY <1>4
  <2> HIDE DEF scores
  <2> QED
    BY <2>1, <2>2
<1> QED
  BY <1>1, <1>5

LEMMA WeightedOf ==
  ASSUME NEW q
  PROVE  Weighted(q) =
           15 * (ScoreOf(q, "Storage") + ScoreOf(q, "WindowsIntegrity") + ScoreOf(q, "Disks")
                   + ScoreOf(q, "Stability") + ScoreOf(q, "Performance"))
             + 10 * (ScoreOf(q, "Updates") + ScoreOf(q, "Security")) + 5 * ScoreOf(q, "Startup")
BY DEF Weighted

LEMMA WeightedFalls ==
  ASSUME NEW x, NEW y, Milder(x, y)
  PROVE  Weighted(x) \in Nat /\ Weighted(y) \in Nat /\ Weighted(y) <= Weighted(x)
<1>1. \A k : ScoreOf(x, k) \in 0..100 /\ ScoreOf(y, k) \in 0..100 /\ ScoreOf(y, k) <= ScoreOf(x, k)
  BY ScoreFalls
<1>2. PICK a, b, c, d, e, f, g, h :
        /\ a = ScoreOf(x, "Storage") /\ b = ScoreOf(x, "WindowsIntegrity") /\ c = ScoreOf(x, "Disks")
        /\ d = ScoreOf(x, "Stability") /\ e = ScoreOf(x, "Performance") /\ f = ScoreOf(x, "Updates")
        /\ g = ScoreOf(x, "Security") /\ h = ScoreOf(x, "Startup")
  OBVIOUS
<1>2a. /\ a \in 0..100 /\ b \in 0..100 /\ c \in 0..100 /\ d \in 0..100
      /\ e \in 0..100 /\ f \in 0..100 /\ g \in 0..100 /\ h \in 0..100
  BY <1>1, <1>2
<1>2b. Weighted(x) = 15 * (a + b + c + d + e) + 10 * (f + g) + 5 * h
  BY <1>2, WeightedOf
<1>3. PICK i, j, k, l, m, n, o, p :
        /\ i = ScoreOf(y, "Storage") /\ j = ScoreOf(y, "WindowsIntegrity") /\ k = ScoreOf(y, "Disks")
        /\ l = ScoreOf(y, "Stability") /\ m = ScoreOf(y, "Performance") /\ n = ScoreOf(y, "Updates")
        /\ o = ScoreOf(y, "Security") /\ p = ScoreOf(y, "Startup")
  OBVIOUS
<1>3a. /\ i \in 0..100 /\ j \in 0..100 /\ k \in 0..100 /\ l \in 0..100
      /\ m \in 0..100 /\ n \in 0..100 /\ o \in 0..100 /\ p \in 0..100
  BY <1>1, <1>3
<1>3b. Weighted(y) = 15 * (i + j + k + l + m) + 10 * (n + o) + 5 * p
  BY <1>3, WeightedOf
<1>4. i <= a /\ j <= b /\ k <= c /\ l <= d /\ m <= e /\ n <= f /\ o <= g /\ p <= h
  BY <1>1, <1>2, <1>3
<1>5. /\ 15 * (i + j + k + l + m) + 10 * (n + o) + 5 * p \in Nat
      /\ 15 * (a + b + c + d + e) + 10 * (f + g) + 5 * h \in Nat
  BY <1>2a, <1>3a
<1>6. 15 * (i + j + k + l + m) + 10 * (n + o) + 5 * p <= 15 * (a + b + c + d + e) + 10 * (f + g) + 5 * h
  BY <1>2a, <1>3a, <1>4
<1> QED
  BY <1>2b, <1>3b, <1>5, <1>6

LEMMA WeightedLess ==
  ASSUME NEW x, \A k : ScoreOf(x, k) \in 0..100, NEW z \in Categories, ScoreOf(x, z) <= 80
  PROVE  Weighted(x) \in Nat /\ Weighted(x) <= 9900
<1>1. PICK a, b, c, d, e, f, g, h :
        /\ a = ScoreOf(x, "Storage") /\ b = ScoreOf(x, "WindowsIntegrity") /\ c = ScoreOf(x, "Disks")
        /\ d = ScoreOf(x, "Stability") /\ e = ScoreOf(x, "Performance") /\ f = ScoreOf(x, "Updates")
        /\ g = ScoreOf(x, "Security") /\ h = ScoreOf(x, "Startup")
  OBVIOUS
<1>1a. /\ a \in 0..100 /\ b \in 0..100 /\ c \in 0..100 /\ d \in 0..100
      /\ e \in 0..100 /\ f \in 0..100 /\ g \in 0..100 /\ h \in 0..100
  BY <1>1
<1>1b. Weighted(x) = 15 * (a + b + c + d + e) + 10 * (f + g) + 5 * h
  BY <1>1, WeightedOf
<1>2. a <= 80 \/ b <= 80 \/ c <= 80 \/ d <= 80 \/ e <= 80 \/ f <= 80 \/ g <= 80 \/ h <= 80
  BY <1>1 DEF Categories
<1>3. /\ 15 * (a + b + c + d + e) + 10 * (f + g) + 5 * h \in Nat
      /\ 15 * (a + b + c + d + e) + 10 * (f + g) + 5 * h <= 9900
  BY <1>1a, <1>2
<1> QED
  BY <1>1b, <1>3

\* What takes more of a category never leaves a better score.
LEMMA OverallFalls ==
  ASSUME NEW a, NEW b, Milder(a, b)
  PROVE  Overall(b) <= Overall(a)
<1>1. AreFindings(a) /\ AreFindings(b)
  BY DEF Milder
<1>2. Weighted(a) \in Nat /\ Weighted(b) \in Nat /\ Weighted(b) <= Weighted(a)
  BY WeightedFalls
<1>3. Worst(a) \in 0..100 /\ Worst(b) \in 0..100 /\ Worst(b) <= Worst(a)
  <2>1. PICK c \in Categories : Worst(a) = ScoreOf(a, c)
    BY <1>1, WorstIs
  <2>2. Worst(b) <= ScoreOf(b, c) /\ ScoreOf(b, c) <= ScoreOf(a, c)
    BY <1>1, WorstIs, ScoreFalls
  <2>3. Worst(a) \in 0..100 /\ Worst(b) \in 0..100 /\ ScoreOf(b, c) \in 0..100
    BY <1>1, WorstIs, ScoreFalls
  <2> QED
    BY <2>1, <2>2, <2>3
<1>4. Weighted(b) + 100 * Worst(b) + 100 <= Weighted(a) + 100 * Worst(a) + 100
  BY <1>2, <1>3
<1>5. \A x, y \in Nat : x <= y => x \div 200 <= y \div 200
  OBVIOUS
<1>6. Weighted(b) + 100 * Worst(b) + 100 \in Nat /\ Weighted(a) + 100 * Worst(a) + 100 \in Nat
  BY <1>2, <1>3
<1> QED
  BY <1>4, <1>5, <1>6 DEF Overall

\* With a fifth of one category gone, a tenth of the score is.
LEMMA SeriousShows ==
  ASSUME NEW q, AreFindings(q), NEW i \in DOMAIN q, q[i].counts, q[i].severity = "Serious"
  PROVE  Overall(q) <= 90
<1>1. PICK c \in Categories : Taken(q, c) >= 20
  BY SeriousTakes
<1>2. \A k : ScoreOf(q, k) \in 0..100
  BY MildAsItself, ScoreFalls
<1>3. ScoreOf(q, c) <= 80
  BY <1>1, ScoreIs, FiniteFindings
<1>4. Worst(q) \in 0..80
  BY <1>2, <1>3, WorstIs
<1>5. Weighted(q) \in Nat /\ Weighted(q) <= 9900
  BY <1>2, <1>3, WeightedLess
<1>6. PICK w, v : w = Weighted(q) /\ v = Worst(q)
  OBVIOUS
<1>7. w + 100 * v + 100 \in Int /\ w + 100 * v + 100 <= 18000
  BY <1>4, <1>5, <1>6
<1>8. \A x \in Int : x <= 18000 => x \div 200 <= 90
  OBVIOUS
<1> QED
  BY <1>6, <1>7, <1>8 DEF Overall

-----------------------------------------------------------------------------
(* The largest first. *)

Largest(left, size) == CHOOSE f \in left : \A g \in left : size[g] <= size[f]

\* F gives each part of a set in this order.
Orders(F, found, size) ==
  F = [left \in SUBSET found |->
         IF left = {} THEN <<>>
         ELSE LET next == CHOOSE f \in left : \A g \in left : size[g] <= size[f]
              IN  <<next>> \o F[left \ {next}]]

LEMMA LargestIs ==
  ASSUME NEW S, IsFiniteSet(S), S # {}, NEW size, \A f \in S : size[f] \in Nat
  PROVE  Largest(S, size) \in S /\ \A g \in S : size[g] <= size[Largest(S, size)]
<1> DEFINE P == {s \in SUBSET S : s # {} => \E f \in s : \A g \in s : size[g] <= size[f]}
<1>1. {} \in P
  OBVIOUS
<1>2. ASSUME NEW s \in SUBSET S, s \in P, NEW x \in S \ s PROVE s \cup {x} \in P
  <2>1. CASE s = {}
    <3>1. x \in s \cup {x} /\ \A g \in s \cup {x} : size[g] <= size[x]
      BY <2>1
    <3> QED
      BY <3>1
  <2>2. CASE s # {}
    <3>1. PICK f \in s : \A g \in s : size[g] <= size[f]
      BY <1>2, <2>2
    <3>2. \A g \in s \cup {x} : size[g] \in Nat
      OBVIOUS
    <3>3. CASE size[x] <= size[f]
      BY <3>1, <3>3
    <3>4. CASE ~(size[x] <= size[f])
      <4>1. \A g \in s \cup {x} : size[g] <= size[x]
        BY <3>1, <3>2, <3>4
      <4> QED
        BY <4>1
    <3> QED
      BY <3>3, <3>4
  <2> QED
    BY <2>1, <2>2
<1>3. S \in P
  <2> HIDE DEF P
  <2> QED
    BY <1>1, <1>2, SetInduction
<1> QED
  BY <1>3 DEF Largest

LEMMA OrdersExists ==
  ASSUME NEW S, IsFiniteSet(S), NEW size, \A f \in S : size[f] \in Nat
  PROVE  \E F \in [SUBSET S -> Seq(S)] : Orders(F, S, size)
<1> DEFINE pick == [s \in SUBSET S |-> Largest(s, size)]
           R    == [p \in S \X Seq(S) |-> <<p[1]>> \o p[2]]
<1>1. PICK base : base = <<>>
  OBVIOUS
<1>6. base \in Seq(S)
  BY <1>1
<1>2. Picks(pick, S)
  <2>1. ASSUME NEW s \in SUBSET S, s # {} PROVE Largest(s, size) \in s
    BY <2>1, FS_Subset, LargestIs
  <2> QED
    BY <2>1 DEF Picks
<1>3. Keeps(R, S, Seq(S))
  BY DEF Keeps
<1>4. PICK F \in [SUBSET S -> Seq(S)] : FoldsTo(F, S, base, pick, R)
  <2> HIDE DEF pick, R
  <2> QED
    BY <1>2, <1>3, <1>6, FoldExists
<1>5. Orders(F, S, size)
  <2>1. \A s \in SUBSET S : s # {} =>
          /\ pick[s] = Largest(s, size) /\ pick[s] \in S /\ s \ {pick[s]} \in SUBSET S
          /\ R[<<pick[s], F[s \ {pick[s]}]>>] = <<pick[s]>> \o F[s \ {pick[s]}]
    BY <1>2 DEF Picks
  <2> HIDE DEF pick, R
  <2> QED
    BY <1>1, <1>4, <2>1 DEF Orders, FoldsTo, Largest
<1> QED
  BY <1>5

\* The members of a set, each somewhere, none before a larger one.
InOrder(q, s, size) ==
  /\ q \in Seq(s) /\ \A f \in s : \E i \in 1..Len(q) : q[i] = f
  /\ \A i, j \in 1..Len(q) : i <= j => size[q[j]] <= size[q[i]]

LEMMA PutFirst ==
  ASSUME NEW s, NEW x \in s, NEW size, \A f \in s : size[f] \in Nat /\ size[f] <= size[x],
         NEW q, InOrder(q, s \ {x}, size)
  PROVE  InOrder(<<x>> \o q, s, size)
<1>1. q \in Seq(s) /\ <<x>> \in Seq(s) /\ Len(<<x>>) = 1 /\ Len(q) \in Nat
  BY DEF InOrder
<1>2. PICK n : n = Len(q)
  OBVIOUS
<1>3. PICK r : r = <<x>> \o q
  OBVIOUS
<1>4. /\ n \in Nat /\ r \in Seq(s) /\ Len(r) = n + 1 /\ r[1] = x
      /\ \A i \in 1..n : r[i + 1] = q[i]
  BY <1>1, <1>2, <1>3
<1>5. \A i \in 1..(n + 1) : i # 1 => i - 1 \in 1..n /\ r[i] = q[i - 1]
  <2> TAKE i \in 1..(n + 1)
  <2> HAVE i # 1
  <2>1. i - 1 \in 1..n /\ (i - 1) + 1 = i
    BY <1>4
  <2> QED
    BY <2>1, <1>4
<1>6. \A f \in s : \E i \in 1..(n + 1) : r[i] = f
  <2> TAKE f \in s
  <2>1. CASE f = x
    BY <2>1, <1>4
  <2>2. CASE f # x
    <3>1. PICK i \in 1..n : q[i] = f
      BY <2>2, <1>2 DEF InOrder
    <3>2. i + 1 \in 1..(n + 1)
      BY <1>4
    <3> QED
      BY <3>1, <3>2, <1>4
  <2> QED
    BY <2>1, <2>2
<1>7. \A i, j \in 1..(n + 1) : i <= j => size[r[j]] <= size[r[i]]
  <2> TAKE i, j \in 1..(n + 1)
  <2> HAVE i <= j
  <2>1. r[i] \in s /\ r[j] \in s
    BY <1>4
  <2>2. CASE i = 1
    BY <2>1, <2>2, <1>4
  <2>3. CASE i # 1
    <3>1. /\ j # 1 /\ i - 1 \in 1..n /\ j - 1 \in 1..n /\ i - 1 <= j - 1
          /\ r[i] = q[i - 1] /\ r[j] = q[j - 1]
      BY <2>3, <1>4, <1>5
    <3> QED
      BY <3>1, <1>2 DEF InOrder
  <2> QED
    BY <2>2, <2>3
<1> QED
  BY <1>3, <1>4, <1>6, <1>7 DEF InOrder

LEMMA LargestFirstIs ==
  ASSUME NEW S, IsFiniteSet(S), NEW size, \A f \in S : size[f] \in Nat
  PROVE  InOrder(LargestFirst(S, size), S, size)
<1>1. \E F : Orders(F, S, size)
  BY OrdersExists
<1>2. PICK F : Orders(F, S, size) /\ LargestFirst(S, size) = F[S]
  BY <1>1, Zenon DEF LargestFirst, Orders
<1>3. \A s \in SUBSET S : s # {} => F[s] = <<Largest(s, size)>> \o F[s \ {Largest(s, size)}]
  <2> TAKE s \in SUBSET S
  <2> HAVE s # {}
  <2> QED
    BY <1>2 DEF Orders, Largest
<1>4. F[{}] = <<>>
  BY <1>2 DEF Orders
<1> DEFINE P == {s \in SUBSET S : InOrder(F[s], s, size)}
<1>5. ASSUME NEW s \in SUBSET S, \A x \in s : s \ {x} \in P PROVE s \in P
  <2>1. CASE s = {}
    <3>1. PICK q : q = <<>>
      OBVIOUS
    <3>2. q \in Seq({}) /\ Len(q) = 0 /\ 1..Len(q) = {}
      BY <3>1
    <3>3. InOrder(q, {}, size)
      BY <3>2 DEF InOrder
    <3> QED
      BY <3>1, <3>3, <1>4, <2>1
  <2>2. CASE s # {}
    <3>1. PICK x : x = Largest(s, size)
      OBVIOUS
    <3>2. IsFiniteSet(s) /\ \A f \in s : size[f] \in Nat
      BY FS_Subset
    <3>3. x \in s /\ \A f \in s : size[f] <= size[x]
      BY <2>2, <3>1, <3>2, LargestIs
    <3>4. InOrder(F[s \ {x}], s \ {x}, size)
      BY <3>3, <1>5
    <3>5. InOrder(<<x>> \o F[s \ {x}], s, size)
      BY <3>2, <3>3, <3>4, PutFirst
    <3>6. F[s] = <<x>> \o F[s \ {x}]
      BY <1>3, <2>2, <3>1
    <3> QED
      BY <3>5, <3>6
  <2> QED
    BY <2>1, <2>2
<1>6. S \in P
  <2> HIDE DEF P
  <2>1. \A s \in SUBSET S : (\A x \in s : s \ {x} \in P) => s \in P
    BY <1>5
  <2>2. \A s \in SUBSET S : s \in P
    BY <2>1, SetDescent
  <2> QED
    BY <2>2
<1> QED
  BY <1>2, <1>6

-----------------------------------------------------------------------------
(* The rules. *)

Is(f, c, s) == IsFinding(f) /\ f.category = c /\ f.severity = s /\ f.counts = TRUE

LEMMA FindingIs ==
  ASSUME NEW rule, NEW c \in Categories, NEW s \in Severities
  PROVE  Is(Finding(rule, c, s), c, s)
BY DEF Is, IsFinding, Finding

\* What a rule adds to its finding changes none of what the score looks at.
LEMMA WithReclaimable ==
  ASSUME NEW rule, NEW c \in Categories, NEW s \in Severities, NEW x
  PROVE  Is([Finding(rule, c, s) EXCEPT !.reclaimable = x], c, s)
BY DEF Is, IsFinding, Finding

LEMMA WithPaths ==
  ASSUME NEW rule, NEW c \in Categories, NEW s \in Severities, NEW x, NEW y
  PROVE  Is([Finding(rule, c, s) EXCEPT !.risk = x, !.paths = y], c, s)
BY DEF Is, IsFinding, Finding

LEMMA WithEvidence ==
  ASSUME NEW rule, NEW c \in Categories, NEW s \in Severities, NEW n \in Nat \ {0}
  PROVE  Is([Finding(rule, c, s) EXCEPT !.evidence = n], c, s)
BY DEF Is, IsFinding, Finding

LEMMA OpportunityIs ==
  ASSUME NEW rule, NEW found, NEW n
  PROVE  IsFinding(Opportunity(rule, found, n)) /\ ~Opportunity(rule, found, n).counts
BY DEF IsFinding, Finding, Opportunity, Categories, Severities

LEMMA Graver ==
  ASSUME NEW p \in BOOLEAN, NEW q \in BOOLEAN, p => q
  PROVE  /\ Severe(p) \in Severities /\ Severe(q) \in Severities
         /\ DeductionFor(Severe(p)) <= DeductionFor(Severe(q))
BY DEF Severe, Severities, DeductionFor

\* A rule that is serious or not.
LEMMA MilderRule ==
  ASSUME NEW p \in BOOLEAN, NEW q \in BOOLEAN, p => q,
         NEW x \in BOOLEAN, NEW y \in BOOLEAN, p => (x => y), NEW rule, NEW c \in Categories
  PROVE  Milder(When(p, Finding(rule, c, Severe(x))), When(q, Finding(rule, c, Severe(y))))
<1>2. Severe(x) \in Severities /\ Severe(y) \in Severities
  BY DEF Severe, Severities
<1>3. PICK f, g : f = Finding(rule, c, Severe(x)) /\ g = Finding(rule, c, Severe(y))
  OBVIOUS
<1>4. Is(f, c, Severe(x)) /\ Is(g, c, Severe(y))
  BY <1>2, <1>3, FindingIs
<1>5. p => DeductionFor(Severe(x)) <= DeductionFor(Severe(y))
  BY Graver
<1>6. Milder(When(p, f), When(q, g))
  BY <1>4, <1>5, MilderWhen DEF Is
<1> QED
  BY <1>3, <1>6

\* What the rules make of two snapshots, part by part.
LessPressed(s, t) ==
  /\ \A v \in SystemVolumes(s) : v.free \in Nat
  /\ \A w \in SystemVolumes(t) : w.free \in Nat
  /\ \A v \in SystemVolumes(s) : \E w \in SystemVolumes(t) : w.free <= v.free

LEMMA LowMild ==
  ASSUME NEW s, NEW t, LessPressed(s, t)
  PROVE  /\ Milder(LowFreeSpace(s), LowFreeSpace(t))
         /\ SystemVolumeIsTight(s) => SystemVolumeIsTight(t)
<1> DEFINE Low(x) == {v \in SystemVolumes(x) : v.free < 10}
<1>1. ASSUME NEW v \in SystemVolumes(s)
      PROVE  \E w \in SystemVolumes(t) : (v.free < 10 => w.free < 10) /\ (v.free < 5 => w.free < 5)
  BY DEF LessPressed
<1>2. Low(s) # {} => Low(t) # {}
  BY <1>1
<1>3. PICK p, q : p = (Low(s) # {}) /\ q = (Low(t) # {})
  OBVIOUS
<1>4. PICK x, y : x = (\E v \in Low(s) : v.free < 5) /\ y = (\E v \in Low(t) : v.free < 5)
  OBVIOUS
<1>5. x => y
  <2>1. \A w \in SystemVolumes(t) : w.free < 5 => w.free < 10
    BY DEF LessPressed
  <2> QED
    BY <1>1, <1>4, <2>1
<1>6. /\ LowFreeSpace(s) = When(p, Finding("low-free-space", "Storage", Severe(x)))
      /\ LowFreeSpace(t) = When(q, Finding("low-free-space", "Storage", Severe(y)))
  BY <1>3, <1>4 DEF LowFreeSpace
<1>7. p \in BOOLEAN /\ q \in BOOLEAN /\ (p => q) /\ x \in BOOLEAN /\ y \in BOOLEAN
  BY <1>2, <1>3, <1>4
<1> HIDE DEF Low
<1>8. "Storage" \in Categories
  BY DEF Categories
<1>9. Milder(LowFreeSpace(s), LowFreeSpace(t))
  BY <1>5, <1>6, <1>7, <1>8, MilderRule
<1>11. SystemVolumeIsTight(s) => SystemVolumeIsTight(t)
  BY <1>1 DEF SystemVolumeIsTight
<1> QED
  BY <1>9, <1>11

LessLoaded(s, t) ==
  /\ s.temporary.available => t.temporary.available
  /\ s.temporary.total \in Nat /\ t.temporary.total \in Nat /\ s.temporary.total <= t.temporary.total

LEMMA TemporaryMild ==
  ASSUME NEW s, NEW t, LessPressed(s, t), LessLoaded(s, t)
  PROVE  Milder(ExcessiveTemporaryFiles(s), ExcessiveTemporaryFiles(t))
<1>1. PICK a, b : a = s.temporary.total /\ b = t.temporary.total
  OBVIOUS
<1>2. PICK m, n : m = (IF SystemVolumeIsTight(s) THEN 100 ELSE 1024)
                    /\ n = (IF SystemVolumeIsTight(t) THEN 100 ELSE 1024)
  OBVIOUS
<1>3. PICK x, y : x = (IF a >= 10240 THEN "Attention" ELSE "Info")
                    /\ y = (IF b >= 10240 THEN "Attention" ELSE "Info")
  OBVIOUS
<1>5. a \in Nat /\ b \in Nat /\ a <= b /\ m \in Nat /\ n \in Nat /\ n <= m
  BY <1>1, <1>2, LowMild DEF LessLoaded
<1>6. /\ (s.temporary.available /\ a >= m) => (t.temporary.available /\ b >= n)
      /\ (s.temporary.available /\ a >= m) \in BOOLEAN /\ (t.temporary.available /\ b >= n) \in BOOLEAN
  BY <1>5 DEF LessLoaded
<1>4. PICK p, q : p = (s.temporary.available /\ a >= m) /\ q = (t.temporary.available /\ b >= n)
  OBVIOUS
<1>14. p \in BOOLEAN /\ q \in BOOLEAN /\ (p => q)
  BY <1>4, <1>6, Zenon
<1>7. x \in Severities /\ y \in Severities /\ DeductionFor(x) <= DeductionFor(y)
  BY <1>3, <1>5 DEF Severities, DeductionFor
<1>8. PICK f, g : /\ f = [Finding("excessive-temporary-files", "Storage", x) EXCEPT !.reclaimable = a]
                  /\ g = [Finding("excessive-temporary-files", "Storage", y) EXCEPT !.reclaimable = b]
  OBVIOUS
<1>9. "Storage" \in Categories
  BY DEF Categories
<1>10. Is(f, "Storage", x) /\ Is(g, "Storage", y)
  BY <1>7, <1>8, <1>9, WithReclaimable
<1>12. Milder(When(p, f), When(q, g))
  BY <1>7, <1>10, <1>14, MilderWhen DEF Is
<1>13. ExcessiveTemporaryFiles(s) = When(p, f) /\ ExcessiveTemporaryFiles(t) = When(q, g)
  BY <1>1, <1>2, <1>3, <1>4, <1>8 DEF ExcessiveTemporaryFiles
<1> QED
  BY <1>12, <1>13

FewerItems(s, t) == s.startup \subseteq t.startup /\ IsFiniteSet(t.startup)

LEMMA StartupMild ==
  ASSUME NEW s, NEW t, FewerItems(s, t)
  PROVE  Milder(TooManyStartupItems(s), TooManyStartupItems(t))
<1>1. PICK A, B : A = {i \in s.startup : ~i.essential} /\ B = {i \in t.startup : ~i.essential}
  OBVIOUS
<1>2. A \subseteq B /\ IsFiniteSet(B)
  <2>1. B \subseteq t.startup
    BY <1>1
  <2> QED
    BY <1>1, <2>1, FS_Subset DEF FewerItems
<1>3. PICK m, n : m = Cardinality(A) /\ n = Cardinality(B)
  OBVIOUS
<1>4. m \in Nat /\ n \in Nat /\ m <= n
  BY <1>2, <1>3, FS_Subset, FS_CardinalityType
<1>5. PICK f, g :
        /\ f = [Finding("too-many-items", "Startup", Severe(m >= 15))
                  EXCEPT !.risk = "Yellow", !.paths = {<<i.name>> : i \in A}]
        /\ g = [Finding("too-many-items", "Startup", Severe(n >= 15))
                  EXCEPT !.risk = "Yellow", !.paths = {<<i.name>> : i \in B}]
  OBVIOUS
<1>6. TooManyStartupItems(s) = When(m > 5, f) /\ TooManyStartupItems(t) = When(n > 5, g)
  BY <1>1, <1>3, <1>5 DEF TooManyStartupItems
<1>7. PICK x, y : x = Severe(m >= 15) /\ y = Severe(n >= 15)
  OBVIOUS
<1>8. x \in Severities /\ y \in Severities /\ DeductionFor(x) <= DeductionFor(y)
  <2>1. (m >= 15) \in BOOLEAN /\ (n >= 15) \in BOOLEAN /\ (m >= 15 => n >= 15)
    BY <1>4
  <2> QED
    BY <1>7, <2>1, Graver
<1>9. "Startup" \in Categories
  BY DEF Categories
<1>10. Is(f, "Startup", x) /\ Is(g, "Startup", y)
  BY <1>5, <1>7, <1>8, <1>9, WithPaths
<1>11. (m > 5) \in BOOLEAN /\ (n > 5) \in BOOLEAN /\ (m > 5 => n > 5)
  BY <1>4
<1>12. PICK p, q : p = (m > 5) /\ q = (n > 5)
  OBVIOUS
<1>13. p \in BOOLEAN /\ q \in BOOLEAN /\ (p => q)
  BY <1>11, <1>12, Zenon
<1>14. Milder(When(p, f), When(q, g))
  BY <1>8, <1>10, <1>13, MilderWhen DEF Is
<1> QED
  BY <1>6, <1>12, <1>14

LEMMA MilderSame ==
  ASSUME NEW p \in BOOLEAN, NEW q \in BOOLEAN, p => q, NEW f, q => IsFinding(f)
  PROVE  Milder(When(p, f), When(q, f))
<1>1. p => f.category = f.category /\ (f.counts => f.counts) /\ DeductionFor(f.severity) <= DeductionFor(f.severity)
  <2>1. p => DeductionFor(f.severity) \in Nat
    BY DEF IsFinding, Severities, DeductionFor
  <2> QED
    BY <2>1
<1> QED
  BY <1>1, MilderWhen

\* How often programs failed, the worst first.
AreCounts(q) ==
  \E n \in Nat : /\ DOMAIN q = 1..n /\ \A i \in 1..n : q[i] \in Nat
                 /\ \A i, j \in 1..n : i <= j => q[j] <= q[i]

FailsLess(s, t) ==
  /\ s.stability.available => t.stability.available
  /\ AreCounts(s.stability.failures) /\ AreCounts(t.stability.failures)
  /\ \A i \in DOMAIN s.stability.failures : \E j \in DOMAIN t.stability.failures :
       s.stability.failures[i] <= t.stability.failures[j]

Often(q) == {i \in DOMAIN q : q[i] >= 3}
Front(q) == CHOOSE i \in Often(q) : \A j \in Often(q) : i <= j

LEMMA FrontIsWorst ==
  ASSUME NEW q, AreCounts(q), Often(q) # {}
  PROVE  (q[Front(q)] >= 10) <=> \E i \in DOMAIN q : q[i] >= 10
<1>1. PICK n \in Nat : /\ DOMAIN q = 1..n /\ \A i \in 1..n : q[i] \in Nat
                       /\ \A i, j \in 1..n : i <= j => q[j] <= q[i]
  BY DEF AreCounts
<1>2. Often(q) \subseteq 1..n /\ Often(q) \subseteq Nat
  BY <1>1 DEF Often
<1>3. \E i \in Often(q) : \A j \in Often(q) : i <= j
  BY <1>2, Least
<1>4. Front(q) \in Often(q) /\ \A j \in Often(q) : Front(q) <= j
  BY <1>3 DEF Front
<1>5. ASSUME NEW i \in DOMAIN q, q[i] >= 10 PROVE q[Front(q)] >= 10
  <2>1. i \in Often(q) /\ i \in 1..n /\ q[i] \in Nat
    BY <1>1, <1>5 DEF Often
  <2>2. Front(q) <= i /\ Front(q) \in 1..n
    BY <1>2, <1>4, <2>1
  <2>3. q[i] <= q[Front(q)] /\ q[Front(q)] \in Nat
    BY <1>1, <2>1, <2>2
  <2> QED
    BY <1>5, <2>1, <2>3
<1> QED
  BY <1>1, <1>2, <1>4, <1>5

LEMMA FailuresMild ==
  ASSUME NEW s, NEW t, FailsLess(s, t)
  PROVE  Milder(RecurringAppFailures(s), RecurringAppFailures(t))
<1>1. PICK a, b : a = s.stability.failures /\ b = t.stability.failures
  OBVIOUS
<1>2. AreCounts(a) /\ AreCounts(b) /\ \A i \in DOMAIN a : \E j \in DOMAIN b : a[i] <= b[j]
  BY <1>1 DEF FailsLess
<1>3. (\A i \in DOMAIN a : a[i] \in Nat) /\ \A i \in DOMAIN b : b[i] \in Nat
  BY <1>2 DEF AreCounts
<1>4. Often(a) # {} => Often(b) # {}
  BY <1>2, <1>3 DEF Often
<1>5. (\E i \in DOMAIN a : a[i] >= 10) => \E j \in DOMAIN b : b[j] >= 10
  BY <1>2, <1>3
<1>6. PICK p, q : /\ p = (s.stability.available /\ Often(a) # {})
                  /\ q = (t.stability.available /\ Often(b) # {})
  OBVIOUS
<1>7. PICK x, y : x = (a[Front(a)] >= 10) /\ y = (b[Front(b)] >= 10)
  OBVIOUS
<1>8. /\ RecurringAppFailures(s) = When(p, Finding("recurring-app-failures", "Stability", Severe(x)))
      /\ RecurringAppFailures(t) = When(q, Finding("recurring-app-failures", "Stability", Severe(y)))
  BY <1>1, <1>6, <1>7 DEF RecurringAppFailures, Often, Front
<1>9. p \in BOOLEAN /\ q \in BOOLEAN /\ (p => q)
  BY <1>4, <1>6 DEF FailsLess
<1>10. p => ((a[Front(a)] >= 10) => (b[Front(b)] >= 10))
  BY <1>2, <1>4, <1>5, <1>6, FrontIsWorst
<1>11. (a[Front(a)] >= 10) \in BOOLEAN /\ (b[Front(b)] >= 10) \in BOOLEAN
  OBVIOUS
<1>12. x \in BOOLEAN /\ y \in BOOLEAN /\ (p => (x => y))
  BY <1>7, <1>10, <1>11, Zenon
<1>13. "Stability" \in Categories
  BY DEF Categories
<1> QED
  BY <1>8, <1>9, <1>12, <1>13, MilderRule

FewerMarkers(s, t) == s.updates \subseteq t.updates /\ IsFiniteSet(t.updates)

LEMMA UpdatesMild ==
  ASSUME NEW s, NEW t, FewerMarkers(s, t)
  PROVE  Milder(PendingReboot(s), PendingReboot(t))
<1>1. PICK p, q : p = (s.updates # {}) /\ q = (t.updates # {})
  OBVIOUS
<1>2. p \in BOOLEAN /\ q \in BOOLEAN /\ (p => q)
  BY <1>1 DEF FewerMarkers
<1>3. PICK f, g :
        /\ f = [Finding("pending-reboot", "Updates", "Attention") EXCEPT !.evidence = Cardinality(s.updates)]
        /\ g = [Finding("pending-reboot", "Updates", "Attention") EXCEPT !.evidence = Cardinality(t.updates)]
  OBVIOUS
<1>4. PendingReboot(s) = When(p, f) /\ PendingReboot(t) = When(q, g)
  BY <1>1, <1>3 DEF PendingReboot
<1>5. /\ p => Cardinality(s.updates) \in Nat \ {0}
      /\ q => Cardinality(t.updates) \in Nat \ {0}
  <2>1. IsFiniteSet(s.updates) /\ IsFiniteSet(t.updates)
    BY FS_Subset DEF FewerMarkers
  <2> QED
    BY <1>1, <2>1, FS_CardinalityType, FS_EmptySet
<1>6. "Updates" \in Categories /\ "Attention" \in Severities
  BY DEF Categories, Severities
<1>7. (p => Is(f, "Updates", "Attention")) /\ (q => Is(g, "Updates", "Attention"))
  BY <1>3, <1>5, <1>6, WithEvidence
<1>8. DeductionFor("Attention") <= DeductionFor("Attention")
  BY DEF DeductionFor
<1>9. Milder(When(p, f), When(q, g))
  BY <1>2, <1>7, <1>8, MilderWhen DEF Is
<1> QED
  BY <1>4, <1>9

MoreMemory(s, t) ==
  /\ s.memory.available => t.memory.available
  /\ s.memory.free \in Nat /\ t.memory.free \in Nat /\ t.memory.free <= s.memory.free

LEMMA MemoryMild ==
  ASSUME NEW s, NEW t, MoreMemory(s, t)
  PROVE  Milder(LowMemory(s), LowMemory(t))
<1>1. PICK a, b : a = s.memory.free /\ b = t.memory.free
  OBVIOUS
<1>2. PICK p, q : p = (s.memory.available /\ a < 10) /\ q = (t.memory.available /\ b < 10)
  OBVIOUS
<1>3. PICK x, y : x = (a < 5) /\ y = (b < 5)
  OBVIOUS
<1>4. /\ LowMemory(s) = When(p, Finding("low-available-memory", "Performance", Severe(x)))
      /\ LowMemory(t) = When(q, Finding("low-available-memory", "Performance", Severe(y)))
  BY <1>1, <1>2, <1>3 DEF LowMemory
<1>5. /\ s.memory.available /\ a < 10 => t.memory.available /\ b < 10
      /\ a < 5 => b < 5
      /\ (a < 5) \in BOOLEAN /\ (b < 5) \in BOOLEAN
  BY <1>1 DEF MoreMemory
<1>6. p \in BOOLEAN /\ q \in BOOLEAN /\ (p => q) /\ x \in BOOLEAN /\ y \in BOOLEAN /\ (x => y)
  BY <1>2, <1>3, <1>5, Zenon
<1>7. "Performance" \in Categories
  BY DEF Categories
<1> QED
  BY <1>4, <1>6, <1>7, MilderRule

Unguarded(s) ==
  /\ s.security.available /\ s.security.provider \in {"", "Windows"}
  /\ ~s.security.on \/ s.security.age > 7

BetterGuarded(s, t) == Unguarded(s) => Unguarded(t) /\ (~s.security.on => ~t.security.on)

LEMMA SecurityMild ==
  ASSUME NEW s, NEW t, BetterGuarded(s, t)
  PROVE  Milder(WeakProtection(s), WeakProtection(t))
<1>1. PICK p, q : p = Unguarded(s) /\ q = Unguarded(t)
  OBVIOUS
<1>2. PICK x, y : x = ~s.security.on /\ y = ~t.security.on
  OBVIOUS
<1>3. /\ WeakProtection(s) = When(p, Finding("weak-protection", "Security", Severe(x)))
      /\ WeakProtection(t) = When(q, Finding("weak-protection", "Security", Severe(y)))
  BY <1>1, <1>2 DEF WeakProtection, Unguarded
<1>4. Unguarded(s) \in BOOLEAN /\ Unguarded(t) \in BOOLEAN
  BY DEF Unguarded
<1>5. p \in BOOLEAN /\ q \in BOOLEAN /\ x \in BOOLEAN /\ y \in BOOLEAN /\ (p => q) /\ (p => (x => y))
  BY <1>1, <1>2, <1>4 DEF BetterGuarded
<1>6. "Security" \in Categories
  BY DEF Categories
<1> QED
  BY <1>3, <1>5, <1>6, MilderRule

Ailing(d) == d.health \in Failing \/ d.errors >= 1

HealthierDisks(s, t) ==
  /\ s.disks.available => t.disks.available
  /\ (\E d \in s.disks.disks : Ailing(d)) => \E d \in t.disks.disks : Ailing(d)

LEMMA DisksMild ==
  ASSUME NEW s, NEW t, HealthierDisks(s, t)
  PROVE  Milder(DiskHealth(s), DiskHealth(t))
<1>1. PICK p, q : /\ p = (s.disks.available /\ \E d \in s.disks.disks : Ailing(d))
                  /\ q = (t.disks.available /\ \E d \in t.disks.disks : Ailing(d))
  OBVIOUS
<1>2. PICK f : f = Finding("physical-warning", "Disks", "Serious")
  OBVIOUS
<1>3. DiskHealth(s) = When(p, f) /\ DiskHealth(t) = When(q, f)
  BY <1>1, <1>2 DEF DiskHealth, Ailing
<1>4. p \in BOOLEAN /\ q \in BOOLEAN /\ (p => q)
  BY <1>1 DEF HealthierDisks
<1>5. "Disks" \in Categories /\ "Serious" \in Severities
  BY DEF Categories, Severities
<1>6. IsFinding(f)
  BY <1>2, <1>5, FindingIs DEF Is
<1> QED
  BY <1>3, <1>4, <1>6, MilderSame

LessCorrupt(s, t) ==
  /\ s.integrity.available => t.integrity.available
  /\ s.integrity.corruption \in Nat /\ s.integrity.component \in Nat
  /\ t.integrity.corruption \in Nat /\ t.integrity.component \in Nat
  /\ s.integrity.corruption + s.integrity.component <= t.integrity.corruption + t.integrity.component

LEMMA IntegrityMild ==
  ASSUME NEW s, NEW t, LessCorrupt(s, t)
  PROVE  Milder(WindowsIntegrity(s), WindowsIntegrity(t))
<1>1. PICK m, n : /\ m = s.integrity.corruption + s.integrity.component
                  /\ n = t.integrity.corruption + t.integrity.component
  OBVIOUS
<1>2. m \in Nat /\ n \in Nat /\ m <= n
  BY <1>1 DEF LessCorrupt
<1>3. /\ s.integrity.available /\ m >= 2 => t.integrity.available /\ n >= 2
      /\ (s.integrity.available /\ m >= 2) \in BOOLEAN /\ (t.integrity.available /\ n >= 2) \in BOOLEAN
  BY <1>2 DEF LessCorrupt
<1>4. PICK p, q : p = (s.integrity.available /\ m >= 2) /\ q = (t.integrity.available /\ n >= 2)
  OBVIOUS
<1>5. PICK f : f = Finding("corruption-signs", "WindowsIntegrity", "Attention")
  OBVIOUS
<1>6. WindowsIntegrity(s) = When(p, f) /\ WindowsIntegrity(t) = When(q, f)
  BY <1>1, <1>4, <1>5 DEF WindowsIntegrity
<1>7. p \in BOOLEAN /\ q \in BOOLEAN /\ (p => q)
  BY <1>3, <1>4, Zenon
<1>8. "WindowsIntegrity" \in Categories /\ "Attention" \in Severities
  BY DEF Categories, Severities
<1>9. IsFinding(f)
  BY <1>5, <1>8, FindingIs DEF Is
<1> QED
  BY <1>6, <1>7, <1>9, MilderSame

FewerEvents(s, t) ==
  /\ s.disks.eventsAvailable => t.disks.eventsAvailable
  /\ s.disks.events \in Nat /\ t.disks.events \in Nat /\ s.disks.events <= t.disks.events

LEMMA EventsMild ==
  ASSUME NEW s, NEW t, FewerEvents(s, t)
  PROVE  Milder(FilesystemCorruption(s), FilesystemCorruption(t))
<1>1. PICK a, b : a = s.disks.events /\ b = t.disks.events
  OBVIOUS
<1>2. PICK p, q : p = (s.disks.eventsAvailable /\ a >= 3) /\ q = (t.disks.eventsAvailable /\ b >= 3)
  OBVIOUS
<1>3. PICK x, y : x = (a >= 20) /\ y = (b >= 20)
  OBVIOUS
<1>4. /\ FilesystemCorruption(s) = When(p, Finding("filesystem-corruption", "Disks", Severe(x)))
      /\ FilesystemCorruption(t) = When(q, Finding("filesystem-corruption", "Disks", Severe(y)))
  BY <1>1, <1>2, <1>3 DEF FilesystemCorruption
<1>5. /\ s.disks.eventsAvailable /\ a >= 3 => t.disks.eventsAvailable /\ b >= 3
      /\ a >= 20 => b >= 20
      /\ (a >= 20) \in BOOLEAN /\ (b >= 20) \in BOOLEAN
  BY <1>1 DEF FewerEvents
<1>6. p \in BOOLEAN /\ q \in BOOLEAN /\ (p => q) /\ x \in BOOLEAN /\ y \in BOOLEAN /\ (x => y)
  BY <1>2, <1>3, <1>5, Zenon
<1>7. "Disks" \in Categories
  BY DEF Categories
<1> QED
  BY <1>4, <1>6, <1>7, MilderRule

\* Found and measured.
Measured(S) == IsFiniteSet(S) /\ \A f \in S : f.bytes \in Nat

LEMMA LargeInOrder ==
  ASSUME NEW S, Measured(S), NEW large, large \subseteq S
  PROVE  \E n \in Nat : DOMAIN LargestFirst(large, [f \in large |-> f.bytes]) = 1..n
<1>1. IsFiniteSet(large) /\ \A f \in large : [g \in large |-> g.bytes][f] \in Nat
  BY FS_Subset DEF Measured
<1>2. InOrder(LargestFirst(large, [f \in large |-> f.bytes]), large, [f \in large |-> f.bytes])
  BY <1>1, LargestFirstIs
<1>3. LargestFirst(large, [f \in large |-> f.bytes]) \in Seq(large)
  BY <1>2 DEF InOrder
<1> QED
  BY <1>3

LEMMA NothingTaken ==
  ASSUME NEW q, NEW n \in Nat, q = [i \in 1..n |-> q[i]],
         \A i \in 1..n : \E rule, found, bytes : q[i] = Opportunity(rule, found, bytes)
  PROVE  AreFindings(q) /\ \A c : Taken(q, c) = 0
<1>1. \A i \in 1..n : IsFinding(q[i]) /\ ~q[i].counts
  BY OpportunityIs
<1> QED
  BY <1>1, Opportunities

LEMMA LocationsTakeNothing ==
  ASSUME NEW s, Measured(s.locations)
  PROVE  AreFindings(ReclaimableSpace(s)) /\ \A c : Taken(ReclaimableSpace(s), c) = 0
<1>1. PICK m : m = IF SystemVolumeIsTight(s) THEN 100 ELSE 500
  OBVIOUS
<1>2. PICK large : large = {l \in s.locations : l.bytes >= m}
  OBVIOUS
<1>3. PICK r : r = LargestFirst(large, [l \in large |-> l.bytes])
  OBVIOUS
<1>4. PICK n \in Nat : DOMAIN r = 1..n
  <2>1. large \subseteq s.locations
    BY <1>2
  <2> QED
    BY <1>3, <2>1, LargeInOrder
<1>5. PICK q : q = ReclaimableSpace(s)
  OBVIOUS
<1>6. q = [i \in 1..n |-> Opportunity("reclaimable-location", r[i], r[i].bytes)]
  BY <1>1, <1>2, <1>3, <1>4, <1>5 DEF ReclaimableSpace
<1>7. /\ q = [i \in 1..n |-> q[i]]
      /\ \A i \in 1..n : \E rule, found, bytes : q[i] = Opportunity(rule, found, bytes)
  BY <1>6
<1> QED
  BY <1>5, <1>7, NothingTaken

LEMMA ProfilesTakeNothing ==
  ASSUME NEW s, Measured(s.profiles)
  PROVE  AreFindings(AppProfile(s)) /\ \A c : Taken(AppProfile(s), c) = 0
<1>1. PICK large : large = {l \in s.profiles : l.bytes >= 20}
  OBVIOUS
<1>2. PICK r : r = LargestFirst(large, [l \in large |-> l.bytes])
  OBVIOUS
<1>3. PICK n \in Nat : DOMAIN r = 1..n
  <2>1. large \subseteq s.profiles
    BY <1>1
  <2> QED
    BY <1>2, <2>1, LargeInOrder
<1>4. PICK q : q = AppProfile(s)
  OBVIOUS
<1>5. q = [i \in 1..n |->
             Opportunity("profile-item", r[i], IF r[i].risk = "Green" THEN r[i].bytes ELSE 0)]
  BY <1>1, <1>2, <1>3, <1>4 DEF AppProfile
<1>6. /\ q = [i \in 1..n |-> q[i]]
      /\ \A i \in 1..n : \E rule, found, bytes : q[i] = Opportunity(rule, found, bytes)
  BY <1>5
<1> QED
  BY <1>4, <1>6, NothingTaken

\* The first snapshot is no worse than the second.
NoWorse(s, t) ==
  /\ LessPressed(s, t) /\ LessLoaded(s, t) /\ FewerItems(s, t) /\ FailsLess(s, t) /\ FewerMarkers(s, t)
  /\ MoreMemory(s, t) /\ BetterGuarded(s, t) /\ HealthierDisks(s, t) /\ LessCorrupt(s, t)
  /\ FewerEvents(s, t)
  /\ Measured(s.locations) /\ Measured(t.locations) /\ Measured(s.profiles) /\ Measured(t.profiles)

LEMMA RulesMild ==
  ASSUME NEW s, NEW t, NoWorse(s, t)
  PROVE  Milder(DefaultRules(s), DefaultRules(t))
<1>1. /\ Milder(LowFreeSpace(s), LowFreeSpace(t))
      /\ Milder(ExcessiveTemporaryFiles(s), ExcessiveTemporaryFiles(t))
      /\ Milder(TooManyStartupItems(s), TooManyStartupItems(t))
      /\ Milder(RecurringAppFailures(s), RecurringAppFailures(t))
      /\ Milder(PendingReboot(s), PendingReboot(t))
      /\ Milder(LowMemory(s), LowMemory(t))
      /\ Milder(WeakProtection(s), WeakProtection(t))
      /\ Milder(DiskHealth(s), DiskHealth(t))
      /\ Milder(WindowsIntegrity(s), WindowsIntegrity(t))
      /\ Milder(FilesystemCorruption(s), FilesystemCorruption(t))
  BY LowMild, TemporaryMild, StartupMild, FailuresMild, UpdatesMild, MemoryMild, SecurityMild,
      DisksMild,
     IntegrityMild, EventsMild DEF NoWorse
<1>2. Milder(ReclaimableSpace(s), ReclaimableSpace(t)) /\ Milder(AppProfile(s), AppProfile(t))
  BY LocationsTakeNothing, ProfilesTakeNothing DEF NoWorse, Milder
<1>3. Milder(LowFreeSpace(s) \o ExcessiveTemporaryFiles(s), LowFreeSpace(t) \o ExcessiveTemporaryFiles(t))
  BY <1>1, MilderJoined
<1> DEFINE Three(x) == LowFreeSpace(x) \o ExcessiveTemporaryFiles(x) \o TooManyStartupItems(x)
           Four(x)  == Three(x) \o RecurringAppFailures(x)
           Five(x)  == Four(x) \o PendingReboot(x)
           Six(x)   == Five(x) \o LowMemory(x)
           Seven(x) == Six(x) \o WeakProtection(x)
           Eight(x) == Seven(x) \o DiskHealth(x)
           Nine(x)  == Eight(x) \o WindowsIntegrity(x)
           Ten(x)   == Nine(x) \o FilesystemCorruption(x)
           Eleven(x) == Ten(x) \o ReclaimableSpace(x)
<1>4. Milder(Three(s), Three(t))
  BY <1>1, <1>3, MilderJoined
<1> HIDE DEF Three
<1>5. Milder(Four(s), Four(t))
  BY <1>1, <1>4, MilderJoined
<1> HIDE DEF Four
<1>6. Milder(Five(s), Five(t))
  BY <1>1, <1>5, MilderJoined
<1> HIDE DEF Five
<1>7. Milder(Six(s), Six(t))
  BY <1>1, <1>6, MilderJoined
<1> HIDE DEF Six
<1>8. Milder(Seven(s), Seven(t))
  BY <1>1, <1>7, MilderJoined
<1> HIDE DEF Seven
<1>9. Milder(Eight(s), Eight(t))
  BY <1>1, <1>8, MilderJoined
<1> HIDE DEF Eight
<1>10. Milder(Nine(s), Nine(t))
  BY <1>1, <1>9, MilderJoined
<1> HIDE DEF Nine
<1>11. Milder(Ten(s), Ten(t))
  BY <1>1, <1>10, MilderJoined
<1> HIDE DEF Ten
<1>12. Milder(Eleven(s), Eleven(t))
  BY <1>2, <1>11, MilderJoined
<1> HIDE DEF Eleven
<1>13. Milder(Eleven(s) \o AppProfile(s), Eleven(t) \o AppProfile(t))
  BY <1>2, <1>12, MilderJoined
<1>14. DefaultRules(s) = Eleven(s) \o AppProfile(s) /\ DefaultRules(t) = Eleven(t) \o AppProfile(t)
  BY DEF DefaultRules, Three, Four, Five, Six, Seven, Eight, Nine, Ten, Eleven
<1> QED
  BY <1>13, <1>14

\* What the score makes of two snapshots.
LEMMA RunFalls ==
  ASSUME NEW s, NEW t, NoWorse(s, t)
  PROVE  /\ Run(t).overall <= Run(s).overall
         /\ Run(s).recommendations = DefaultRules(s) /\ AreFindings(DefaultRules(s))
<1>1. Milder(DefaultRules(s), DefaultRules(t))
  BY RulesMild
<1>2. Validated(DefaultRules(s)) = DefaultRules(s) /\ Validated(DefaultRules(t)) = DefaultRules(t)
  BY <1>1, NoneDropped DEF Milder
<1>3. /\ Run(s).overall = Overall(DefaultRules(s)) /\ Run(t).overall = Overall(DefaultRules(t))
      /\ Run(s).recommendations = DefaultRules(s)
  BY <1>2 DEF Run
<1> QED
  BY <1>1, <1>3, OverallFalls DEF Milder

-----------------------------------------------------------------------------
(* The collectors. *)

\* The second computer is as bad as the first or worse, in each area that has good and bad.
AsBad(c, d) == \A area \in Areas \ {"antivirus", "folders"} : GetsWorse(area, c[area], d[area])

\* Both analyses fail alike, or the second does not, where what Defender leaves out is off.
FailsToo(f, g, d) == g = f \/ (g = "none" /\ (f = "status" => ~d.protected))

LEMMA SnapshotIs ==
  ASSUME NEW c, NEW f, NEW s, s = CollectSnapshot(c, f)
  PROVE  /\ s.volumes = CollectVolumes(c, f) /\ s.startup = CollectStartup(c, f)
         /\ s.stability = CollectStability(c, f) /\ s.integrity = CollectIntegrity(c, f)
         /\ s.updates = CollectUpdates(c, f) /\ s.memory = CollectMemory(c, f)
         /\ s.security = CollectSecurity(c, f) /\ s.disks = CollectDisks(c, f)
         /\ s.temporary = CollectTemporary(c, f)
         /\ s.locations = CollectLocations(c.folders, BuildProtectedPaths(System, {}), f # "locations")
         /\ s.profiles = CollectProfiles(c.folders, f # "profiles")
BY DEF CollectSnapshot

LEMMA TemporaryIs ==
  ASSUME NEW c, NEW f
  PROVE  LET r == CollectTemporary(c, f)
         IN  (r.available <=> f # "temporary") /\ r.total = IF f = "temporary" THEN 0 ELSE c.temporary
BY DEF CollectTemporary

LEMMA MemoryIs ==
  ASSUME NEW c, NEW f
  PROVE  LET r == CollectMemory(c, f) IN (r.available <=> f # "memory") /\ r.free = c.memory
BY DEF CollectMemory

LEMMA IntegrityIs ==
  ASSUME NEW c, NEW f
  PROVE  LET r == CollectIntegrity(c, f)
         IN  /\ r.available <=> f # "both-channels"
             /\ r.corruption = IF f \in {"servicing", "both-channels"} THEN 0 ELSE c.servicing
             /\ r.component = IF f \in {"components", "both-channels"} THEN 0 ELSE c.components
BY DEF CollectIntegrity

LEMMA SecurityAnswers ==
  ASSUME NEW c, NEW f, f # "security", f # "defender-silent", NEW r, r = CollectSecurity(c, f)
  PROVE  r.available /\ r.provider = "Windows" /\ r.age = c.age
<1>1. PICK on : on = (c.protected /\ f # "status")
  OBVIOUS
<1>2. r = [available |-> TRUE, provider |-> "Windows", age |-> c.age, on |-> on]
  BY <1>1, Zenon DEF CollectSecurity
<1> QED
  BY <1>2

LEMMA SecurityOn ==
  ASSUME NEW c, NEW f, f # "security", f # "defender-silent", NEW r, r = CollectSecurity(c, f)
  PROVE  r.on <=> (c.protected /\ f # "status")
<1>1. PICK on : on = (c.protected /\ f # "status")
  OBVIOUS
<1>2. r = [available |-> TRUE, provider |-> "Windows", age |-> c.age, on |-> on]
  BY <1>1, Zenon DEF CollectSecurity
<1>3. r.on = on
  BY <1>2
<1> QED
  BY <1>1, <1>3, Zenon

LEMMA SecurityLacks ==
  ASSUME NEW c, NEW f, NEW r, r = CollectSecurity(c, f)
  PROVE  /\ f = "security" => ~r.available
         /\ f = "defender-silent" => (r.available <=> c.antivirus # "") /\ r.provider = c.antivirus
BY DEF CollectSecurity

SeenDisks(c, f) ==
  IF f = "disks" THEN {}
  ELSE IF f = "counters" THEN {[d EXCEPT !.errors = -1] : d \in c.disks} ELSE c.disks

LEMMA DisksAre ==
  ASSUME NEW c, NEW f
  PROVE  LET r == CollectDisks(c, f)
         IN  /\ r.available <=> f # "disks"
             /\ r.disks = SeenDisks(c, f)
             /\ r.eventsAvailable <=> f \notin {"disks", "ntfs"}
             /\ r.events = IF f \in {"disks", "ntfs"} THEN 0 ELSE c.ntfs
BY DEF CollectDisks, SeenDisks

LEMMA ReadingsAre ==
  ASSUME NEW c, IsComputer(c)
  PROVE  /\ \A v \in c.volumes : v.free \in Nat
         /\ IsFiniteSet(DOMAIN c.failures) /\ \A app \in DOMAIN c.failures : c.failures[app] \in Nat
         /\ IsFiniteSet(DOMAIN c.folders) /\ \A path \in DOMAIN c.folders : c.folders[path] \in Nat
         /\ IsFiniteSet(c.startup) /\ IsFiniteSet(c.markers)
         /\ c.disks \subseteq [health : {"Healthy", "Unknown"} \cup Failing, errors : Nat]
         /\ c.protected \in BOOLEAN /\ c.antivirus # "Windows"
         /\ c.memory \in Nat /\ c.age \in Nat /\ c.ntfs \in Nat /\ c.servicing \in Nat
         /\ c.components \in Nat /\ c.temporary \in Nat
<1>1. \A area \in Areas : IsReading(area, c[area])
  BY DEF IsComputer
<1>2. /\ IsReading("volumes", c.volumes) /\ IsReading("failures", c.failures) /\ IsReading("folders", c.folders)
      /\ IsReading("startup", c.startup) /\ IsReading("markers", c.markers) /\ IsReading("disks", c.disks)
      /\ IsReading("protected", c.protected) /\ IsReading("antivirus", c.antivirus)
      /\ IsReading("memory", c.memory) /\ IsReading("age", c.age) /\ IsReading("ntfs", c.ntfs)
      /\ IsReading("servicing", c.servicing) /\ IsReading("components", c.components)
      /\ IsReading("temporary", c.temporary)
  BY <1>1 DEF Areas
<1> QED
  BY <1>2 DEF IsReading

LEMMA AsBadIs ==
  ASSUME NEW c, NEW d, AsBad(c, d)
  PROVE  /\ \A v \in c.volumes : v.system => \E w \in d.volumes : w.system /\ w.free <= v.free
         /\ \A app \in DOMAIN c.failures : app \in DOMAIN d.failures /\ c.failures[app] <= d.failures[app]
         /\ c.startup \subseteq d.startup /\ c.markers \subseteq d.markers
         /\ d.memory <= c.memory /\ (d.protected => c.protected)
         /\ \A x \in c.disks : \E y \in d.disks :
              x.errors <= y.errors /\ (x.health \in Failing => y.health \in Failing)
         /\ c.age <= d.age /\ c.ntfs <= d.ntfs /\ c.servicing <= d.servicing
         /\ c.components <= d.components /\ c.temporary <= d.temporary
<1>1. /\ GetsWorse("volumes", c.volumes, d.volumes) /\ GetsWorse("failures", c.failures, d.failures)
      /\ GetsWorse("startup", c.startup, d.startup) /\ GetsWorse("markers", c.markers, d.markers)
      /\ GetsWorse("memory", c.memory, d.memory) /\ GetsWorse("protected", c.protected, d.protected)
      /\ GetsWorse("disks", c.disks, d.disks) /\ GetsWorse("age", c.age, d.age)
      /\ GetsWorse("ntfs", c.ntfs, d.ntfs) /\ GetsWorse("servicing", c.servicing, d.servicing)
      /\ GetsWorse("components", c.components, d.components)
      /\ GetsWorse("temporary", c.temporary, d.temporary)
  BY DEF AsBad, Areas
<1> QED
  BY <1>1 DEF GetsWorse

LEMMA VolumesAre ==
  ASSUME NEW c, NEW f, NEW s, s = CollectSnapshot(c, f), NEW v
  PROVE  v \in s.volumes <=> v \in c.volumes /\ f # "drives" /\ (f # "system-volume" \/ ~v.system)
<1>1. s.volumes = CollectVolumes(c, f)
  BY SnapshotIs
<1> QED
  BY <1>1 DEF CollectVolumes

LEMMA VolumesNoWorse ==
  ASSUME NEW c, NEW d, IsComputer(c), IsComputer(d), AsBad(c, d), NEW f, NEW g, FailsToo(f, g, d)
  PROVE  LessPressed(CollectSnapshot(c, f), CollectSnapshot(d, g))
<1>1. PICK s, t : s = CollectSnapshot(c, f) /\ t = CollectSnapshot(d, g)
  OBVIOUS
<1>2. /\ \A v : v \in s.volumes <=> v \in c.volumes /\ f # "drives" /\ (f # "system-volume" \/ ~v.system)
      /\ \A v : v \in t.volumes <=> v \in d.volumes /\ g # "drives" /\ (g # "system-volume" \/ ~v.system)
  BY <1>1, VolumesAre
<1>3. \A v \in SystemVolumes(s) : v \in c.volumes /\ v.system /\ f # "drives" /\ f # "system-volume"
  BY <1>2 DEF SystemVolumes
<1>4. \A w \in d.volumes : w.system /\ g # "drives" /\ g # "system-volume" => w \in SystemVolumes(t)
  BY <1>2 DEF SystemVolumes
<1>5. f # "drives" /\ f # "system-volume" => g # "drives" /\ g # "system-volume"
  BY DEF FailsToo
<1>6. \A v \in SystemVolumes(s) : \E w \in SystemVolumes(t) : w.free <= v.free
  BY <1>3, <1>4, <1>5, AsBadIs
<1>7. (\A v \in SystemVolumes(s) : v.free \in Nat) /\ \A w \in SystemVolumes(t) : w.free \in Nat
  BY <1>2, ReadingsAre DEF SystemVolumes
<1> QED
  BY <1>1, <1>6, <1>7 DEF LessPressed

LEMMA ItemsNoWorse ==
  ASSUME NEW c, NEW d, IsComputer(c), IsComputer(d), AsBad(c, d), NEW f, NEW g, FailsToo(f, g, d)
  PROVE  /\ FewerItems(CollectSnapshot(c, f), CollectSnapshot(d, g))
         /\ FewerMarkers(CollectSnapshot(c, f), CollectSnapshot(d, g))
<1>1. PICK s, t : s = CollectSnapshot(c, f) /\ t = CollectSnapshot(d, g)
  OBVIOUS
<1>2. /\ s.startup = {i \in c.startup : f # "run-key" \/ i.folder}
      /\ t.startup = {i \in d.startup : g # "run-key" \/ i.folder}
      /\ s.updates = (IF f = "marker" THEN {} ELSE c.markers) /\ t.updates = (IF g = "marker" THEN {} ELSE d.markers)
  BY <1>1, SnapshotIs DEF CollectStartup, CollectUpdates
<1>3. (f # "run-key" => g # "run-key") /\ (f # "marker" => g # "marker")
  BY DEF FailsToo
<1>4. s.startup \subseteq t.startup /\ s.updates \subseteq t.updates
  BY <1>2, <1>3, AsBadIs
<1>5. t.startup \subseteq d.startup /\ t.updates \subseteq d.markers
  BY <1>2
<1>6. IsFiniteSet(t.startup) /\ IsFiniteSet(t.updates)
  BY <1>5, ReadingsAre, FS_Subset
<1> QED
  BY <1>1, <1>4, <1>6 DEF FewerItems, FewerMarkers

LEMMA NumbersNoWorse ==
  ASSUME NEW c, NEW d, IsComputer(c), IsComputer(d), AsBad(c, d), NEW f, NEW g, FailsToo(f, g, d)
  PROVE  /\ LessLoaded(CollectSnapshot(c, f), CollectSnapshot(d, g))
         /\ MoreMemory(CollectSnapshot(c, f), CollectSnapshot(d, g))
         /\ LessCorrupt(CollectSnapshot(c, f), CollectSnapshot(d, g))
<1>1. PICK s, t : s = CollectSnapshot(c, f) /\ t = CollectSnapshot(d, g)
  OBVIOUS
<1>2. /\ c.temporary \in Nat /\ d.temporary \in Nat /\ c.temporary <= d.temporary
      /\ c.memory \in Nat /\ d.memory \in Nat /\ d.memory <= c.memory
      /\ c.servicing \in Nat /\ d.servicing \in Nat /\ c.servicing <= d.servicing
      /\ c.components \in Nat /\ d.components \in Nat /\ c.components <= d.components
  BY ReadingsAre, AsBadIs
<1>3. LessLoaded(s, t)
  <2>1. /\ (s.temporary.available <=> f # "temporary") /\ (t.temporary.available <=> g # "temporary")
        /\ s.temporary.total = (IF f = "temporary" THEN 0 ELSE c.temporary)
        /\ t.temporary.total = (IF g = "temporary" THEN 0 ELSE d.temporary)
    BY <1>1, SnapshotIs, TemporaryIs
  <2>2. f # "temporary" => g # "temporary"
    BY DEF FailsToo
  <2> QED
    BY <1>2, <2>1, <2>2 DEF LessLoaded
<1>4. MoreMemory(s, t)
  <2>1. /\ (s.memory.available <=> f # "memory") /\ (t.memory.available <=> g # "memory")
        /\ s.memory.free = c.memory /\ t.memory.free = d.memory
    BY <1>1, SnapshotIs, MemoryIs
  <2>2. f # "memory" => g # "memory"
    BY DEF FailsToo
  <2> QED
    BY <1>2, <2>1, <2>2 DEF MoreMemory
<1>5. LessCorrupt(s, t)
  <2>1. /\ (s.integrity.available <=> f # "both-channels") /\ (t.integrity.available <=> g # "both-channels")
        /\ s.integrity.corruption = (IF f \in {"servicing", "both-channels"} THEN 0 ELSE c.servicing)
        /\ s.integrity.component = (IF f \in {"components", "both-channels"} THEN 0 ELSE c.components)
        /\ t.integrity.corruption = (IF g \in {"servicing", "both-channels"} THEN 0 ELSE d.servicing)
        /\ t.integrity.component = (IF g \in {"components", "both-channels"} THEN 0 ELSE d.components)
    BY <1>1, SnapshotIs, IntegrityIs
  <2>2. /\ f # "both-channels" => g # "both-channels"
        /\ f \notin {"servicing", "both-channels"} => g \notin {"servicing", "both-channels"}
        /\ f \notin {"components", "both-channels"} => g \notin {"components", "both-channels"}
    BY DEF FailsToo
  <2>3. /\ s.integrity.corruption \in Nat /\ t.integrity.corruption \in Nat
        /\ s.integrity.component \in Nat /\ t.integrity.component \in Nat
        /\ s.integrity.corruption <= t.integrity.corruption /\ s.integrity.component <= t.integrity.component
    BY <1>2, <2>1, <2>2
  <2> QED
    BY <2>1, <2>2, <2>3 DEF LessCorrupt
<1> QED
  BY <1>1, <1>3, <1>4, <1>5

LEMMA SecurityNoWorse ==
  ASSUME NEW c, NEW d, IsComputer(c), IsComputer(d), AsBad(c, d), c.antivirus = d.antivirus,
         NEW f, NEW g, FailsToo(f, g, d)
  PROVE  BetterGuarded(CollectSnapshot(c, f), CollectSnapshot(d, g))
<1>1. PICK s, t : s = CollectSnapshot(c, f) /\ t = CollectSnapshot(d, g)
  OBVIOUS
<1>2. s.security = CollectSecurity(c, f) /\ t.security = CollectSecurity(d, g)
  BY <1>1, SnapshotIs
<1> SUFFICES ASSUME Unguarded(s) PROVE Unguarded(t) /\ (~s.security.on => ~t.security.on)
  BY <1>1 DEF BetterGuarded
<1>3. f # "security" /\ f # "defender-silent"
  <2>1. f = "defender-silent" => s.security.available /\ s.security.provider = c.antivirus /\ c.antivirus # ""
    BY <1>2, SecurityLacks DEF Unguarded
  <2>2. c.antivirus # "Windows"
    BY ReadingsAre
  <2> QED
    BY <1>2, <2>1, <2>2, SecurityLacks DEF Unguarded
<1>4. g # "security" /\ g # "defender-silent" /\ (f = "status" => g = "status" \/ ~d.protected)
  BY <1>3 DEF FailsToo
<1>5. /\ s.security.age = c.age
      /\ s.security.on <=> (c.protected /\ f # "status")
  <2>1. s.security.age = c.age
    BY <1>2, <1>3, SecurityAnswers
  <2>2. s.security.on <=> (c.protected /\ f # "status")
    BY <1>2, <1>3, SecurityOn, Zenon
  <2> QED
    BY <2>1, <2>2, Zenon
<1>6. /\ t.security.available /\ t.security.provider = "Windows" /\ t.security.age = d.age
      /\ t.security.on <=> (d.protected /\ g # "status")
  <2>1. t.security.available /\ t.security.provider = "Windows" /\ t.security.age = d.age
    BY <1>2, <1>4, SecurityAnswers
  <2>2. t.security.on <=> (d.protected /\ g # "status")
    BY <1>2, <1>4, SecurityOn, Zenon
  <2> QED
    BY <2>1, <2>2, Zenon
<1>7. ~s.security.on => ~t.security.on
  BY <1>4, <1>5, <1>6, AsBadIs
<1>8. s.security.age > 7 => t.security.age > 7
  <2>1. c.age \in Nat /\ d.age \in Nat /\ c.age <= d.age
    BY ReadingsAre, AsBadIs
  <2> QED
    BY <1>5, <1>6, <2>1
<1> QED
  BY <1>6, <1>7, <1>8 DEF Unguarded

LEMMA DisksNoWorse ==
  ASSUME NEW c, NEW d, IsComputer(c), IsComputer(d), AsBad(c, d), NEW f, NEW g, FailsToo(f, g, d)
  PROVE  /\ HealthierDisks(CollectSnapshot(c, f), CollectSnapshot(d, g))
         /\ FewerEvents(CollectSnapshot(c, f), CollectSnapshot(d, g))
<1>1. PICK s, t : s = CollectSnapshot(c, f) /\ t = CollectSnapshot(d, g)
  OBVIOUS
<1>2. /\ (s.disks.available <=> f # "disks") /\ (t.disks.available <=> g # "disks")
      /\ s.disks.disks = SeenDisks(c, f) /\ t.disks.disks = SeenDisks(d, g)
      /\ s.disks.eventsAvailable <=> f \notin {"disks", "ntfs"}
      /\ t.disks.eventsAvailable <=> g \notin {"disks", "ntfs"}
      /\ s.disks.events = (IF f \in {"disks", "ntfs"} THEN 0 ELSE c.ntfs)
      /\ t.disks.events = (IF g \in {"disks", "ntfs"} THEN 0 ELSE d.ntfs)
  BY <1>1, SnapshotIs, DisksAre
<1>3. /\ f # "disks" => g # "disks"
      /\ f \notin {"disks", "ntfs"} => g \notin {"disks", "ntfs"}
      /\ g = "counters" => f = "counters"
  BY DEF FailsToo
<1>4. FewerEvents(s, t)
  <2>1. c.ntfs \in Nat /\ d.ntfs \in Nat /\ c.ntfs <= d.ntfs
    BY ReadingsAre, AsBadIs
  <2> QED
    BY <1>2, <1>3, <2>1 DEF FewerEvents
<1>5. ASSUME NEW x \in s.disks.disks, Ailing(x) PROVE \E y \in t.disks.disks : Ailing(y)
  <2>1. f # "disks" /\ g # "disks"
    BY <1>2, <1>3, <1>5 DEF SeenDisks
  <2>2. /\ \A e \in c.disks : e \in [health : {"Healthy", "Unknown"} \cup Failing, errors : Nat]
        /\ \A e \in d.disks : e \in [health : {"Healthy", "Unknown"} \cup Failing, errors : Nat]
    BY ReadingsAre
  <2>3. CASE f = "counters"
    <3>1. PICK e \in c.disks : x = [e EXCEPT !.errors = -1]
      BY <1>2, <1>5, <2>3 DEF SeenDisks
    <3>2. x.health = e.health /\ x.errors = -1
      BY <2>2, <3>1
    <3>3. e.health \in Failing
      BY <1>5, <3>2 DEF Ailing
    <3>4. PICK y \in d.disks : y.health \in Failing
      BY <3>3, AsBadIs
    <3>5. CASE g = "counters"
      <4>1. [y EXCEPT !.errors = -1] \in t.disks.disks
        BY <1>2, <3>5 DEF SeenDisks
      <4>2. [y EXCEPT !.errors = -1].health = y.health
        BY <2>2
      <4> QED
        BY <3>4, <4>1, <4>2 DEF Ailing
    <3>6. CASE g # "counters"
      BY <1>2, <2>1, <3>4, <3>6 DEF Ailing, SeenDisks
    <3> QED
      BY <3>5, <3>6
  <2>4. CASE f # "counters"
    <3>1. x \in c.disks /\ t.disks.disks = d.disks
      BY <1>2, <1>3, <1>5, <2>1, <2>4 DEF SeenDisks
    <3>2. PICK y \in d.disks : x.errors <= y.errors /\ (x.health \in Failing => y.health \in Failing)
      BY <3>1, AsBadIs
    <3>3. x.errors \in Nat /\ y.errors \in Nat
      BY <2>2, <3>1
    <3>4. Ailing(y)
      BY <1>5, <3>2, <3>3 DEF Ailing
    <3> QED
      BY <3>1, <3>4
  <2> QED
    BY <2>3, <2>4
<1>6. HealthierDisks(s, t)
  BY <1>2, <1>3, <1>5 DEF HealthierDisks
<1> QED
  BY <1>1, <1>4, <1>6

LEMMA CountsAre ==
  ASSUME NEW counts, IsFiniteSet(DOMAIN counts), \A app \in DOMAIN counts : counts[app] \in Nat
  PROVE  /\ AreCounts(GroupFailures(counts))
         /\ \A i \in DOMAIN GroupFailures(counts) : \E app \in DOMAIN counts : GroupFailures(counts)[i] = counts[app]
         /\ \A app \in DOMAIN counts : \E i \in DOMAIN GroupFailures(counts) : GroupFailures(counts)[i] = counts[app]
<1>1. PICK S, apps : S = DOMAIN counts /\ apps = LargestFirst(S, counts)
  OBVIOUS
<1>2. InOrder(apps, S, counts)
  BY <1>1, LargestFirstIs
<1>3. PICK n \in Nat : n = Len(apps) /\ DOMAIN apps = 1..n /\ \A i \in 1..n : apps[i] \in S
  BY <1>2 DEF InOrder
<1>4. PICK q : q = GroupFailures(counts)
  OBVIOUS
<1>5. DOMAIN q = 1..n /\ \A i \in 1..n : q[i] = counts[apps[i]]
  BY <1>1, <1>3, <1>4 DEF GroupFailures
<1>6. \A i \in 1..n : q[i] \in Nat
  BY <1>1, <1>3, <1>5
<1>7. \A i, j \in 1..n : i <= j => q[j] <= q[i]
  BY <1>2, <1>3, <1>5 DEF InOrder
<1>8. AreCounts(q)
  BY <1>5, <1>6, <1>7 DEF AreCounts
<1>9. \A app \in S : \E i \in 1..n : apps[i] = app
  BY <1>2, <1>3 DEF InOrder
<1>10. \A i \in DOMAIN q : \E app \in S : q[i] = counts[app]
  BY <1>3, <1>5
<1>11. \A app \in S : \E i \in DOMAIN q : q[i] = counts[app]
  BY <1>5, <1>9
<1> QED
  BY <1>1, <1>4, <1>8, <1>10, <1>11

StabilitySeen(c, f, r) ==
  /\ r.available <=> f # "failures"
  /\ f = "failures" => r.failures = <<>>
  /\ f # "failures" => r.failures = GroupFailures(c.failures)

LEMMA StabilityIs ==
  ASSUME NEW c, NEW f
  PROVE  StabilitySeen(c, f, CollectStability(c, f))
BY DEF CollectStability, StabilitySeen

LEMMA NoCounts == AreCounts(<<>>)
<1>1. DOMAIN <<>> = 1..0 /\ 0 \in Nat
  OBVIOUS
<1> QED
  BY <1>1 DEF AreCounts

LEMMA FailuresNoWorse ==
  ASSUME NEW c, NEW d, IsComputer(c), IsComputer(d), AsBad(c, d), NEW f, NEW g, FailsToo(f, g, d)
  PROVE  FailsLess(CollectSnapshot(c, f), CollectSnapshot(d, g))
<1>1. PICK s, t : s = CollectSnapshot(c, f) /\ t = CollectSnapshot(d, g)
  OBVIOUS
<1>2. StabilitySeen(c, f, s.stability) /\ StabilitySeen(d, g, t.stability)
  BY <1>1, SnapshotIs, StabilityIs
<1>3. f # "failures" => g # "failures"
  BY DEF FailsToo
<1>4. PICK a, b : a = c.failures /\ b = d.failures
  OBVIOUS
<1>5. /\ IsFiniteSet(DOMAIN a) /\ \A app \in DOMAIN a : a[app] \in Nat
      /\ IsFiniteSet(DOMAIN b) /\ \A app \in DOMAIN b : b[app] \in Nat
      /\ \A app \in DOMAIN a : app \in DOMAIN b /\ a[app] <= b[app]
  BY <1>4, ReadingsAre, AsBadIs
<1>6. /\ AreCounts(GroupFailures(a)) /\ AreCounts(GroupFailures(b))
      /\ \A i \in DOMAIN GroupFailures(a) : \E app \in DOMAIN a : GroupFailures(a)[i] = a[app]
      /\ \A app \in DOMAIN b : \E i \in DOMAIN GroupFailures(b) : GroupFailures(b)[i] = b[app]
  BY <1>5, CountsAre
<1>7. \A i \in DOMAIN GroupFailures(a) : \E j \in DOMAIN GroupFailures(b) :
        GroupFailures(a)[i] <= GroupFailures(b)[j]
  BY <1>5, <1>6
<1>8. AreCounts(s.stability.failures) /\ AreCounts(t.stability.failures)
  BY <1>2, <1>4, <1>6, NoCounts DEF StabilitySeen
<1>9. s.stability.available => t.stability.available
  BY <1>2, <1>3 DEF StabilitySeen
<1>10. \A i \in DOMAIN s.stability.failures : \E j \in DOMAIN t.stability.failures :
         s.stability.failures[i] <= t.stability.failures[j]
  <2>1. CASE f = "failures"
    <3>1. DOMAIN s.stability.failures = {}
      BY <1>2, <2>1 DEF StabilitySeen
    <3> QED
      BY <3>1
  <2>2. CASE f # "failures"
    BY <1>2, <1>3, <1>4, <1>7, <2>2 DEF StabilitySeen
  <2> QED
    BY <2>1, <2>2
<1> QED
  BY <1>1, <1>8, <1>9, <1>10 DEF FailsLess

LEMMA FewIsFinite ==
  ASSUME NEW a, NEW b, NEW c, NEW d, NEW e, NEW f
  PROVE  /\ IsFiniteSet({a, b}) /\ IsFiniteSet({a, b, c})
         /\ IsFiniteSet({a, b, c, d}) /\ IsFiniteSet({a, b, c, d, e}) /\ IsFiniteSet({a, b, c, d, e, f})
<1>1. /\ {a} = {} \cup {a} /\ {a, b} = {a} \cup {b} /\ {a, b, c} = {a, b} \cup {c}
      /\ {a, b, c, d} = {a, b, c} \cup {d} /\ {a, b, c, d, e} = {a, b, c, d} \cup {e}
      /\ {a, b, c, d, e, f} = {a, b, c, d, e} \cup {f}
  OBVIOUS
<1>2. IsFiniteSet({a})
  BY <1>1, FS_EmptySet, FS_AddElement
<1>3. IsFiniteSet({a, b})
  BY <1>1, <1>2, FS_AddElement
<1>4. IsFiniteSet({a, b, c})
  BY <1>1, <1>3, FS_AddElement
<1>5. IsFiniteSet({a, b, c, d})
  BY <1>1, <1>4, FS_AddElement
<1>6. IsFiniteSet({a, b, c, d, e})
  BY <1>1, <1>5, FS_AddElement
<1>7. IsFiniteSet({a, b, c, d, e, f})
  BY <1>1, <1>6, FS_AddElement
<1> QED
  BY <1>3, <1>4, <1>5, <1>6, <1>7

\* What a function makes of a finite set is finite.
LEMMA MadeOfFinite ==
  ASSUME NEW S, IsFiniteSet(S), NEW F, DOMAIN F = S, NEW T, \A y \in T : \E x \in S : y = F[x],
         \A x \in S : F[x] \in T, F = [x \in S |-> F[x]]
  PROVE  IsFiniteSet(T)
<1>1. F \in [S -> T]
  OBVIOUS
<1>2. F \in Surjection(S, T)
  BY <1>1 DEF Surjection
<1> QED
  BY <1>2, FS_Surjection

LEMMA AllAreFinite ==
  ASSUME NEW risk, NEW paths, IsFiniteSet(paths)
  PROVE  IsFiniteSet(All(risk, paths))
<1>1. PICK F : F = [p \in paths |-> [path |-> p, risk |-> risk]]
  OBVIOUS
<1>2. DOMAIN F = paths /\ F = [p \in paths |-> F[p]]
  BY <1>1
<1>3. /\ \A y \in All(risk, paths) : \E p \in paths : y = F[p]
      /\ \A p \in paths : F[p] \in All(risk, paths)
  BY <1>1 DEF All
<1> QED
  BY <1>2, <1>3, MadeOfFinite

LEMMA KnownAreFinite == IsFiniteSet(KnownLocations)
<1>1. IsFiniteSet(OwnRemains) /\ IsFiniteSet(WindowsLocations) /\ IsFiniteSet(DevelopmentCaches)
  <2>1. IsFiniteSet(OwnRemains)
    BY AllAreFinite, FewIsFinite, Zenon DEF OwnRemains
  <2>2. IsFiniteSet(WindowsLocations)
    BY AllAreFinite, FewIsFinite, Zenon DEF WindowsLocations
  <2>3. IsFiniteSet(DevelopmentCaches)
    BY AllAreFinite, FewIsFinite, FS_Union, Zenon DEF DevelopmentCaches
  <2> QED
    BY <2>1, <2>2, <2>3
<1>2. IsFiniteSet(ApplicationCaches) /\ IsFiniteSet(MoreWindowsLocations) /\ IsFiniteSet(CommonApplications)
  <2>1. IsFiniteSet(ApplicationCaches)
    BY AllAreFinite, FewIsFinite, Zenon DEF ApplicationCaches
  <2>2. IsFiniteSet(MoreWindowsLocations)
    BY AllAreFinite, FewIsFinite, FS_Union, Zenon DEF MoreWindowsLocations
  <2>3. IsFiniteSet(CommonApplications)
    BY AllAreFinite, FewIsFinite, FS_Union, Zenon DEF CommonApplications
  <2> QED
    BY <2>1, <2>2, <2>3
<1> QED
  BY <1>1, <1>2, FS_Union DEF KnownLocations

LEMMA LocationsMeasured ==
  ASSUME NEW folders, \A path \in DOMAIN folders : folders[path] \in Nat, NEW deny, NEW complete
  PROVE  Measured(CollectLocations(folders, deny, complete))
<1>1. PICK S : S = {k \in KnownLocations : k.path \in DOMAIN folders /\ ~IsProtected(deny, k.path)}
  OBVIOUS
<1>2. PICK T : T = CollectLocations(folders, deny, complete)
  OBVIOUS
<1>3. PICK F : F = [l \in S |-> [path |-> l.path, risk |-> l.risk,
                                 bytes |-> IF complete THEN folders[l.path] ELSE 0]]
  OBVIOUS
<1>4. DOMAIN F = S /\ F = [l \in S |-> F[l]]
  BY <1>3
<1>5. T = {[path |-> l.path, risk |-> l.risk, bytes |-> IF complete THEN folders[l.path] ELSE 0] : l \in S}
  BY <1>1, <1>2 DEF CollectLocations
<1>6. (\A y \in T : \E l \in S : y = F[l]) /\ \A l \in S : F[l] \in T
  BY <1>3, <1>5
<1>7. IsFiniteSet(S)
  <2>1. S \subseteq KnownLocations
    BY <1>1
  <2> QED
    BY <2>1, KnownAreFinite, FS_Subset
<1>8. \A l \in S : F[l].bytes \in Nat
  <2> TAKE l \in S
  <2>1. F[l].bytes = (IF complete THEN folders[l.path] ELSE 0)
    BY <1>3
  <2>2. folders[l.path] \in Nat
    BY <1>1
  <2> QED
    BY <2>1, <2>2
<1>9. \A y \in T : y.bytes \in Nat
  BY <1>6, <1>8
<1> QED
  BY <1>2, <1>4, <1>6, <1>7, <1>9, MadeOfFinite DEF Measured

LEMMA ProfilesAreFinite == IsFiniteSet(AppProfiles)
BY FewIsFinite, Zenon DEF AppProfiles

ItemsOf(folders, profile) ==
  {[path |-> p, risk |-> ItemRisk(profile, p[Len(p)]), bytes |-> folders[p]]
     : p \in {f \in DOMAIN folders : InProfile(profile, f)}}

LEMMA ItemsMeasured ==
  ASSUME NEW folders, IsFiniteSet(DOMAIN folders), \A path \in DOMAIN folders : folders[path] \in Nat,
         NEW profile
  PROVE  Measured(ItemsOf(folders, profile))
<1>1. PICK S : S = {f \in DOMAIN folders : InProfile(profile, f)}
  OBVIOUS
<1>2. PICK T : T = ItemsOf(folders, profile)
  OBVIOUS
<1>3. PICK F : F = [p \in S |-> [path |-> p, risk |-> ItemRisk(profile, p[Len(p)]), bytes |-> folders[p]]]
  OBVIOUS
<1>4. DOMAIN F = S /\ F = [p \in S |-> F[p]]
  BY <1>3
<1>5. T = {[path |-> p, risk |-> ItemRisk(profile, p[Len(p)]), bytes |-> folders[p]] : p \in S}
  BY <1>1, <1>2 DEF ItemsOf
<1>6. (\A y \in T : \E p \in S : y = F[p]) /\ \A p \in S : F[p] \in T
  BY <1>3, <1>5
<1>7. IsFiniteSet(S)
  BY <1>1, FS_Subset
<1>8. \A p \in S : F[p].bytes \in Nat
  BY <1>1, <1>3
<1>9. \A y \in T : y.bytes \in Nat
  BY <1>6, <1>8
<1> QED
  BY <1>2, <1>4, <1>6, <1>7, <1>9, MadeOfFinite DEF Measured

LEMMA ProfilesMeasured ==
  ASSUME NEW folders, IsFiniteSet(DOMAIN folders), \A path \in DOMAIN folders : folders[path] \in Nat,
         NEW complete
  PROVE  Measured(CollectProfiles(folders, complete))
<1>1. PICK P : P = AppProfiles
  OBVIOUS
<1>2. PICK F : F = [profile \in P |-> ItemsOf(folders, profile)]
  OBVIOUS
<1>3. PICK U : U = {ItemsOf(folders, profile) : profile \in P}
  OBVIOUS
<1>4. DOMAIN F = P /\ F = [profile \in P |-> F[profile]]
  BY <1>2
<1>5. (\A y \in U : \E profile \in P : y = F[profile]) /\ \A profile \in P : F[profile] \in U
  BY <1>2, <1>3
<1>6. IsFiniteSet(U)
  BY <1>1, <1>4, <1>5, ProfilesAreFinite, MadeOfFinite
<1>7. \A T \in U : Measured(T)
  BY <1>3, ItemsMeasured
<1>8. IsFiniteSet(UNION U) /\ \A f \in UNION U : f.bytes \in Nat
  BY <1>6, <1>7, FS_UNION DEF Measured
<1>9. CASE ~complete
  <2>1. CollectProfiles(folders, complete) = {}
    BY <1>9 DEF CollectProfiles
  <2> QED
    BY <2>1, FS_EmptySet DEF Measured
<1>10. CASE complete
  <2>1. CollectProfiles(folders, complete) = UNION U
    BY <1>1, <1>3, <1>10 DEF CollectProfiles, ItemsOf
  <2> QED
    BY <1>8, <2>1 DEF Measured
<1> QED
  BY <1>9, <1>10

\* A computer as bad as another or worse is seen as bad or worse by an analysis that fails alike, or
\* does not fail where the other did.
LEMMA SnapshotsNoWorse ==
  ASSUME NEW c, NEW d, IsComputer(c), IsComputer(d), AsBad(c, d), c.antivirus = d.antivirus,
         NEW f, NEW g, FailsToo(f, g, d)
  PROVE  NoWorse(CollectSnapshot(c, f), CollectSnapshot(d, g))
<1>1. /\ LessPressed(CollectSnapshot(c, f), CollectSnapshot(d, g))
      /\ FewerItems(CollectSnapshot(c, f), CollectSnapshot(d, g))
      /\ FewerMarkers(CollectSnapshot(c, f), CollectSnapshot(d, g))
      /\ LessLoaded(CollectSnapshot(c, f), CollectSnapshot(d, g))
      /\ MoreMemory(CollectSnapshot(c, f), CollectSnapshot(d, g))
      /\ LessCorrupt(CollectSnapshot(c, f), CollectSnapshot(d, g))
  BY VolumesNoWorse, ItemsNoWorse, NumbersNoWorse
<1>2. /\ BetterGuarded(CollectSnapshot(c, f), CollectSnapshot(d, g))
      /\ HealthierDisks(CollectSnapshot(c, f), CollectSnapshot(d, g))
      /\ FewerEvents(CollectSnapshot(c, f), CollectSnapshot(d, g))
      /\ FailsLess(CollectSnapshot(c, f), CollectSnapshot(d, g))
  BY SecurityNoWorse, DisksNoWorse, FailuresNoWorse
<1>3. \A x, h : IsComputer(x) =>
        Measured(CollectSnapshot(x, h).locations) /\ Measured(CollectSnapshot(x, h).profiles)
  <2> TAKE x, h
  <2> HAVE IsComputer(x)
  <2>1. PICK s : s = CollectSnapshot(x, h)
    OBVIOUS
  <2>2. /\ s.locations = CollectLocations(x.folders, BuildProtectedPaths(System, {}), h # "locations")
        /\ s.profiles = CollectProfiles(x.folders, h # "profiles")
    BY <2>1, SnapshotIs
  <2>3. IsFiniteSet(DOMAIN x.folders) /\ \A path \in DOMAIN x.folders : x.folders[path] \in Nat
    BY ReadingsAre
  <2> QED
    BY <2>1, <2>2, <2>3, LocationsMeasured, ProfilesMeasured
<1> QED
  BY <1>1, <1>2, <1>3 DEF NoWorse

Machines == {start.computer : start \in Starts}

LEMMA EveryMachine == \A m \in Machines : IsComputer(m)
BY ComputersAssumption DEF Machines

\* As bad as itself.
LEMMA AsBadAsItself ==
  ASSUME NEW c, IsComputer(c)
  PROVE  AsBad(c, c)
<1> SUFFICES ASSUME NEW area \in Areas \ {"antivirus", "folders"} PROVE GetsWorse(area, c[area], c[area])
  BY DEF AsBad
<1>1. PICK v : v = c[area]
  OBVIOUS
<1>2. IsReading(area, v)
  BY <1>1 DEF IsComputer
<1>3. GetsWorse(area, v, v)
  <2>1. CASE area = "volumes"
    BY <1>2, <2>1 DEF IsReading, GetsWorse
  <2>2. CASE area = "failures"
    BY <1>2, <2>2 DEF IsReading, GetsWorse
  <2>3. CASE area \in {"startup", "markers", "protected"}
    BY <2>3 DEF GetsWorse
  <2>4. CASE area = "disks"
    BY <1>2, <2>4 DEF IsReading, GetsWorse
  <2>5. CASE area \in {"memory", "age", "ntfs", "servicing", "components", "temporary"}
    <3>1. v \in Nat
      BY <1>2, <2>5 DEF IsReading
    <3> QED
      BY <2>5, <3>1 DEF GetsWorse
  <2> QED
    BY <2>1, <2>2, <2>3, <2>4, <2>5 DEF Areas
<1> QED
  BY <1>1, <1>3

LEMMA AStepWorse ==
  ASSUME NEW c, IsComputer(c), NEW area \in Areas \ {"antivirus", "folders"}, NEW v,
         IsReading(area, v), GetsWorse(area, c[area], v), NEW w, w = [c EXCEPT ![area] = v]
  PROVE  IsComputer(w) /\ AsBad(c, w) /\ w.antivirus = c.antivirus
<1>1. area \in Areas \ {"antivirus", "folders"}
  OBVIOUS
<1>2. c = [a \in Areas |-> c[a]] /\ \A a \in Areas : IsReading(a, c[a])
  BY DEF IsComputer
<1>3. DOMAIN c = Areas
  BY <1>2
<1>4. w = [a \in Areas |-> w[a]] /\ w[area] = v /\ \A a \in Areas : a # area => w[a] = c[a]
  BY <1>1, <1>2, <1>3
<1>5. IsComputer(w)
  BY <1>2, <1>4 DEF IsComputer
<1>6. AsBad(c, w)
  BY <1>4, AsBadAsItself DEF AsBad
<1>7. w["antivirus"] = c["antivirus"]
  BY <1>1, <1>4 DEF Areas
<1> QED
  BY <1>5, <1>6, <1>7

LEMMA WorseAre ==
  ASSUME NEW c, IsComputer(c), NEW w \in Worse(c)
  PROVE  IsComputer(w) /\ AsBad(c, w) /\ w.antivirus = c.antivirus
<1>1. PICK area \in DOMAIN Chains :
        w \in {[c EXCEPT ![area] = Chains[area][i + 1]]
                 : i \in {k \in 1..(Len(Chains[area]) - 1) : Chains[area][k] = c[area]}}
  BY DEF Worse
<1>2. PICK i \in 1..(Len(Chains[area]) - 1) :
        Chains[area][i] = c[area] /\ w = [c EXCEPT ![area] = Chains[area][i + 1]]
  BY <1>1
<1>3. IsReading(area, Chains[area][i + 1]) /\ GetsWorse(area, Chains[area][i], Chains[area][i + 1])
  BY ChainsAssumption
<1>4. PICK v : v = Chains[area][i + 1]
  OBVIOUS
<1>5. IsReading(area, v) /\ GetsWorse(area, c[area], v)
  BY <1>2, <1>3, <1>4
<1>6. w = [c EXCEPT ![area] = v]
  BY <1>2, <1>4
<1> QED
  BY <1>5, <1>6, ChainsAssumption, AStepWorse

\* A computer that is as bad in every area and worse in some never scores higher, also when the same
\* reading fails in both analyses, or one fails only in that of the better (core/rules, health_score.cpp).
THEOREM WorseNeverScoresHigher ==
  ASSUME NEW c, NEW d, IsComputer(c), IsComputer(d), AsBad(c, d), c.antivirus = d.antivirus,
         NEW f, NEW g, FailsToo(f, g, d)
  PROVE  Analyse(d, g).overall <= Analyse(c, f).overall
<1>1. PICK s, t : s = CollectSnapshot(c, f) /\ t = CollectSnapshot(d, g)
  OBVIOUS
<1>2. NoWorse(s, t)
  BY <1>1, SnapshotsNoWorse
<1>3. Run(t).overall <= Run(s).overall
  BY <1>2, RunFalls
<1> QED
  BY <1>1, <1>3 DEF Analyse

\* No rule gives a finding without evidence: the check of QuickAnalysis::run (quick_analysis.cpp:66-70)
\* drops none, of any computer, whatever reading fails.
THEOREM NothingIsDropped ==
  ASSUME NEW c, IsComputer(c), NEW f
  PROVE  Analyse(c, f).recommendations = DefaultRules(CollectSnapshot(c, f))
<1>1. PICK s : s = CollectSnapshot(c, f)
  OBVIOUS
<1>2. NoWorse(s, s)
  BY <1>1, AsBadAsItself, SnapshotsNoWorse DEF FailsToo
<1> QED
  BY <1>1, <1>2, RunFalls DEF Analyse

LEMMA SeriousAnalysis ==
  ASSUME NEW c, IsComputer(c), NEW f,
         \E i \in DOMAIN Analyse(c, f).recommendations :
           Analyse(c, f).recommendations[i].counts /\ Analyse(c, f).recommendations[i].severity = "Serious"
  PROVE  Analyse(c, f).overall <= 90
<1>1. PICK s : s = CollectSnapshot(c, f)
  OBVIOUS
<1>2. NoWorse(s, s)
  BY <1>1, AsBadAsItself, SnapshotsNoWorse DEF FailsToo
<1>3. Run(s).recommendations = DefaultRules(s) /\ AreFindings(DefaultRules(s))
  BY <1>2, RunFalls
<1>4. Validated(DefaultRules(s)) = DefaultRules(s)
  BY <1>3, NoneDropped
<1>5. PICK q : q = DefaultRules(s)
  OBVIOUS
<1>6. Analyse(c, f).recommendations = q /\ Analyse(c, f).overall = Overall(q)
  BY <1>1, <1>3, <1>4, <1>5 DEF Analyse, Run
<1>7. Overall(q) <= 90
  BY <1>3, <1>5, <1>6, SeriousShows
<1> QED
  BY <1>6, <1>7

\* What an analysis of m comes to.
OutcomeOf(m) == CHOOSE o \in Outcomes : o.computer = m

LEMMA OutcomeIs ==
  ASSUME NEW m \in Machines
  PROVE  /\ OutcomeOf(m).truth = Analyse(m, "none")
         /\ OutcomeOf(m).silent = Analyse(m, "status")
         /\ OutcomeOf(m).off = Analyse([m EXCEPT !.protected = FALSE], "none")
         /\ \A x \in OutcomeOf(m).seen : \E f \in Faults : x.result = Analyse(m, f)
         /\ \A score \in OutcomeOf(m).worse : \E w \in Worse(m) : score = Analyse(w, "none").overall
<1>1. PICK result : result = [computer |-> m, truth |-> Analyse(m, "none"),
                     silent |-> Analyse(m, "status"), off |-> Analyse([m EXCEPT !.protected = FALSE], "none"),
                     seen  |-> {[failed |-> fault # "none", result |-> Analyse(m, fault)] : fault \in Faults},
                     worse |-> {Analyse(w, "none").overall : w \in Worse(m)}]
  OBVIOUS
<1>2. result \in Outcomes /\ result.computer = m
  BY <1>1 DEF Outcomes, Machines
<1>3. PICK o : o = OutcomeOf(m)
  OBVIOUS
<1>4. o \in Outcomes /\ o.computer = m
  BY <1>2, <1>3 DEF OutcomeOf
<1>5. PICK c : o = [computer |-> c, truth |-> Analyse(c, "none"),
                    silent |-> Analyse(c, "status"), off |-> Analyse([c EXCEPT !.protected = FALSE], "none"),
                    seen  |-> {[failed |-> fault # "none", result |-> Analyse(c, fault)] : fault \in Faults},
                    worse |-> {Analyse(w, "none").overall : w \in Worse(c)}]
  BY <1>4 DEF Outcomes
<1>6. c = m
  BY <1>4, <1>5
<1>7. /\ o.truth = Analyse(m, "none")
      /\ o.silent = Analyse(m, "status")
      /\ o.off = Analyse([m EXCEPT !.protected = FALSE], "none")
      /\ o.seen = {[failed |-> fault # "none", result |-> Analyse(m, fault)] : fault \in Faults}
      /\ o.worse = {Analyse(w, "none").overall : w \in Worse(m)}
  BY <1>5, <1>6
<1>8. \A x \in o.seen : \E f \in Faults : x.result = Analyse(m, f)
  BY <1>7
<1>9. \A score \in o.worse : \E w \in Worse(m) : score = Analyse(w, "none").overall
  BY <1>7
<1> QED
  BY <1>3, <1>7, <1>8, <1>9

\* What the worker hands over is an analysis of this computer in which at most one reading failed.
Analysed ==
  /\ machine \in Machines
  /\ phase = "delivered" => \E f \in Faults : delivered = Analyse(machine, f)

\* The worker's result is of the computer it ran on, in every interleaving (MainWindow::start_analysis).
THEOREM ResultIsOfTheMachine == Spec => []Analysed
<1>1. Init => Analysed
  BY DEF Init, StoreInit, Analysed, Machines
<1>2. Analysed /\ [Next]_vars => Analysed'
  <2> SUFFICES ASSUME Analysed, [Next]_vars PROVE Analysed'
    OBVIOUS
  <2>1. machine' = machine
    BY
    DEF Next, Store, End, Analysis, StartAnalysis, CollectAndRun, RunKeyVanishes, Deliver,
        Finish, SelectRow,
           CloseWindow, Start, vars
  <2>2. CASE CollectAndRun
    <3>1. PICK m : m = machine
      OBVIOUS
    <3>2. Outcome = OutcomeOf(m)
      BY <3>1 DEF Outcome, OutcomeOf
    <3>3. PICK seen \in OutcomeOf(m).seen : delivered' = seen.result
      BY <2>2, <3>2 DEF CollectAndRun
    <3>4. PICK f \in Faults : seen.result = Analyse(m, f)
      BY <3>1, <3>3, OutcomeIs DEF Analysed
    <3>5. delivered' = Analyse(machine', f)
      BY <2>1, <3>1, <3>3, <3>4
    <3> QED
      BY <2>1, <3>5 DEF Analysed
  <2>3. CASE SelectRow \/ UNCHANGED vars
    <3>1. phase' = phase /\ delivered' = delivered
      BY <2>3 DEF SelectRow, vars, windowVars
    <3> QED
      BY <2>1, <3>1 DEF Analysed
  <2>4. CASE Next /\ ~CollectAndRun /\ ~SelectRow
    <3>1. phase' # "delivered"
      <4>1. CASE Store
        BY <4>1
        DEF Store, AdoptPreviousDataDirectory, InitializeLogging, WriteSession,
            ReplaceAtomically,
                    ApplyRetention, RemoveOld, ListUnreadable, QuarantineUnreadable
      <4>2. CASE End
        BY <4>2 DEF End, Kill, LosePower, Closed
      <4>3. CASE Analysis
        BY <2>4, <4>3 DEF Analysis, StartAnalysis, RunKeyVanishes, Deliver, Finish
      <4>4. CASE CloseWindow \/ Start
        BY <4>4 DEF CloseWindow, Start
      <4> QED
        BY <2>4, <4>1, <4>2, <4>3, <4>4 DEF Next
    <3> QED
      BY <2>1, <3>1 DEF Analysed
  <2> QED
    BY <2>2, <2>3, <2>4
<1> QED
  BY <1>1, <1>2, PTL DEF Spec

LEMMA OffIsAsBad ==
  ASSUME NEW c, IsComputer(c)
  PROVE  LET d == [c EXCEPT !.protected = FALSE]
         IN  IsComputer(d) /\ AsBad(c, d) /\ d.antivirus = c.antivirus /\ ~d.protected
<1>1. PICK v : v = FALSE
  OBVIOUS
<1>2. PICK area : area = "protected"
  OBVIOUS
<1>3. area \in Areas \ {"antivirus", "folders"}
  BY <1>2 DEF Areas
<1>4. IsReading(area, v) /\ GetsWorse(area, c[area], v)
  BY <1>1, <1>2, Zenon DEF IsReading, GetsWorse
<1>5. PICK w : w = [c EXCEPT ![area] = v]
  OBVIOUS
<1>6. IsComputer(w) /\ AsBad(c, w) /\ w.antivirus = c.antivirus
  BY <1>3, <1>4, <1>5, AStepWorse
<1>7. w = [c EXCEPT !.protected = FALSE]
  BY <1>1, <1>2, <1>5
<1>8. w["protected"] = FALSE
  BY <1>1, <1>2, <1>3, <1>5 DEF IsComputer
<1> QED
  BY <1>6, <1>7, <1>8

\* No reading that fails takes from the score what the true one would have left, but the status that
\* Defender leaves out, which takes no more than its being off, whatever the computer (collectors/,
\* core/rules, health_score.cpp).
THEOREM FaultsNeverCount == Spec => []FaultsNeverAccuse
<1>1. Analysed => FaultsNeverAccuse
  <2> SUFFICES ASSUME Analysed, phase = "delivered"
               PROVE  delivered.overall >= (IF delivered = Outcome.silent THEN Outcome.off ELSE Outcome.truth).overall
    BY DEF FaultsNeverAccuse
  <2>1. PICK m : m = machine
    OBVIOUS
  <2>2. m \in Machines /\ IsComputer(m)
    BY <2>1, EveryMachine DEF Analysed
  <2>3. Outcome = OutcomeOf(m)
    BY <2>1 DEF Outcome, OutcomeOf
  <2>4. PICK f \in Faults : delivered = Analyse(m, f)
    BY <2>1 DEF Analysed
  <2>5. PICK d : d = [m EXCEPT !.protected = FALSE]
    OBVIOUS
  <2>6. /\ Outcome.truth = Analyse(m, "none")
        /\ Outcome.silent = Analyse(m, "status")
        /\ Outcome.off = Analyse(d, "none")
    BY <2>2, <2>3, <2>5, OutcomeIs
  <2>7. Analyse(d, "none").overall <= Analyse(m, f).overall
    <3>1. FailsToo(f, "none", d)
      BY <2>2, <2>5, OffIsAsBad DEF FailsToo
    <3> QED
      BY <2>2, <2>5, <3>1, OffIsAsBad, WorseNeverScoresHigher
  <2>8. ASSUME f # "status" PROVE Analyse(m, "none").overall <= Analyse(m, f).overall
    <3>1. FailsToo(f, "none", m)
      BY <2>8 DEF FailsToo
    <3> QED
      BY <2>2, <3>1, AsBadAsItself, WorseNeverScoresHigher
  <2>9. CASE delivered = Outcome.silent
    BY <2>4, <2>6, <2>7, <2>9
  <2>10. CASE delivered # Outcome.silent
    BY <2>4, <2>6, <2>8, <2>10
  <2> QED
    BY <2>9, <2>10
<1> QED
  BY <1>1, ResultIsOfTheMachine, PTL

\* A computer that is worse in an area and the same in the others never scores higher, and one serious
\* finding keeps the score at 90 or less, whatever the computer (core/rules, health_score.cpp:47-54).
THEOREM ScoreTells == Spec => []ScoreFollowsHealth
<1>1. Analysed => ScoreFollowsHealth
  <2> SUFFICES ASSUME Analysed, phase = "delivered"
               PROVE  /\ \A score \in Outcome.worse : score <= Outcome.truth.overall
                      /\ (\E i \in DOMAIN delivered.recommendations :
                            delivered.recommendations[i].counts /\ delivered.recommendations[i].severity = "Serious")
                           => delivered.overall <= 90
    BY DEF ScoreFollowsHealth
  <2>1. PICK m : m = machine
    OBVIOUS
  <2>2. m \in Machines /\ IsComputer(m)
    BY <2>1, EveryMachine DEF Analysed
  <2>3. Outcome = OutcomeOf(m)
    BY <2>1 DEF Outcome, OutcomeOf
  <2>4. PICK f \in Faults : delivered = Analyse(m, f)
    BY <2>1 DEF Analysed
  <2>5. ASSUME NEW score \in Outcome.worse PROVE score <= Outcome.truth.overall
    <3>1. PICK w \in Worse(m) : score = Analyse(w, "none").overall
      BY <2>2, <2>3, <2>5, OutcomeIs
    <3>2. Analyse(w, "none").overall <= Analyse(m, "none").overall
      BY <2>2, <3>1, WorseAre, WorseNeverScoresHigher DEF FailsToo
    <3>3. Outcome.truth = Analyse(m, "none")
      BY <2>2, <2>3, OutcomeIs
    <3> QED
      BY <3>1, <3>2, <3>3
  <2>6. ASSUME \E i \in DOMAIN delivered.recommendations :
                 delivered.recommendations[i].counts /\ delivered.recommendations[i].severity = "Serious"
        PROVE  delivered.overall <= 90
    BY <2>2, <2>4, <2>6, SeriousAnalysis
  <2> QED
    BY <2>5, <2>6
<1> QED
  BY <1>1, ResultIsOfTheMachine, PTL

-----------------------------------------------------------------------------
(* The button. *)

\* A finding about the items that start with Windows names some and is the program's to act on.
NamesSome(f) == f.rule = "too-many-items" => f.risk = "Yellow" /\ f.paths # {}

AllName(q) == \E S : q \in Seq(S) /\ \A f \in S : NamesSome(f)

LEMMA TheyName ==
  ASSUME NEW q, NEW S, q \in Seq(S), \A f \in S : NamesSome(f)
  PROVE  AllName(q)
BY DEF AllName

LEMMA AllNameJoined ==
  ASSUME NEW a, NEW b, AllName(a), AllName(b)
  PROVE  AllName(a \o b)
<1>1. PICK S : a \in Seq(S) /\ \A f \in S : NamesSome(f)
  BY DEF AllName
<1>2. PICK T : b \in Seq(T) /\ \A f \in T : NamesSome(f)
  BY DEF AllName
<1>3. a \o b \in Seq(S \cup T) /\ \A f \in S \cup T : NamesSome(f)
  BY <1>1, <1>2
<1> QED
  BY <1>3 DEF AllName

LEMMA WhenNames ==
  ASSUME NEW p, NEW f, p => NamesSome(f)
  PROVE  AllName(When(p, f))
<1>1. CASE p
  <2>1. <<f>> \in Seq({f}) /\ When(p, f) = <<f>>
    BY <1>1 DEF When
  <2>2. \A x \in {f} : NamesSome(x)
    BY <1>1
  <2>3. PICK S, q : S = {f} /\ q = <<f>>
    OBVIOUS
  <2>4. q \in Seq(S) /\ \A x \in S : NamesSome(x)
    BY <2>1, <2>2, <2>3
  <2>5. AllName(q)
    BY <2>4, TheyName
  <2> QED
    BY <2>1, <2>3, <2>5
<1>2. CASE ~p
  <2>1. <<>> \in Seq({}) /\ When(p, f) = <<>>
    BY <1>2 DEF When
  <2>2. PICK S, q : S = {} /\ q = <<>>
    OBVIOUS
  <2>3. q \in Seq(S) /\ \A x \in S : NamesSome(x)
    BY <2>1, <2>2
  <2>4. AllName(q)
    BY <2>3, TheyName
  <2> QED
    BY <2>1, <2>2, <2>4
<1> QED
  BY <1>1, <1>2

\* A finding of another rule, whatever is added to it.
LEMMA AnotherRule ==
  ASSUME NEW rule, rule # "too-many-items", NEW c, NEW s, NEW x
  PROVE  /\ NamesSome(Finding(rule, c, s))
         /\ NamesSome([Finding(rule, c, s) EXCEPT !.reclaimable = x])
         /\ NamesSome([Finding(rule, c, s) EXCEPT !.evidence = x])
BY DEF NamesSome, Finding

LEMMA OpportunityNames ==
  ASSUME NEW rule, rule # "too-many-items", NEW found, NEW n
  PROVE  NamesSome(Opportunity(rule, found, n))
BY DEF NamesSome, Finding, Opportunity

LEMMA OpportunitiesName ==
  ASSUME NEW q, NEW n \in Nat, q = [i \in 1..n |-> q[i]], \A i \in 1..n : NamesSome(q[i])
  PROVE  AllName(q)
<1>1. q \in Seq({q[i] : i \in 1..n})
  <2>1. PICK R : R = {q[i] : i \in 1..n}
    OBVIOUS
  <2>2. \A i \in 1..n : q[i] \in R
    BY <2>1
  <2>3. q \in Seq(R)
    BY <2>2, IsASeq
  <2> QED
    BY <2>1, <2>3
<1>2. \A f \in {q[i] : i \in 1..n} : NamesSome(f)
  OBVIOUS
<1> QED
  BY <1>1, <1>2, TheyName

LEMMA LocationsName ==
  ASSUME NEW s, Measured(s.locations)
  PROVE  AllName(ReclaimableSpace(s))
<1>1. PICK m : m = IF SystemVolumeIsTight(s) THEN 100 ELSE 500
  OBVIOUS
<1>2. PICK large : large = {l \in s.locations : l.bytes >= m}
  OBVIOUS
<1>3. PICK r : r = LargestFirst(large, [l \in large |-> l.bytes])
  OBVIOUS
<1>4. PICK n \in Nat : DOMAIN r = 1..n
  <2>1. large \subseteq s.locations
    BY <1>2
  <2> QED
    BY <1>3, <2>1, LargeInOrder
<1>5. PICK q : q = ReclaimableSpace(s)
  OBVIOUS
<1>6. q = [i \in 1..n |-> Opportunity("reclaimable-location", r[i], r[i].bytes)]
  BY <1>1, <1>2, <1>3, <1>4, <1>5 DEF ReclaimableSpace
<1>7. q = [i \in 1..n |-> q[i]] /\ \A i \in 1..n : q[i] = Opportunity("reclaimable-location", r[i], r[i].bytes)
  BY <1>6
<1>8. \A i \in 1..n : NamesSome(q[i])
  BY <1>7, OpportunityNames
<1> QED
  BY <1>5, <1>7, <1>8, OpportunitiesName

LEMMA ProfilesName ==
  ASSUME NEW s, Measured(s.profiles)
  PROVE  AllName(AppProfile(s))
<1>1. PICK large : large = {l \in s.profiles : l.bytes >= 20}
  OBVIOUS
<1>2. PICK r : r = LargestFirst(large, [l \in large |-> l.bytes])
  OBVIOUS
<1>3. PICK n \in Nat : DOMAIN r = 1..n
  <2>1. large \subseteq s.profiles
    BY <1>1
  <2> QED
    BY <1>2, <2>1, LargeInOrder
<1>4. PICK q : q = AppProfile(s)
  OBVIOUS
<1>5. q = [i \in 1..n |->
             Opportunity("profile-item", r[i], IF r[i].risk = "Green" THEN r[i].bytes ELSE 0)]
  BY <1>1, <1>2, <1>3, <1>4 DEF AppProfile
<1>6. /\ q = [i \in 1..n |-> q[i]]
      /\ \A i \in 1..n : q[i] = Opportunity("profile-item", r[i], IF r[i].risk = "Green" THEN r[i].bytes ELSE 0)
  BY <1>5
<1>7. \A i \in 1..n : NamesSome(q[i])
  BY <1>6, OpportunityNames
<1> QED
  BY <1>4, <1>6, <1>7, OpportunitiesName

LEMMA StartupNames ==
  ASSUME NEW s, IsFiniteSet(s.startup)
  PROVE  AllName(TooManyStartupItems(s))
<1>1. PICK A : A = {i \in s.startup : ~i.essential}
  OBVIOUS
<1>2. PICK p : p = (Cardinality(A) > 5)
  OBVIOUS
<1>3. PICK f : f = [Finding("too-many-items", "Startup", Severe(Cardinality(A) >= 15))
                      EXCEPT !.risk = "Yellow", !.paths = {<<i.name>> : i \in A}]
  OBVIOUS
<1>4. TooManyStartupItems(s) = When(p, f)
  BY <1>1, <1>2, <1>3 DEF TooManyStartupItems
<1>5. f.risk = "Yellow" /\ f.paths = {<<i.name>> : i \in A}
  BY <1>3 DEF Finding
<1>6. p => A # {}
  <2>1. Cardinality({}) = 0 /\ ~(0 > 5)
    BY FS_EmptySet
  <2> QED
    BY <1>2, <2>1, Zenon
<1>7. p => NamesSome(f)
  BY <1>5, <1>6 DEF NamesSome
<1> QED
  BY <1>4, <1>7, WhenNames

LEMMA RulesName ==
  ASSUME NEW s, NoWorse(s, s)
  PROVE  AllName(DefaultRules(s))
<1>1. /\ AllName(LowFreeSpace(s)) /\ AllName(ExcessiveTemporaryFiles(s))
      /\ AllName(TooManyStartupItems(s)) /\ AllName(RecurringAppFailures(s))
      /\ AllName(PendingReboot(s)) /\ AllName(LowMemory(s)) /\ AllName(WeakProtection(s))
      /\ AllName(DiskHealth(s)) /\ AllName(WindowsIntegrity(s)) /\ AllName(FilesystemCorruption(s))
  <2>1. AllName(LowFreeSpace(s))
    BY AnotherRule, WhenNames DEF LowFreeSpace
  <2>2. AllName(ExcessiveTemporaryFiles(s))
    <3>1. PICK total, severity : /\ total = s.temporary.total
                                 /\ severity = IF total >= 10240 THEN "Attention" ELSE "Info"
      OBVIOUS
    <3>2. PICK p : p = (s.temporary.available /\ total >= (IF SystemVolumeIsTight(s) THEN 100 ELSE 1024))
      OBVIOUS
    <3>3. PICK f : f = [Finding("excessive-temporary-files", "Storage", severity) EXCEPT !.reclaimable = total]
      OBVIOUS
    <3>4. ExcessiveTemporaryFiles(s) = When(p, f)
      BY <3>1, <3>2, <3>3 DEF ExcessiveTemporaryFiles
    <3>5. NamesSome(f)
      BY <3>3, AnotherRule
    <3> QED
      BY <3>4, <3>5, WhenNames
  <2>3. AllName(TooManyStartupItems(s))
    BY StartupNames DEF NoWorse, FewerItems
  <2>4. AllName(RecurringAppFailures(s))
    BY AnotherRule, WhenNames DEF RecurringAppFailures
  <2>5. AllName(PendingReboot(s))
    BY AnotherRule, WhenNames DEF PendingReboot
  <2>6. AllName(LowMemory(s))
    BY AnotherRule, WhenNames DEF LowMemory
  <2>7. AllName(WeakProtection(s))
    BY AnotherRule, WhenNames DEF WeakProtection
  <2>8. AllName(DiskHealth(s))
    BY AnotherRule, WhenNames DEF DiskHealth
  <2>9. AllName(WindowsIntegrity(s))
    BY AnotherRule, WhenNames DEF WindowsIntegrity
  <2>10. AllName(FilesystemCorruption(s))
    BY AnotherRule, WhenNames DEF FilesystemCorruption
  <2> QED
    BY <2>1, <2>2, <2>3, <2>4, <2>5, <2>6, <2>7, <2>8, <2>9, <2>10
<1>2. AllName(ReclaimableSpace(s)) /\ AllName(AppProfile(s))
  BY LocationsName, ProfilesName DEF NoWorse
<1> DEFINE Two   == LowFreeSpace(s) \o ExcessiveTemporaryFiles(s)
           Four  == Two \o TooManyStartupItems(s) \o RecurringAppFailures(s)
           Six   == Four \o PendingReboot(s) \o LowMemory(s)
           Eight == Six \o WeakProtection(s) \o DiskHealth(s)
           Ten   == Eight \o WindowsIntegrity(s) \o FilesystemCorruption(s)
<1>3. AllName(Two)
  BY <1>1, AllNameJoined
<1> HIDE DEF Two
<1>4. AllName(Four)
  BY <1>1, <1>3, AllNameJoined
<1> HIDE DEF Four
<1>5. AllName(Six)
  BY <1>1, <1>4, AllNameJoined
<1> HIDE DEF Six
<1>6. AllName(Eight)
  BY <1>1, <1>5, AllNameJoined
<1> HIDE DEF Eight
<1>7. AllName(Ten)
  BY <1>1, <1>6, AllNameJoined
<1> HIDE DEF Ten
<1>8. AllName(Ten \o ReclaimableSpace(s) \o AppProfile(s))
  BY <1>2, <1>7, AllNameJoined
<1>9. DefaultRules(s) = Ten \o ReclaimableSpace(s) \o AppProfile(s)
  BY DEF DefaultRules, Two, Four, Six, Eight, Ten
<1> QED
  BY <1>8, <1>9

\* A result whose findings about those items name some.
Nameable(result) ==
  \A i \in DOMAIN result.recommendations : NamesSome(result.recommendations[i])

LEMMA AnalysisNames ==
  ASSUME NEW c, IsComputer(c), NEW f
  PROVE  Nameable(Analyse(c, f))
<1>1. PICK s : s = CollectSnapshot(c, f)
  OBVIOUS
<1>2. NoWorse(s, s)
  BY <1>1, AsBadAsItself, SnapshotsNoWorse DEF FailsToo
<1>3. Run(s).recommendations = DefaultRules(s)
  BY <1>2, RunFalls
<1>4. PICK q : q = DefaultRules(s)
  OBVIOUS
<1>5. AllName(q)
  BY <1>2, <1>4, RulesName
<1>6. \A i \in DOMAIN q : NamesSome(q[i])
  BY <1>5 DEF AllName
<1>7. Analyse(c, f).recommendations = q
  BY <1>1, <1>3, <1>4 DEF Analyse
<1> QED
  BY <1>6, <1>7 DEF Nameable

UnderTheRow(result, r) == {result.recommendations[i] : i \in {r} \cap DOMAIN result.recommendations}

\* The window shows one result, and the button what is under its current row.
Shown ==
  /\ Nameable(result_)
  /\ phase = "delivered" => Nameable(delivered)
  /\ details = UnderTheRow(result_, row)
  /\ details = {} => button = Hidden
  /\ \A f \in details : details = {f} /\ button = ButtonOf(f)

LEMMA ShowShows ==
  ASSUME NEW result, NEW r, Show(result, r)
  PROVE  /\ row' = r /\ details' = UnderTheRow(result, r)
         /\ details' = {} => button' = Hidden
         /\ \A f \in details' : details' = {f} /\ button' = ButtonOf(f)
<1>1. PICK selected : selected = IF r \in DOMAIN result.recommendations THEN {result.recommendations[r]} ELSE {}
  OBVIOUS
<1>2. /\ row' = r /\ details' = selected
      /\ button' = IF selected = {} THEN Hidden ELSE ButtonOf(CHOOSE f \in selected : TRUE)
  BY <1>1 DEF Show
<1>3. \A f \in selected : selected = {f} /\ (CHOOSE g \in selected : TRUE) = f
  BY <1>1
<1>4. \A x : x \in selected <=> x \in UnderTheRow(result, r)
  BY <1>1 DEF UnderTheRow
<1>5. selected = UnderTheRow(result, r)
  BY <1>4
<1> QED
  BY <1>2, <1>3, <1>5

LEMMA BlankShows ==
  ASSUME Blank
  PROVE  /\ Nameable(result_') /\ details' = UnderTheRow(result_', row')
         /\ details' = {} /\ button' = Hidden
<1>1. /\ result_' = NoResult /\ row' = 0 /\ details' = {} /\ button' = Hidden
  BY DEF Blank
<1>2. NoResult.recommendations = <<>> /\ DOMAIN <<>> = {}
  BY DEF NoResult
<1> QED
  BY <1>1, <1>2 DEF Nameable, UnderTheRow

\* The window always shows one result, with the button of its current row (MainWindow::show_result).
THEOREM ShownInductive == Spec => []Shown
<1>1. Init => Shown
  <2> SUFFICES ASSUME Init PROVE Shown
    OBVIOUS
  <2>1. /\ result_ = NoResult /\ delivered = NoResult /\ row = 0 /\ details = {} /\ button = Hidden
    BY DEF Init
  <2>2. NoResult.recommendations = <<>> /\ DOMAIN <<>> = {}
    BY DEF NoResult
  <2> QED
    BY <2>1, <2>2 DEF Shown, Nameable, UnderTheRow
<1>2. Analysed /\ Analysed' /\ Shown /\ [Next]_vars => Shown'
  <2> SUFFICES ASSUME Analysed, Analysed', Shown, [Next]_vars PROVE Shown'
    OBVIOUS
  <2>1. phase' = "delivered" => Nameable(delivered')
    <3>1. PICK m : m = machine'
      OBVIOUS
    <3>2. m \in Machines /\ (phase' = "delivered" => \E f \in Faults : delivered' = Analyse(m, f))
      BY <3>1 DEF Analysed
    <3> QED
      BY <3>2, EveryMachine, AnalysisNames
  <2>2. CASE Deliver
    <3>1. result_' = delivered /\ phase = "delivered"
      BY <2>2 DEF Deliver
    <3>2. Nameable(result_')
      BY <3>1 DEF Shown
    <3>3. PICK result, r : result = delivered /\ Show(result, r)
      BY <2>2 DEF Deliver, ShowResult
    <3>4. /\ row' = r /\ details' = UnderTheRow(result, r)
          /\ details' = {} => button' = Hidden
          /\ \A f \in details' : details' = {f} /\ button' = ButtonOf(f)
      BY <3>3, ShowShows
    <3> QED
      BY <2>1, <3>1, <3>2, <3>3, <3>4 DEF Shown
  <2>3. CASE SelectRow
    <3>1. result_' = result_
      BY <2>3 DEF SelectRow
    <3>2. PICK result, r : result = result_ /\ Show(result, r)
      BY <2>3 DEF SelectRow
    <3>3. /\ row' = r /\ details' = UnderTheRow(result, r)
          /\ details' = {} => button' = Hidden
          /\ \A f \in details' : details' = {f} /\ button' = ButtonOf(f)
      BY <3>2, ShowShows
    <3> QED
      BY <2>1, <3>1, <3>2, <3>3 DEF Shown
  <2>4. CASE End \/ CloseWindow
    <3>1. Blank
      BY <2>4 DEF End, CloseWindow
    <3> QED
      BY <2>1, <3>1, BlankShows DEF Shown
  <2>5. CASE Store \/ Start \/ StartAnalysis \/ RunKeyVanishes \/ Finish \/ CollectAndRun \/ UNCHANGED vars
    <3>1. UNCHANGED <<result_, row, details, button>>
      BY <2>5
      DEF Store, Start, StartAnalysis, RunKeyVanishes, Finish, CollectAndRun, vars, windowVars
    <3> QED
      BY <2>1, <3>1 DEF Shown
  <2> QED
    BY <2>2, <2>3, <2>4, <2>5 DEF Next, Analysis
<1> QED
  BY <1>1, <1>2, ResultIsOfTheMachine, PTL DEF Spec

\* Through new results, re-selections and restarts, the details and the button are of the finding under
\* the current row, and the program may act on it (main_window.cpp:1611-1649): what
\* ButtonSparesWhatIsYours asks before it compares the catalogs.
THEOREM ButtonFollows == Spec => []ButtonOnTheRow
<1>1. Shown => ButtonOnTheRow
  <2> SUFFICES ASSUME Shown
               PROVE  /\ details = UnderTheRow(result_, row)
                      /\ button.text # "hidden" =>
                           /\ button.finding = details
                           /\ \A f \in details : AppMayExecute(f) /\ f.paths # {}
    BY DEF ButtonOnTheRow, UnderTheRow
  <2> SUFFICES ASSUME button.text # "hidden"
               PROVE  button.finding = details /\ \A f \in details : AppMayExecute(f) /\ f.paths # {}
    BY DEF Shown
  <2>1. PICK f : f \in details
    BY DEF Shown, Hidden
  <2>2. details = {f} /\ button = ButtonOf(f)
    BY <2>1 DEF Shown
  <2>3. button = [text |-> "startup", finding |-> {f}] \/ button = [text |-> "clean", finding |-> {f}]
    BY <2>2 DEF ButtonOf, Hidden
  <2>4. f.rule = "too-many-items" \/ Cleanable(f)
    BY <2>2 DEF ButtonOf, Hidden
  <2>5. NamesSome(f)
    BY <2>1 DEF Shown, UnderTheRow, Nameable
  <2>6. AppMayExecute(f) /\ f.paths # {}
    BY <2>4, <2>5 DEF NamesSome, Cleanable, AppMayExecute
  <2> QED
    BY <2>2, <2>3, <2>6
<1> QED
  BY <1>1, ShownInductive, PTL
===============================================================================
