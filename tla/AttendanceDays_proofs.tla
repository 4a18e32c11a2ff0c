----------------------- MODULE AttendanceDays_proofs -----------------------
(***************************************************************************)
(* What holds of AttendanceDays for any calendar, any number of workers     *)
(* and any number of changes.                                               *)
(***************************************************************************)
EXTENDS AttendanceDays, TLAPS

\* What a computation and an open change know about the state.
RunSound ==
    \A w \in Workers :
       /\ run[w].new \subseteq run[w].days
       /\ run[w].skip \subseteq manual
       /\ run[w].force => run[w].skip = {}
       /\ run[w].seen.leave = "revoked" => src.leave = "revoked"

ChangeSound ==
    /\ change.kind \in ExemptionKinds => change.ends = src.exempt
    /\ change.kind = "revokeExemption" => change.days = src.exempt
    /\ change.kind = "revertExemption" => change.days = {}
    /\ change.kind = "dropHoliday" => change.ends \subseteq change.days
    /\ change.kind = "approve" => change.days = LeaveDays /\ src.leave = "pending"
    /\ change.kind = "revoke" => change.days = LeaveDays /\ src.leave = "applied"

\* The job of an open change waits, or was taken too early.
JobSent ==
    change # NoChange =>
       \A d \in change.days : Awaited(d) \/ d \in early

\* A computation that will overwrite the day has still to write.
Covered(d) ==
    \/ Awaited(d)
    \/ \E w \in Workers : d \in run[w].days /\ run[w].force

\* The claim about one day, at any moment.
DayOK(d) ==
    /\ row[d] # "none"
    /\ d \notin human /\ d \notin missed /\ FlagStands(d)
    => row[d] = Compute(src, d) \/ Covered(d)

DaysOK == \A d \in Days : DayOK(d)

Inv == TypeOK /\ RunSound /\ ChangeSound /\ JobSent /\ DaysOK

LEMMA ComputeTyped ==
    ASSUME NEW s, NEW d
    PROVE  Compute(s, d) \in Statuses
  BY DEF Compute, Statuses

\* The rules read a day's own marks only.
LEMMA ComputeLocal ==
    ASSUME NEW s \in Sources, NEW t \in Sources, NEW d \in Days,
           d \in OnLeave(s) <=> d \in OnLeave(t),
           d \in s.holiday <=> d \in t.holiday,
           d \in s.exempt <=> d \in t.exempt,
           d \in s.punched <=> d \in t.punched
    PROVE  Compute(s, d) = Compute(t, d)
  BY DEF Compute

LEMMA ComputeOnLeave ==
    ASSUME NEW s, NEW d \in LeaveDays, s.leave = "applied"
    PROVE  Compute(s, d) = "leave"
  BY DEF Compute, OnLeave

\* A punch changes nothing but the punches.
LEMMA PunchTyped ==
    ASSUME NEW s \in Sources, NEW new \in SUBSET Days
    PROVE  LET now == [s EXCEPT !.punched = @ \cup new] IN
           /\ now \in Sources
           /\ now.holiday = s.holiday /\ now.exempt = s.exempt /\ now.leave = s.leave
           /\ now.punched = s.punched \cup new
  BY DEF Sources

LEMMA InitInv == Init => Inv
<1> SUFFICES ASSUME Init PROVE Inv
  OBVIOUS
<1>1. Nothing \in Sources /\ Idle \in Computation
  BY DEF Nothing, Sources, Idle, Computation
<1>2. TypeOK
  BY <1>1, AttendanceAssumption DEF Init, TypeOK
<1>3. RunSound /\ ChangeSound /\ JobSent
  BY DEF Init, RunSound, Idle, Nothing, ChangeSound, NoChange, JobSent
<1>4. DaysOK
  BY DEF Init, DaysOK, DayOK
<1> QED  BY <1>2, <1>3, <1>4 DEF Inv

-----------------------------------------------------------------------------
\* What the start of a computation leaves behind.
Begun(w, days, force, new) ==
    /\ run' \in [Workers -> Computation]
    /\ run[w].days = {}
    /\ run'[w].days = days /\ run'[w].force = force /\ run'[w].new = new
    /\ run'[w].skip = IF force THEN {} ELSE days \cap manual
    /\ run'[w].seen.leave = src.leave
    /\ \A v \in Workers : v # w => run'[v] = run[v]

\* Start writes the worker it names, from the sources as they are committed.
LEMMA Started ==
    ASSUME TypeOK, RunSound, NEW w \in Workers, NEW days \in SUBSET Days,
           NEW force \in BOOLEAN, NEW new \in SUBSET days,
           Start(w, days, force, new)
    PROVE  Begun(w, days, force, new)
<1> DEFINE now == [src EXCEPT !.punched = @ \cup new]
           skip == IF force THEN {} ELSE days \cap manual
           r == [days |-> days, force |-> force, new |-> new, seen |-> now, skip |-> skip]
<1>1. now \in Sources /\ now.leave = src.leave
  BY PunchTyped DEF TypeOK
<1>2. skip \subseteq Days
  OBVIOUS
<1> HIDE DEF now, skip
<1>3. r \in Computation
  BY <1>1, <1>2 DEF Computation
<1>4. run' = [run EXCEPT ![w] = r]
  BY DEF Start, now, skip
<1>5. run[w].days = {}
  BY DEF Start
<1> QED
  BY <1>1, <1>3, <1>4, <1>5 DEF TypeOK, skip, Begun

\* An idle worker starts a computation and nothing else happens to the rows:
\* every part of the invariant is kept.  taken: the jobs that leave the queue.
LEMMA StartKeeps ==
    ASSUME Inv, NEW w \in Workers, NEW days \in SUBSET Days,
           NEW force \in BOOLEAN, NEW new \in SUBSET days,
           Start(w, days, force, new),
           UNCHANGED <<src, row, manual, human, change, changes, missed>>,
           \/ UNCHANGED <<queue, early>>
           \/ /\ force
              /\ queue' = queue \ {days}
              /\ early' = IF change = NoChange THEN early ELSE early \cup days
    PROVE  Inv'
<1>0. TypeOK /\ RunSound /\ ChangeSound /\ JobSent /\ DaysOK
  BY DEF Inv
<1>1. Begun(w, days, force, new)
  BY <1>0, Started
<1>2. TypeOK'
  BY <1>0, <1>1 DEF TypeOK, Begun
<1>3. RunSound'
  BY <1>0, <1>1 DEF RunSound, Begun
<1>4. ChangeSound'
  BY <1>0 DEF ChangeSound
<1>5. JobSent'
  BY <1>0 DEF JobSent, Awaited
<1>6. DaysOK'
  <2> SUFFICES ASSUME NEW d \in Days PROVE DayOK(d)'
    BY DEF DaysOK
  <2>1. DayOK(d)
    BY <1>0 DEF DaysOK
  <2>2. Covered(d) => Covered(d)'
    BY <1>1 DEF Covered, Awaited, Begun
  <2> QED  BY <2>1, <2>2 DEF DayOK, FlagStands
<1> QED  BY <1>2, <1>3, <1>4, <1>5, <1>6 DEF Inv

-----------------------------------------------------------------------------
\* The write of a computation: the rows it concluded on, the day's punch, and
\* a mark on the rows that its sources no longer explain.
LEMMA WriteKeeps == ASSUME Inv, NEW w \in Workers, Write(w) PROVE Inv'
<1>0. TypeOK /\ RunSound /\ ChangeSound /\ JobSent /\ DaysOK
  BY DEF Inv
<1> DEFINE now == [src EXCEPT !.punched = src.punched \cup run[w].new]
<1>1. /\ run[w] \in Computation
      /\ run[w].days \subseteq Days /\ run[w].new \subseteq run[w].days
      /\ run[w].skip \subseteq manual
      /\ run[w].force => run[w].skip = {}
  BY <1>0 DEF TypeOK, RunSound, Computation
<1>2. /\ now \in Sources
      /\ now.holiday = src.holiday /\ now.exempt = src.exempt /\ now.leave = src.leave
      /\ now.punched = src.punched \cup run[w].new
  BY <1>0, <1>1, PunchTyped DEF TypeOK
<1>3. src' = now
  BY DEF Write
<1> HIDE DEF now
<1>4. /\ row' = [d \in Days |-> IF d \in Written(w) THEN Compute(run[w].seen, d) ELSE row[d]]
      /\ human' = human \ Written(w)
      /\ missed' = (missed \ Written(w))
                     \cup {d \in Written(w) : Compute(run[w].seen, d) # Compute(now, d)}
      /\ run' = [run EXCEPT ![w] = Idle]
      /\ UNCHANGED <<manual, change, queue, changes, early>>
  BY DEF Write, now
<1>5. Written(w) \subseteq Days
  BY <1>1 DEF Written
<1>6. /\ Idle \in Computation /\ Idle.new = {} /\ Idle.days = {}
      /\ Idle.skip = {} /\ Idle.seen.leave = "pending"
  BY DEF Idle, Nothing, Computation, Sources
<1>7. TypeOK'
  <2>1. row' \in [Days -> Statuses \cup {"none"}]
    BY <1>0, <1>4, ComputeTyped DEF TypeOK
  <2>2. manual' \subseteq {d \in Days : row'[d] # "none"}
    <3> SUFFICES ASSUME NEW d \in manual PROVE d \in Days /\ row'[d] # "none"
      BY <1>4
    <3>1. d \in Days /\ row[d] # "none"
      BY <1>0 DEF TypeOK
    <3>2. Compute(run[w].seen, d) # "none"
      BY ComputeTyped DEF Statuses
    <3> QED  BY <1>4, <3>1, <3>2
  <2>3. human' \subseteq manual' /\ missed' \subseteq Days /\ early' \subseteq Days
    BY <1>0, <1>4, <1>5 DEF TypeOK
  <2>4. run' \in [Workers -> Computation]
    BY <1>0, <1>4, <1>6 DEF TypeOK
  <2> QED  BY <1>0, <1>2, <1>3, <1>4, <2>1, <2>2, <2>3, <2>4 DEF TypeOK
<1>8. RunSound'
  <2>1. \A v \in Workers : run'[v] = IF v = w THEN Idle ELSE run[v]
    BY <1>0, <1>4 DEF TypeOK
  <2> QED  BY <1>0, <1>2, <1>3, <1>4, <1>6, <2>1 DEF RunSound
<1>9. ChangeSound'
  BY <1>0, <1>2, <1>3, <1>4 DEF ChangeSound
<1>10. JobSent'
  BY <1>0, <1>4 DEF JobSent, Awaited
<1>11. DaysOK'
  <2> SUFFICES ASSUME NEW d \in Days,
                      row'[d] # "none", d \notin human', d \notin missed', FlagStands(d)'
               PROVE  row'[d] = Compute(src', d) \/ Covered(d)'
    BY DEF DaysOK, DayOK
  <2>1. CASE d \in Written(w)
    BY <1>3, <1>4, <2>1
  <2>2. CASE d \notin Written(w)
    <3>1. row'[d] = row[d] /\ d \notin human /\ d \notin missed /\ FlagStands(d)
      BY <1>2, <1>3, <1>4, <2>2 DEF FlagStands
    <3>2. row[d] = Compute(src, d) \/ Covered(d)
      BY <1>0, <3>1 DEF DaysOK, DayOK
    <3>3. Covered(d) => Covered(d)'
      BY <1>0, <1>1, <1>4, <2>2 DEF Covered, Awaited, Written, TypeOK
    <3>4. CASE d \notin run[w].new
      <4>1. OnLeave(now) = OnLeave(src)
        BY <1>2 DEF OnLeave
      <4>2. Compute(now, d) = Compute(src, d)
        BY <1>0, <1>2, <3>4, <4>1, ComputeLocal DEF TypeOK
      <4> QED  BY <1>3, <3>1, <3>2, <3>3, <4>2
    <3>5. CASE d \in run[w].new
      <4>1. d \in manual
        BY <1>1, <2>2, <3>5 DEF Written
      <4>2. src.leave = "applied" /\ d \in LeaveDays
        BY <3>1, <4>1 DEF FlagStands
      <4>3. Compute(now, d) = "leave" /\ Compute(src, d) = "leave"
        BY <1>2, <4>2, ComputeOnLeave
      <4> QED  BY <1>3, <3>1, <3>2, <3>3, <4>3
    <3> QED  BY <3>4, <3>5
  <2> QED  BY <2>1, <2>2
<1> QED  BY <1>7, <1>8, <1>9, <1>10, <1>11 DEF Inv

\* A failed computation keeps its punch, and marks the rows that are wrong.
LEMMA FailKeeps == ASSUME Inv, NEW w \in Workers, Fail(w) PROVE Inv'
<1>0. TypeOK /\ RunSound /\ ChangeSound /\ JobSent /\ DaysOK
  BY DEF Inv
<1> DEFINE now == [src EXCEPT !.punched = src.punched \cup run[w].new]
<1>1. run[w].days \subseteq Days /\ run[w].new \subseteq run[w].days
  BY <1>0 DEF TypeOK, RunSound, Computation
<1>2. /\ now \in Sources
      /\ now.holiday = src.holiday /\ now.exempt = src.exempt /\ now.leave = src.leave
      /\ now.punched = src.punched \cup run[w].new
  BY <1>0, <1>1, PunchTyped DEF TypeOK
<1>3. src' = now
  BY DEF Fail
<1> HIDE DEF now
<1>4. /\ missed' = missed \cup {d \in run[w].days : row[d] # Compute(now, d)}
      /\ run' = [run EXCEPT ![w] = Idle]
      /\ UNCHANGED <<row, manual, human, change, queue, changes, early>>
  BY DEF Fail, now
<1>5. /\ Idle \in Computation /\ Idle.new = {} /\ Idle.days = {}
      /\ Idle.skip = {} /\ Idle.seen.leave = "pending"
  BY DEF Idle, Nothing, Computation, Sources
<1>6. \A v \in Workers : run'[v] = IF v = w THEN Idle ELSE run[v]
  BY <1>0, <1>4 DEF TypeOK
<1>7. TypeOK'
  BY <1>0, <1>1, <1>2, <1>3, <1>4, <1>5 DEF TypeOK
<1>8. RunSound'
  BY <1>0, <1>2, <1>3, <1>4, <1>5, <1>6 DEF RunSound
<1>9. ChangeSound'
  BY <1>0, <1>2, <1>3, <1>4 DEF ChangeSound
<1>10. JobSent'
  BY <1>0, <1>4 DEF JobSent, Awaited
<1>11. DaysOK'
  <2> SUFFICES ASSUME NEW d \in Days,
                      row'[d] # "none", d \notin human', d \notin missed', FlagStands(d)'
               PROVE  row'[d] = Compute(src', d) \/ Covered(d)'
    BY DEF DaysOK, DayOK
  <2>1. CASE d \in run[w].days
    BY <1>3, <1>4, <2>1
  <2>2. CASE d \notin run[w].days
    <3>1. row'[d] = row[d] /\ d \notin human /\ d \notin missed /\ FlagStands(d)
      BY <1>2, <1>3, <1>4 DEF FlagStands
    <3>2. row[d] = Compute(src, d) \/ Covered(d)
      BY <1>0, <3>1 DEF DaysOK, DayOK
    <3>3. Covered(d) => Covered(d)'
      BY <1>4, <1>6, <2>2 DEF Covered, Awaited
    <3>4. OnLeave(now) = OnLeave(src)
      BY <1>2 DEF OnLeave
    <3>5. Compute(now, d) = Compute(src, d)
      BY <1>0, <1>1, <1>2, <2>2, <3>4, ComputeLocal DEF TypeOK
    <3> QED  BY <1>3, <3>1, <3>2, <3>3, <3>5
  <2> QED  BY <2>1, <2>2
<1> QED  BY <1>7, <1>8, <1>9, <1>10, <1>11 DEF Inv

-----------------------------------------------------------------------------
\* A person's word on a day takes the day out of the claim.
LEMMA WordKeeps ==
    ASSUME Inv, NEW d \in Days, NEW s \in Statuses,
           row' = [row EXCEPT ![d] = s],
           manual' = manual \cup {d},
           human' = human \cup {d},
           UNCHANGED <<src, change, queue, run, changes, history>>
    PROVE  Inv'
<1>0. TypeOK /\ RunSound /\ ChangeSound /\ JobSent /\ DaysOK
  BY DEF Inv
<1>1. TypeOK'
  <2>1. row' \in [Days -> Statuses \cup {"none"}]
    BY <1>0 DEF TypeOK
  <2>2. manual' \subseteq {e \in Days : row'[e] # "none"}
    BY <1>0 DEF TypeOK, Statuses
  <2> QED  BY <1>0, <2>1, <2>2 DEF TypeOK, history
<1>2. RunSound' /\ ChangeSound' /\ JobSent'
  BY <1>0 DEF RunSound, ChangeSound, JobSent, Awaited, history
<1>3. DaysOK'
  <2> SUFFICES ASSUME NEW e \in Days, e # d PROVE DayOK(e)'
    BY DEF DaysOK, DayOK
  <2>1. DayOK(e)
    BY <1>0 DEF DaysOK
  <2>2. row'[e] = row[e] /\ (e \in manual' <=> e \in manual)
    BY <1>0 DEF TypeOK
  <2> QED  BY <2>1, <2>2 DEF DayOK, FlagStands, Covered, Awaited, history
<1> QED  BY <1>1, <1>2, <1>3 DEF Inv

\* Opening a change sends its job and touches no source.
LEMMA BeginKeeps == ASSUME Inv, NEW c \in Change, Begin(c) PROVE Inv'
<1>0. TypeOK /\ RunSound /\ ChangeSound /\ JobSent /\ DaysOK
  BY DEF Inv
<1>1. /\ change' = c /\ Possible(c) /\ queue' = queue \cup Queued(c)
      /\ UNCHANGED <<src, row, manual, human, run, missed>>
  BY DEF Begin
<1>2. c.days \subseteq Days
  BY DEF Change
<1>3. TypeOK'
  <2>1. changes' \in 0..MaxChanges
    BY <1>0, AttendanceAssumption DEF TypeOK, Begin
  <2>2. queue' \subseteq SUBSET Days /\ early' \subseteq Days
    BY <1>0, <1>1, <1>2 DEF TypeOK, Queued, Begin
  <2> QED  BY <1>0, <1>1, <2>1, <2>2 DEF TypeOK
<1>4. RunSound'
  BY <1>0, <1>1 DEF RunSound
<1>5. ChangeSound'
  BY <1>1 DEF ChangeSound, Possible, PossibleHoliday, PossibleExemption, PossibleLeave,
              ExemptionKinds
<1>6. JobSent'
  BY <1>1 DEF JobSent, Awaited, Queued
<1>7. DaysOK'
  <2> SUFFICES ASSUME NEW d \in Days PROVE DayOK(d)'
    BY DEF DaysOK
  <2>1. DayOK(d)
    BY <1>0 DEF DaysOK
  <2>2. Covered(d) => Covered(d)'
    BY <1>1 DEF Covered, Awaited
  <2> QED  BY <1>1, <2>1, <2>2 DEF DayOK, FlagStands
<1> QED  BY <1>3, <1>4, <1>5, <1>6, <1>7 DEF Inv

\* The job of a change that fails finds the old sources.
LEMMA AbortKeeps == ASSUME Inv, Abort PROVE Inv'
<1>0. TypeOK /\ RunSound /\ ChangeSound /\ JobSent /\ DaysOK
  BY DEF Inv
<1>1. TypeOK' /\ RunSound'
  BY <1>0 DEF Abort, TypeOK, RunSound, history
<1>2. ChangeSound' /\ JobSent'
  BY DEF Abort, ChangeSound, JobSent, NoChange, ExemptionKinds
<1>3. DaysOK'
  BY <1>0 DEF Abort, DaysOK, DayOK, FlagStands, Covered, Awaited, history
<1> QED  BY <1>1, <1>2, <1>3 DEF Inv

\* A change turns into sources: what it did to each field.
LEMMA AfterTyped ==
    ASSUME TypeOK, ChangeSound, change # NoChange
    PROVE  /\ change \in Change
           /\ After(change) \in Sources
           /\ After(change).punched = src.punched
           /\ src.leave = "revoked" => After(change).leave = "revoked"
<1>1. change \in Change /\ change.days \subseteq Days /\ change.kind \in Kinds
  BY DEF TypeOK, Change
<1>2. src \in Sources
  BY DEF TypeOK
<1>3. CASE change.kind \in HolidayKinds
  BY <1>1, <1>2, <1>3 DEF After, Sources, HolidayKinds
<1>4. CASE change.kind \in ExemptionKinds
  BY <1>1, <1>2, <1>4 DEF After, Sources, ExemptionKinds
<1>5. CASE change.kind = "approve"
  BY <1>1, <1>2, <1>5 DEF After, Sources, ChangeSound
<1>6. CASE change.kind = "revoke"
  BY <1>1, <1>2, <1>6 DEF After, Sources
<1> QED  BY <1>1, <1>3, <1>4, <1>5, <1>6 DEF Kinds

\* The rules see a change on its own days, and on those that it silently lets
\* go.
LEMMA ChangeLocal ==
    ASSUME TypeOK, ChangeSound, change # NoChange, NEW d \in Days,
           d \notin SilentlyEnded, d \notin change.days
    PROVE  Compute(After(change), d) = Compute(src, d)
<1> DEFINE new == After(change)
<1>1. change \in Change /\ change.kind \in Kinds
  BY AfterTyped DEF Change
<1>2. new \in Sources /\ src \in Sources /\ new.punched = src.punched
  BY AfterTyped DEF TypeOK
<1> SUFFICES /\ d \in OnLeave(new) <=> d \in OnLeave(src)
             /\ d \in new.holiday <=> d \in src.holiday
             /\ d \in new.exempt <=> d \in src.exempt
  <2> HIDE DEF new
  <2>1. Compute(new, d) = Compute(src, d)
    BY <1>2, ComputeLocal
  <2> QED  BY <2>1 DEF new
<1>3. CASE change.kind \in HolidayKinds
  BY <1>1, <1>2, <1>3 DEF After, Sources, OnLeave, SilentlyEnded, HolidayKinds
<1>4. CASE change.kind \in ExemptionKinds
  BY <1>1, <1>2, <1>4 DEF After, Sources, OnLeave, SilentlyEnded, ChangeSound, ExemptionKinds
<1>5. CASE change.kind \in {"approve", "revoke"}
  BY <1>1, <1>2, <1>5 DEF After, Sources, OnLeave, ChangeSound
<1> QED  BY <1>1, <1>3, <1>4, <1>5 DEF Kinds

\* A commit makes the change's sources the present ones.
LEMMA CommitKeeps == ASSUME Inv, Commit PROVE Inv'
<1>0. TypeOK /\ RunSound /\ ChangeSound /\ JobSent /\ DaysOK
  BY DEF Inv
<1>1. change # NoChange
  BY DEF Commit
<1> DEFINE new == After(change)
<1>2. /\ change \in Change /\ new \in Sources
      /\ src.leave = "revoked" => new.leave = "revoked"
  BY <1>0, <1>1, AfterTyped
<1>3. src' = new
  BY DEF Commit
<1>4. /\ row' = [d \in Days |-> IF d \in Locked THEN "leave" ELSE row[d]]
      /\ manual' = manual \cup Locked /\ human' = human \ Locked
      /\ missed' = (missed \ Locked)
                     \cup {d \in (early \cup SilentlyEnded) \ Locked :
                             Compute(src, d) # Compute(new, d) /\ ~Awaited(d)}
      /\ change' = NoChange /\ UNCHANGED <<queue, run, changes, early>>
  BY DEF Commit
<1>5. /\ Locked \subseteq Days
      /\ Locked # {} => new.leave = "applied" /\ Locked = LeaveDays
  BY <1>0, AttendanceAssumption DEF Locked, After, TypeOK, Sources
<1> HIDE DEF new
<1>6. SilentlyEnded \subseteq Days
  BY <1>2 DEF SilentlyEnded, Change
<1>7. TypeOK'
  <2>1. row' \in [Days -> Statuses \cup {"none"}]
    BY <1>0, <1>4 DEF TypeOK, Statuses
  <2>2. manual' \subseteq {d \in Days : row'[d] # "none"}
    BY <1>0, <1>4, <1>5 DEF TypeOK
  <2>3. human' \subseteq manual' /\ missed' \subseteq Days /\ early' \subseteq Days
    BY <1>0, <1>4, <1>6 DEF TypeOK
  <2> QED  BY <1>0, <1>2, <1>3, <1>4, <2>1, <2>2, <2>3 DEF TypeOK
<1>8. RunSound'
  BY <1>0, <1>2, <1>3, <1>4 DEF RunSound
<1>9. ChangeSound' /\ JobSent'
  BY <1>4 DEF ChangeSound, JobSent, NoChange, ExemptionKinds
<1>10. DaysOK'
  <2> SUFFICES ASSUME NEW d \in Days,
                      row'[d] # "none", d \notin human', d \notin missed', FlagStands(d)'
               PROVE  row'[d] = Compute(src', d) \/ Covered(d)'
    BY DEF DaysOK, DayOK
  <2>1. CASE d \in Locked
    BY <1>3, <1>4, <1>5, <2>1, ComputeOnLeave
  <2>2. CASE d \notin Locked
    <3>1. row'[d] = row[d] /\ d \notin human /\ d \notin missed
      BY <1>4, <2>2
    <3>2. Covered(d)' <=> Covered(d)
      BY <1>4 DEF Covered, Awaited
    <3>3. CASE Compute(new, d) = Compute(src, d)
      <4>1. CASE FlagStands(d)
        BY <1>0, <1>3, <3>1, <3>2, <3>3, <4>1 DEF DaysOK, DayOK
      <4>2. CASE ~FlagStands(d)
        <5>1. d \in manual /\ new.leave = "applied" /\ d \in LeaveDays
          BY <1>3, <1>4, <4>2 DEF FlagStands
        <5>2. src.leave # "applied"
          BY <4>2, <5>1 DEF FlagStands
        <5>3. change.kind = "approve"
          BY <1>1, <1>2, <5>1, <5>2 DEF new, After, Change, Kinds, HolidayKinds, ExemptionKinds, Sources
        <5> QED  BY <2>2, <5>1, <5>3 DEF Locked
      <4> QED  BY <4>1, <4>2
    <3>4. CASE Compute(new, d) # Compute(src, d)
      <4>1. d \in SilentlyEnded \/ d \in change.days
        BY <1>0, <1>1, <3>4, ChangeLocal DEF new
      <4>2. d \in SilentlyEnded \/ d \in early \/ Awaited(d)
        BY <1>0, <1>1, <4>1 DEF JobSent
      <4>3. Awaited(d)
        BY <1>4, <2>2, <3>4, <4>2
      <4> QED  BY <3>2, <4>3 DEF Covered
    <3> QED  BY <3>3, <3>4
  <2> QED  BY <2>1, <2>2
<1> QED  BY <1>7, <1>8, <1>9, <1>10 DEF Inv

-----------------------------------------------------------------------------
\* Inv is inductive: one step per action.
LEMMA StepKeeps == Inv /\ [Next]_vars => Inv'
<1> SUFFICES ASSUME Inv, [Next]_vars PROVE Inv'
  OBVIOUS
<1>1. ASSUME NEW w \in Workers, Write(w) \/ Fail(w) PROVE Inv'
  BY <1>1, WriteKeeps, FailKeeps
<1>2. ASSUME NEW w \in Workers, NEW d \in Days, Punch(w, d) \/ Sweep(w, d) PROVE Inv'
  <2>1. CASE Punch(w, d)
    <3>1. /\ {d} \in SUBSET Days /\ {d} \in SUBSET {d} /\ FALSE \in BOOLEAN
          /\ Start(w, {d}, FALSE, {d})
          /\ UNCHANGED <<src, row, manual, human, change, changes, missed>>
          /\ UNCHANGED <<queue, early>>
      BY <2>1 DEF Punch, history
    <3> QED  BY <3>1, StartKeeps
  <2>2. CASE Sweep(w, d)
    <3>1. /\ {d} \in SUBSET Days /\ {} \in SUBSET {d} /\ FALSE \in BOOLEAN
          /\ Start(w, {d}, FALSE, {})
          /\ UNCHANGED <<src, row, manual, human, change, changes, missed>>
          /\ UNCHANGED <<queue, early>>
      BY <2>2 DEF Sweep, history
    <3> QED  BY <3>1, StartKeeps
  <2> QED  BY <1>2, <2>1, <2>2
<1>3. ASSUME NEW w \in Workers, NEW days \in Ranges, NEW force \in BOOLEAN,
             Process(w, days, force)
      PROVE  Inv'
  <2>1. /\ days \in SUBSET Days /\ {} \in SUBSET days
        /\ Start(w, days, force, {})
        /\ UNCHANGED <<src, row, manual, human, change, changes, missed>>
        /\ UNCHANGED <<queue, early>>
    BY <1>3, AttendanceAssumption DEF Process, history
  <2> QED  BY <2>1, StartKeeps
<1>4. ASSUME NEW w \in Workers, NEW job \in queue, Take(w, job) PROVE Inv'
  <2>1. /\ job \in SUBSET Days /\ {} \in SUBSET job /\ TRUE \in BOOLEAN
        /\ Start(w, job, TRUE, {})
        /\ UNCHANGED <<src, row, manual, human, change, changes, missed>>
        /\ queue' = queue \ {job}
        /\ early' = IF change = NoChange THEN early ELSE early \cup job
    BY <1>4 DEF Take, Inv, TypeOK
  <2> QED  BY <2>1, StartKeeps
<1>5. ASSUME NEW d \in Days,
             RemoteWork(d) \/ \E s \in {"present", "absent"} : AdjustDay(d, s)
      PROVE  Inv'
  BY <1>5, WordKeeps DEF RemoteWork, AdjustDay, Statuses
<1>6. ASSUME NEW c \in Change, Begin(c) PROVE Inv'
  BY <1>6, BeginKeeps
<1>7. CASE Commit \/ Abort
  BY <1>7, CommitKeeps, AbortKeeps
<1>8. CASE UNCHANGED vars
  <2>1. TypeOK' /\ RunSound' /\ ChangeSound' /\ JobSent'
    BY <1>8 DEF vars, history, Inv, TypeOK, RunSound, ChangeSound, JobSent, Awaited
  <2>2. DaysOK'
    BY <1>8 DEF vars, history, Inv, DaysOK, DayOK, FlagStands, Covered, Awaited
  <2> QED  BY <2>1, <2>2 DEF Inv
<1> QED
  BY <1>1, <1>2, <1>3, <1>4, <1>5, <1>6, <1>7, <1>8 DEF Next, ComputeNext, PeopleNext

\* The invariant holds always.
LEMMA InvHolds == Spec => []Inv
  BY InitInv, StepKeeps, PTL DEF Spec

\* The rows, their flags, the queue and the computations keep their types, and
\* a person's word is always flagged.
THEOREM DaysTyped == Spec => []TypeOK
  BY InvHolds, PTL DEF Inv

\* A row that nothing is about to write shows what the present sources make of
\* its day, but for the exceptions that the property names.
THEOREM StaleDaysAreExplained == Spec => []StaleDaysExplained
<1>1. Inv => StaleDaysExplained
  <2> SUFFICES ASSUME Inv, NEW d \in Days, row[d] # "none", Settled(d),
                      d \notin human \cup missed, FlagStands(d)
               PROVE  row[d] = Compute(src, d)
    BY DEF StaleDaysExplained
  <2>1. DayOK(d)
    BY DEF Inv, DaysOK
  <2>2. ~Covered(d)
    BY DEF Settled, Covered
  <2> QED  BY <2>1, <2>2 DEF DayOK
<1> QED  BY InvHolds, <1>1, PTL

\* A day of an applied leave is lost only to a person or to a computation that
\* had read the sources before the leave was applied.
THEOREM LeaveIsKept == Spec => LeaveDaysKept
<1> DEFINE Kept == \A d \in OnLeave(src) :
                     row[d] = "leave" /\ row'[d] # "leave" =>
                        \/ d \in human'
                        \/ \E w \in Workers : /\ d \in Written(w) /\ run'[w] = Idle
                                               /\ run[w].seen.leave = "pending"
<1>1. Inv /\ [Next]_vars => Kept
  <2> SUFFICES ASSUME Inv, [Next]_vars, NEW d \in OnLeave(src),
                      row[d] = "leave", row'[d] # "leave", d \notin human'
               PROVE  \E w \in Workers : /\ d \in Written(w) /\ run'[w] = Idle
                                         /\ run[w].seen.leave = "pending"
    OBVIOUS
  <2>1. d \in LeaveDays /\ d \in Days /\ src.leave = "applied"
    BY AttendanceAssumption DEF OnLeave
  <2>2. ASSUME NEW w \in Workers, Write(w)
        PROVE  d \in Written(w) /\ run'[w] = Idle /\ run[w].seen.leave = "pending"
    <3>1. d \in Written(w) /\ row'[d] = Compute(run[w].seen, d)
      BY <2>1, <2>2 DEF Write
    <3>2. run[w].seen.leave # "applied"
      BY <2>1, <3>1, ComputeOnLeave
    <3>3. run[w].seen.leave # "revoked"
      BY <2>1 DEF Inv, RunSound
    <3>4. run[w].seen.leave = "pending" /\ run'[w] = Idle
      BY <2>2, <3>2, <3>3 DEF Inv, TypeOK, Computation, Sources, Write
    <3> QED  BY <3>1, <3>4
  <2>3. ASSUME NEW e \in Days,
               RemoteWork(e) \/ \E s \in {"present", "absent"} : AdjustDay(e, s)
        PROVE  FALSE
    BY <2>1, <2>3 DEF RemoteWork, AdjustDay, Inv, TypeOK
  <2>4. CASE Commit
    BY <2>1, <2>4 DEF Commit
  <2>5. row' = row => FALSE
    OBVIOUS
  <2>6. ASSUME NEW w \in Workers,
               \/ Fail(w)
               \/ \E e \in Days : Punch(w, e) \/ Sweep(w, e)
               \/ \E days \in Ranges, force \in BOOLEAN : Process(w, days, force)
               \/ \E job \in queue : Take(w, job)
        PROVE  FALSE
    BY <2>5, <2>6 DEF Fail, Punch, Sweep, Process, Take
  <2>7. CASE \/ \E c \in Change : Begin(c)
             \/ Abort \/ UNCHANGED vars
    BY <2>5, <2>7 DEF Begin, Abort, vars
  <2> QED
    BY <2>2, <2>3, <2>4, <2>6, <2>7 DEF Next, ComputeNext, PeopleNext
<1>2. Inv /\ [Next]_vars => [Kept]_vars
  BY <1>1
<1> QED  BY <1>2, InvHolds, PTL DEF Spec, LeaveDaysKept
=============================================================================
