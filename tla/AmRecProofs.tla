---------------------------- MODULE AmRecProofs ----------------------------
(* Proofs about AmRec.                                                       *)
EXTENDS AmRec, FiniteSetTheorems, TLAPS

----------------------------------------------------------------------------
(* Who has the device open.                                                  *)

LEMMA ThreadsFinite ==
    IsFiniteSet(Threads) /\ Cardinality(Threads) = MaxThreads
  BY MaxThreadsAssumption, FS_Interval DEF Threads

LEMMA UsersFinite ==
    /\ IsFiniteSet(Users) /\ Cardinality(Users) \in 0 .. MaxThreads
    /\ IsFiniteSet(Users)' /\ Cardinality(Users)' \in 0 .. MaxThreads
<1>1. Users \in SUBSET Threads /\ Users' \in SUBSET Threads
  BY DEF Users
<1>2. IsFiniteSet(Users) /\ Cardinality(Users) <= MaxThreads
  BY <1>1, ThreadsFinite, FS_Subset
<1>3. IsFiniteSet(Users') /\ Cardinality(Users') <= MaxThreads
  BY <1>1, ThreadsFinite, FS_Subset
<1>4. Cardinality(Users) \in Nat /\ Cardinality(Users') \in Nat
  BY <1>2, <1>3, FS_CardinalityType
<1> QED BY <1>2, <1>3, <1>4, MaxThreadsAssumption

\* A step of a thread that neither opens nor closes the device.
LEMMA CountMove ==
    ASSUME TypeOK, openCnt = Cardinality(Users), openCnt' = openCnt,
           NEW t \in Threads, NEW s, tpc' = [tpc EXCEPT ![t] = s],
           tpc[t] \in {"startdvr", "loop", "stopdvr", "closedvr"}
             <=> s \in {"startdvr", "loop", "stopdvr", "closedvr"}
    PROVE  openCnt' = Cardinality(Users)'
<1>1. Users' = Users
  BY DEF Users, TypeOK
<1> QED BY <1>1

LEMMA CountOpen ==
    ASSUME TypeOK, openCnt = Cardinality(Users), NEW t \in Threads, ThreadOpen(t)
    PROVE  openCnt' = Cardinality(Users)' /\ (openCnt = 0 => Users = {})
<1>1. t \notin Users /\ Users' = Users \cup {t}
  BY DEF ThreadOpen, Step, Users, TypeOK
<1>2. Cardinality(Users') = Cardinality(Users) + 1
  BY <1>1, UsersFinite, FS_AddElement
<1>3. openCnt = 0 => Users = {}
  BY UsersFinite, FS_EmptySet
<1> QED BY <1>2, <1>3 DEF ThreadOpen

LEMMA CountClose ==
    ASSUME TypeOK, openCnt = Cardinality(Users), NEW t \in Threads, ThreadCloseDvr(t)
    PROVE  openCnt' = Cardinality(Users)'
<1>1. t \in Users /\ Users' = Users \ {t}
  BY DEF ThreadCloseDvr, Step, Users, TypeOK
<1>2. Cardinality(Users') = Cardinality(Users) - 1
  BY <1>1, UsersFinite, FS_RemoveElement
<1> QED BY <1>2 DEF ThreadCloseDvr

LEMMA UserCounted ==
    ASSUME openCnt = Cardinality(Users), NEW t \in Users
    PROVE  openCnt # 0
  BY UsersFinite, FS_EmptySet

LEMMA CountStep ==
    ASSUME TypeOK, openCnt = Cardinality(Users), Next
    PROVE  openCnt' = Cardinality(Users)'
<1>1. ASSUME NEW a \in Apps, Call(a) \/ InCall(a), ~StartThread(a)
      PROVE  openCnt' = Cardinality(Users)'
  <2>1. UNCHANGED <<tpc, openCnt>>
    BY <1>1
       DEF Call, InCall, StartBusy, StartOpen, Stop, Pause, SetTFile, StartFails,
           StopUnpause, StopClear, StopJoin, StopJoined, Free, PauseWrite,
           threadVars, dvrVars
  <2> QED BY <2>1 DEF Users
<1>2. ASSUME NEW a \in Apps, StartThread(a)
      PROVE  openCnt' = Cardinality(Users)'
  <2>1. PICK t \in Unused : tpc' = [tpc EXCEPT ![t] = "start"]
    BY <1>2 DEF StartThread
  <2>2. openCnt' = openCnt
    BY <1>2 DEF StartThread, dvrVars
  <2> QED BY <2>1, <2>2, CountMove DEF Unused
<1>3. ASSUME NEW t \in Threads, Thread(t) \/ ThreadEnds(t),
             ~ThreadOpen(t), ~ThreadCloseDvr(t)
      PROVE  openCnt' = Cardinality(Users)'
  <2>1. openCnt' = openCnt
    BY <1>3
       DEF Thread, ThreadStart, ThreadOpenFails, ThreadStartDvr,
           ThreadStartDvrFails, ThreadStops, ThreadEnds, ThreadLosesFile,
           ThreadStopDvr, ThreadCloseFile, ThreadTells, ThreadSilent, ThreadClears,
           ThreadRead, ThreadWrite, dvrVars
  <2>2. PICK s \in ThreadStates :
            /\ tpc' = [tpc EXCEPT ![t] = s]
            /\ tpc[t] \in {"startdvr", "loop", "stopdvr", "closedvr"}
                 <=> s \in {"startdvr", "loop", "stopdvr", "closedvr"}
    BY <1>3
       DEF Thread, ThreadStart, ThreadOpenFails, ThreadStartDvr,
           ThreadStartDvrFails, ThreadStops, ThreadEnds, ThreadLosesFile,
           ThreadStopDvr, ThreadCloseFile, ThreadTells, ThreadSilent, ThreadClears,
           ThreadRead, ThreadWrite, Step, ThreadStates
  <2> QED BY <2>1, <2>2, CountMove
<1> QED BY <1>1, <1>2, <1>3, CountOpen, CountClose DEF Next

----------------------------------------------------------------------------

LEMMA InvInit == Init => Inv
<1> SUFFICES ASSUME Init PROVE Inv
    OBVIOUS
<1> USE RecsAssumption, UsesAssumption, NobodyAssumption, MaxThreadsAssumption
    DEF Init, Holding, NoThread
<1>1. trec \in [Threads -> Recs] /\ arec \in [Apps -> Recs]
  OBVIOUS
<1>2. TypeOK
  <2>1. openCnt \in 0 .. MaxThreads
    OBVIOUS
  <2> QED BY <1>1, <2>1 DEF TypeOK, FlagSet, AppStates, ThreadStates, Mishaps
<1>3. Users = {} /\ Cardinality(Users) = 0
  BY FS_EmptySet DEF Users
<1>4. DeviceHeld /\ OneUser
  BY <1>3 DEF DeviceHeld, OneUser
<1>5. \A r \in Recs : ~Recording(r) /\ Before(r) = {} /\ Live(r) = {}
  BY DEF Recording, Before, Live, BeforeClear
<1>6. LockHeld /\ DestroyAlone /\ ThreadKnown /\ ClearerThere
  BY <1>2, <1>5 DEF LockHeld, DestroyAlone, ThreadKnown, ClearerThere, TypeOK
<1>7. OneThread /\ FlagTells /\ FreedClear /\ FileHeld
  BY <1>2, <1>5 DEF OneThread, FlagTells, FreedClear, FileHeld, BeforeClear
<1>8. StartSeesFlag /\ EndTold /\ OutlivesOnlyByAFlag
  BY <1>2, <1>5 DEF StartSeesFlag, EndTold, OutlivesOnlyByAFlag, TypeOK
<1> QED BY <1>2, <1>4, <1>6, <1>7, <1>8 DEF Inv

LEMMA TypeStep ==
    ASSUME TypeOK, openCnt = Cardinality(Users), Next
    PROVE  TypeOK'
<1>0. openCnt' \in 0 .. MaxThreads
  BY CountStep, UsersFinite
<1> USE <1>0
    DEF TypeOK, Threads, NoThread, FlagSet, AppStates, ThreadStates, Mishaps, Step,
        Enter, Leave, Ready, Recording, Unused, Stopped, Mishap, recVars, appVars,
        threadVars, dvrVars
<1>1. ASSUME NEW a \in Apps, Call(a) \/ InCall(a) PROVE TypeOK'
  <2>1. CASE StartBusy(a)
    BY <2>1 DEF StartBusy
  <2>2. CASE StartOpen(a)
    <3>1. PICK k \in BOOLEAN : StartFile(a, k)
      BY <2>2 DEF StartOpen
    <3>2. shift' \in [Recs -> BOOLEAN] /\ fd' \in [Recs -> BOOLEAN]
      BY <3>1 DEF StartFile
    <3>3. tfile' \in [Recs -> {"none", "open", "closed"}]
      BY <3>1 DEF StartFile
    <3>4. mishaps' \subseteq Mishaps
      BY <3>1 DEF StartFile
    <3> QED BY <2>2, <3>2, <3>3, <3>4 DEF StartOpen
  <2>3. CASE StartThread(a)
    BY <2>3 DEF StartThread
  <2>4. CASE StartFails(a)
    BY <2>4 DEF StartFails
  <2>5. CASE StopUnpause(a)
    <3>1. /\ flags' = [flags EXCEPT ![arec[a]] = copy[a] \ {"paused"}]
          /\ copy' \in {[copy EXCEPT ![a] = {}], [copy EXCEPT ![a] = copy[a] \ {"paused"}]}
          /\ owner' \in {owner, [owner EXCEPT ![arec[a]] = Nobody]}
          /\ \E pc \in AppStates : apc' = [apc EXCEPT ![a] = pc]
      BY <2>5 DEF StopUnpause
    <3>2. flags' \in [Recs -> SUBSET FlagSet]
      BY <3>1
    <3>3. /\ copy' \in [Apps -> SUBSET FlagSet]
          /\ owner' \in [Recs -> Apps \cup {Nobody}]
      BY <3>1
    <3>4. apc' \in [Apps -> AppStates]
      BY <3>1
    <3>5. UNCHANGED <<alive, shift, fd, tfile, tflag, recThread, arec, target,
                      destroying, threadVars, dvrVars, mishaps>>
      BY <2>5 DEF StopUnpause
    <3> QED BY <3>2, <3>3, <3>4, <3>5
  <2>6. CASE StopClear(a)
    BY <2>6 DEF StopClear
  <2>7. CASE StopJoin(a)
    BY <2>7 DEF StopJoin
  <2>8. CASE StopJoined(a)
    BY <2>8 DEF StopJoined
  <2>9. CASE Free(a)
    BY <2>9 DEF Free
  <2>10. CASE Pause(a)
    BY <2>10 DEF Pause
  <2>11. CASE PauseWrite(a)
    BY <2>11 DEF PauseWrite
  <2>12. CASE SetTFile(a)
    BY <2>12 DEF SetTFile
  <2>13. CASE \E d \in BOOLEAN : Stop(a, d)
    BY <2>13 DEF Stop
  <2> QED BY <1>1, <2>1, <2>2, <2>3, <2>4, <2>5, <2>6, <2>7, <2>8, <2>9, <2>10,
      <2>11, <2>12, <2>13
      DEF Call, InCall
<1>2. ASSUME NEW t \in Threads, Thread(t) \/ ThreadEnds(t) PROVE TypeOK'
  <2>1. CASE ThreadStart(t)
    BY <2>1 DEF ThreadStart
  <2>2. CASE ThreadOpen(t)
    BY <2>2 DEF ThreadOpen
  <2>3. CASE ThreadOpenFails(t)
    BY <2>3 DEF ThreadOpenFails
  <2>4. CASE ThreadStartDvr(t)
    BY <2>4 DEF ThreadStartDvr
  <2>5. CASE ThreadStartDvrFails(t)
    BY <2>5 DEF ThreadStartDvrFails
  <2>6. CASE ThreadStops(t)
    BY <2>6 DEF ThreadStops
  <2>7. CASE ThreadEnds(t)
    BY <2>7 DEF ThreadEnds
  <2>8. CASE ThreadLosesFile(t)
    BY <2>8 DEF ThreadLosesFile
  <2>9. CASE ThreadStopDvr(t)
    BY <2>9 DEF ThreadStopDvr
  <2>10. CASE ThreadCloseDvr(t)
    BY <2>10 DEF ThreadCloseDvr
  <2>11. CASE ThreadCloseFile(t)
    BY <2>11 DEF ThreadCloseFile
  <2>12. CASE ThreadTells(t)
    BY <2>12 DEF ThreadTells
  <2>13. CASE ThreadSilent(t)
    BY <2>13 DEF ThreadSilent
  <2>14. ASSUME NEW from, NEW to \in ThreadStates, ThreadRead(t, from, to)
      PROVE TypeOK'
    BY <2>14 DEF ThreadRead
  <2>15. ASSUME NEW from, NEW f, NEW to \in ThreadStates, ThreadWrite(t, from, f, to)
      PROVE TypeOK'
    BY <2>15 DEF ThreadWrite
  <2> QED BY <1>2, <2>1, <2>2, <2>3, <2>4, <2>5, <2>6, <2>7, <2>8, <2>9, <2>10,
      <2>11, <2>12, <2>13, <2>14, <2>15
      DEF Thread, ThreadClears
<1> QED BY <1>1, <1>2 DEF Next

----------------------------------------------------------------------------
(* What steps have in common.                                                *)

LEMMA ThreadFrame ==
    ASSUME TypeOK, NEW t \in Threads, Thread(t) \/ ThreadEnds(t)
    PROVE  /\ UNCHANGED <<alive, shift, tflag, recThread, owner, appVars, trec>>
           /\ mishaps \subseteq mishaps'
           /\ tpc[t] \notin {"none", "done"}
           /\ \E s \in ThreadStates \ {"none", "start"} :
                 /\ tpc' = [tpc EXCEPT ![t] = s]
                 /\ s \in BeforeClear => tpc[t] \in BeforeClear
           /\ \/ flags' = flags
              \/ ThreadWrite(t, "cleared", "recording", "unpause")
              \/ ThreadWrite(t, "unpaused", "paused", "done")
<1> USE DEF Step, ThreadStates, BeforeClear, recVars, appVars
<1>1. CASE ThreadStart(t)
  BY <1>1 DEF ThreadStart
<1>2. CASE ThreadOpen(t)
  BY <1>2 DEF ThreadOpen
<1>3. CASE ThreadOpenFails(t)
  BY <1>3 DEF ThreadOpenFails
<1>4. CASE ThreadStartDvr(t)
  BY <1>4 DEF ThreadStartDvr
<1>5. CASE ThreadStartDvrFails(t)
  BY <1>5 DEF ThreadStartDvrFails
<1>6. CASE ThreadStops(t)
  BY <1>6 DEF ThreadStops
<1>7. CASE ThreadEnds(t)
  BY <1>7 DEF ThreadEnds
<1>8. CASE ThreadLosesFile(t)
  BY <1>8 DEF ThreadLosesFile
<1>9. CASE ThreadStopDvr(t)
  BY <1>9 DEF ThreadStopDvr
<1>10. CASE ThreadCloseDvr(t)
  BY <1>10 DEF ThreadCloseDvr
<1>11. CASE ThreadCloseFile(t)
  BY <1>11 DEF ThreadCloseFile
<1>12. CASE ThreadTells(t)
  BY <1>12 DEF ThreadTells
<1>13. CASE ThreadSilent(t)
  BY <1>13 DEF ThreadSilent
<1>14. CASE ThreadClears(t)
  BY <1>14 DEF ThreadClears, ThreadRead, ThreadWrite
<1> QED BY <1>1, <1>2, <1>3, <1>4, <1>5, <1>6, <1>7, <1>8, <1>9, <1>10, <1>11,
    <1>12, <1>13, <1>14
    DEF Thread

LEMMA AppFrame ==
    ASSUME NEW a \in Apps, Call(a) \/ InCall(a)
    PROVE  /\ mishaps \subseteq mishaps' /\ UNCHANGED <<arec, told, tcopy, dvrVars>>
           /\ StartThread(a) \/ UNCHANGED <<tpc, trec>>
  BY
     DEF Call, InCall, StartBusy, StartOpen, StartFile, StartThread, StartFails,
         Stop, StopUnpause, StopClear, StopJoin, StopJoined, Free, Pause,
         PauseWrite, SetTFile, Enter, Leave, appVars, threadVars

----------------------------------------------------------------------------
(* The lock, AM_REC_Destroy and rec_thread.                                  *)

LEMMA LockStep ==
    ASSUME Inv, Next
    PROVE  LockHeld' /\ DestroyAlone'
<1> USE NobodyAssumption DEF LockHeld, DestroyAlone, Holding
<1>0. TypeOK
  BY DEF Inv
<1>1. ASSUME NEW a \in Apps, Call(a) \/ InCall(a) PROVE LockHeld' /\ DestroyAlone'
  <2> USE <1>0
      DEF Inv, TypeOK, Enter, Leave, Ready, Recording, Unused, Stopped, Mishap,
          recVars, appVars, threadVars, dvrVars
  <2>1. CASE StartBusy(a)
    BY <2>1 DEF StartBusy
  <2>2. CASE StartOpen(a)
    BY <2>2 DEF StartOpen
  <2>3. CASE StartThread(a)
    BY <2>3 DEF StartThread
  <2>4. CASE StartFails(a)
    BY <2>4 DEF StartFails
  <2>5. CASE StopUnpause(a)
    BY <2>5 DEF StopUnpause
  <2>6. CASE StopClear(a)
    BY <2>6 DEF StopClear
  <2>7. CASE StopJoin(a)
    BY <2>7 DEF StopJoin
  <2>8. CASE StopJoined(a)
    BY <2>8 DEF StopJoined
  <2>9. CASE Free(a)
    BY <2>9 DEF Free
  <2>10. CASE Pause(a)
    BY <2>10 DEF Pause
  <2>11. CASE PauseWrite(a)
    BY <2>11 DEF PauseWrite
  <2>12. CASE SetTFile(a)
    BY <2>12 DEF SetTFile
  <2>13. CASE \E d \in BOOLEAN : Stop(a, d)
    BY <2>13 DEF Stop
  <2> QED BY <1>1, <2>1, <2>2, <2>3, <2>4, <2>5, <2>6, <2>7, <2>8, <2>9, <2>10,
      <2>11, <2>12, <2>13
      DEF Call, InCall
<1>2. ASSUME NEW t \in Threads, Thread(t) \/ ThreadEnds(t)
      PROVE  LockHeld' /\ DestroyAlone'
  BY <1>0, <1>2, ThreadFrame DEF Inv, appVars
<1> QED BY <1>1, <1>2 DEF Next

LEMMA KnownStep ==
    ASSUME Inv, Next
    PROVE  ThreadKnown'
<1> USE DEF ThreadKnown
<1>0. TypeOK
  BY DEF Inv
<1>1. ASSUME NEW a \in Apps, Call(a) \/ InCall(a) PROVE ThreadKnown'
  <2> USE <1>0
      DEF Inv, TypeOK, NoThread, Threads, Enter, Leave, Ready, Recording, Unused,
          Stopped, Mishap, recVars, appVars, threadVars, dvrVars
  <2>1. CASE StartBusy(a)
    BY <2>1 DEF StartBusy
  <2>2. CASE StartOpen(a)
    BY <2>2 DEF StartOpen
  <2>3. CASE StartThread(a)
    BY <2>3 DEF StartThread
  <2>4. CASE StartFails(a)
    BY <2>4 DEF StartFails
  <2>5. CASE StopUnpause(a)
    BY <2>5 DEF StopUnpause
  <2>6. CASE StopClear(a)
    BY <2>6 DEF StopClear
  <2>7. CASE StopJoin(a)
    BY <2>7 DEF StopJoin
  <2>8. CASE StopJoined(a)
    BY <2>8 DEF StopJoined
  <2>9. CASE Free(a)
    BY <2>9 DEF Free
  <2>10. CASE Pause(a)
    BY <2>10 DEF Pause
  <2>11. CASE PauseWrite(a)
    BY <2>11 DEF PauseWrite
  <2>12. CASE SetTFile(a)
    BY <2>12 DEF SetTFile
  <2>13. CASE \E d \in BOOLEAN : Stop(a, d)
    BY <2>13 DEF Stop
  <2> QED BY <1>1, <2>1, <2>2, <2>3, <2>4, <2>5, <2>6, <2>7, <2>8, <2>9, <2>10,
      <2>11, <2>12, <2>13
      DEF Call, InCall
<1>2. ASSUME NEW t \in Threads, Thread(t) \/ ThreadEnds(t)
      PROVE  ThreadKnown'
  <2>1. \A r \in Recs : Recording(r)' => Recording(r) \/ recThread[r] # NoThread
    <3>1. flags' = flags \/ \E v : flags' = [flags EXCEPT ![trec[t]] = v]
      BY <1>0, <1>2, ThreadFrame DEF ThreadWrite
    <3>2. recThread[trec[t]] # NoThread
      BY <1>0, <1>2, ThreadFrame DEF Inv
    <3> QED BY <1>0, <3>1, <3>2 DEF TypeOK, Recording
  <2> QED BY <1>0, <1>2, <2>1, ThreadFrame DEF Inv, TypeOK, appVars
<1> QED BY <1>1, <1>2 DEF Next

LEMMA StartOpenFrame ==
    ASSUME TypeOK, NEW a \in Apps, StartOpen(a)
    PROVE  /\ apc[a] = "idle" /\ alive[arec[a]] /\ owner[arec[a]] = Nobody
           /\ \A b \in Apps : ~(destroying[b] /\ arec[b] = arec[a])
           /\ apc' = [apc EXCEPT ![a] = "start"]
           /\ owner' = [owner EXCEPT ![arec[a]] = a]
           /\ copy' = [copy EXCEPT ![a] = flags[arec[a]]]
           /\ UNCHANGED <<alive, flags, tflag, recThread, arec, target, destroying>>
           /\ UNCHANGED <<tpc, trec, told, tcopy>>
           /\ mishaps \subseteq mishaps'
           /\ "restart" \notin mishaps' => Live(arec[a]) = {} /\ ~Stopping(arec[a])
<1>1. PICK k \in BOOLEAN : StartFile(a, k)
  BY DEF StartOpen
<1>2. /\ mishaps \subseteq mishaps'
      /\ "restart" \notin mishaps' => Live(arec[a]) = {} /\ ~Stopping(arec[a])
  BY <1>1 DEF StartFile, Mishap
<1> QED BY <1>2 DEF StartOpen, Enter, Ready, threadVars

----------------------------------------------------------------------------
(* The device.                                                               *)

LEMMA DeviceStep ==
    ASSUME Inv, Next
    PROVE  DeviceHeld' /\ OneUser'
<1>0. /\ TypeOK /\ DeviceHeld /\ OneUser /\ openCnt = Cardinality(Users)
      /\ openCnt' = Cardinality(Users)'
  BY CountStep DEF Inv, DeviceHeld
<1>1. \A t \in Users : openCnt # 0
  BY <1>0, UserCounted
<1> USE <1>0, <1>1 DEF DeviceHeld, OneUser, Users
<1>2. ASSUME NEW a \in Apps, Call(a) \/ InCall(a), ~StartThread(a)
      PROVE  DeviceHeld' /\ OneUser'
  BY <1>2, AppFrame DEF dvrVars
<1>3. ASSUME NEW a \in Apps, StartThread(a)
      PROVE  DeviceHeld' /\ OneUser'
  BY <1>3 DEF StartThread, Unused, dvrVars, TypeOK
<1>4. ASSUME NEW t \in Threads, Thread(t) \/ ThreadEnds(t)
      PROVE  DeviceHeld' /\ OneUser'
  <2> USE DEF Step, TypeOK, dvrVars, Mishap
  <2>1. CASE ThreadStart(t)
    BY <2>1 DEF ThreadStart
  <2>2. CASE ThreadOpen(t)
    <3>1. openCnt = 0 => Users = {}
      BY <2>2, CountOpen
    <3>2. openCnt' # 0 /\ ("shared" \notin mishaps' => openCnt = 0)
      BY <2>2 DEF ThreadOpen
    <3> QED BY <2>2, <3>1, <3>2 DEF ThreadOpen
  <2>3. CASE ThreadOpenFails(t)
    BY <2>3 DEF ThreadOpenFails
  <2>4. CASE ThreadStartDvr(t)
    BY <2>4 DEF ThreadStartDvr
  <2>5. CASE ThreadStartDvrFails(t)
    BY <2>5 DEF ThreadStartDvrFails
  <2>6. CASE ThreadStops(t)
    BY <2>6 DEF ThreadStops
  <2>7. CASE ThreadEnds(t)
    BY <2>7 DEF ThreadEnds
  <2>8. CASE ThreadLosesFile(t)
    BY <2>8 DEF ThreadLosesFile
  <2>9. CASE ThreadStopDvr(t)
    BY <2>9 DEF ThreadStopDvr
  <2>10. CASE ThreadCloseDvr(t)
    BY <2>10 DEF ThreadCloseDvr
  <2>11. CASE ThreadCloseFile(t)
    BY <2>11 DEF ThreadCloseFile
  <2>12. CASE ThreadTells(t)
    BY <2>12 DEF ThreadTells
  <2>13. CASE ThreadSilent(t)
    BY <2>13 DEF ThreadSilent
  <2>14. CASE ThreadClears(t)
    BY <2>14 DEF ThreadClears, ThreadRead, ThreadWrite
  <2> QED BY <1>4, <2>1, <2>2, <2>3, <2>4, <2>5, <2>6, <2>7, <2>8, <2>9, <2>10,
      <2>11, <2>12, <2>13, <2>14
      DEF Thread
<1> QED BY <1>2, <1>3, <1>4 DEF Next

----------------------------------------------------------------------------
(* The flag "recording" and the thread that clears it.                       *)

LEMMA ClearerStep ==
    ASSUME Inv, Next
    PROVE  ClearerThere'
<1>0. TypeOK /\ ClearerThere /\ LockHeld
  BY DEF Inv
<1> USE DEF Recording, Before, BeforeClear
<1>1. ASSUME NEW a \in Apps, Call(a) \/ InCall(a) PROVE ClearerThere'
  <2> USE <1>0
      DEF TypeOK, ClearerThere, LockHeld, Holding, Enter, Leave, Ready, Recording,
          Unused, Stopped, Mishap, recVars, appVars, threadVars, dvrVars
  <2>1. CASE StartBusy(a)
    BY <2>1 DEF StartBusy
  <2>2. CASE StartOpen(a)
    BY <2>2, StartOpenFrame
  <2>3. CASE StartThread(a)
    BY <2>3 DEF StartThread
  <2>4. CASE StartFails(a)
    BY <2>4 DEF StartFails
  <2>5. CASE StopUnpause(a)
    BY <2>5 DEF StopUnpause
  <2>6. CASE StopClear(a)
    BY <2>6 DEF StopClear
  <2>7. CASE StopJoin(a)
    BY <2>7 DEF StopJoin
  <2>8. CASE StopJoined(a)
    BY <2>8 DEF StopJoined
  <2>9. CASE Free(a)
    BY <2>9 DEF Free
  <2>10. CASE Pause(a)
    BY <2>10 DEF Pause
  <2>11. CASE PauseWrite(a)
    BY <2>11 DEF PauseWrite
  <2>12. CASE SetTFile(a)
    BY <2>12 DEF SetTFile
  <2>13. CASE \E d \in BOOLEAN : Stop(a, d)
    BY <2>13 DEF Stop
  <2> QED BY <1>1, <2>1, <2>2, <2>3, <2>4, <2>5, <2>6, <2>7, <2>8, <2>9, <2>10,
      <2>11, <2>12, <2>13
      DEF Call, InCall
<1>2. ASSUME NEW t \in Threads, Thread(t) \/ ThreadEnds(t)
      PROVE  ClearerThere'
  <2> USE <1>0 DEF TypeOK, ClearerThere, Step, Mishap, recVars, appVars
  <2>1. CASE ThreadStart(t)
    <3>1. tpc[t] = "start" /\ tpc' = [tpc EXCEPT ![t] = "open"]
      BY <2>1 DEF ThreadStart
    <3>2. UNCHANGED <<flags, apc, arec, trec, mishaps>>
      BY <2>1 DEF ThreadStart
    <3>3. told'[t] <=> Recording(trec[t])
      BY <2>1 DEF ThreadStart
    <3>4. \A u \in Threads \ {t} : told'[u] = told[u]
      BY <2>1 DEF ThreadStart
    <3> QED BY <3>1, <3>2, <3>3, <3>4
  <2>2. CASE ThreadOpen(t)
    BY <2>2 DEF ThreadOpen
  <2>3. CASE ThreadOpenFails(t)
    BY <2>3 DEF ThreadOpenFails
  <2>4. CASE ThreadStartDvr(t)
    BY <2>4 DEF ThreadStartDvr
  <2>5. CASE ThreadStartDvrFails(t)
    BY <2>5 DEF ThreadStartDvrFails
  <2>6. CASE ThreadStops(t)
    BY <2>6 DEF ThreadStops
  <2>7. CASE ThreadEnds(t)
    BY <2>7 DEF ThreadEnds
  <2>8. CASE ThreadLosesFile(t)
    BY <2>8 DEF ThreadLosesFile
  <2>9. CASE ThreadStopDvr(t)
    BY <2>9 DEF ThreadStopDvr
  <2>10. CASE ThreadCloseDvr(t)
    BY <2>10 DEF ThreadCloseDvr
  <2>11. CASE ThreadCloseFile(t)
    BY <2>11 DEF ThreadCloseFile
  <2>12. CASE ThreadTells(t)
    BY <2>12 DEF ThreadTells
  <2>13. CASE ThreadSilent(t)
    BY <2>13 DEF ThreadSilent
  <2>14. CASE ThreadClears(t)
    BY <2>14 DEF ThreadClears, ThreadRead, ThreadWrite
  <2> QED BY <1>2, <2>1, <2>2, <2>3, <2>4, <2>5, <2>6, <2>7, <2>8, <2>9, <2>10,
      <2>11, <2>12, <2>13, <2>14
      DEF Thread
<1> QED BY <1>1, <1>2 DEF Next

LEMMA OneThreadStep ==
    ASSUME Inv, Next
    PROVE  OneThread'
<1>0. TypeOK /\ OneThread /\ LockHeld /\ ThreadKnown
  BY DEF Inv
<1>1. ASSUME NEW a \in Apps, Call(a) \/ InCall(a) PROVE OneThread'
  <2> USE <1>0
      DEF TypeOK, OneThread, LockHeld, ThreadKnown, Holding, Live, Stopping,
          NoThread, Enter, Leave, Ready, Recording, Unused, Stopped, Mishap,
          recVars, appVars, threadVars, dvrVars
  <2>1. CASE StartBusy(a)
    BY <2>1 DEF StartBusy
  <2>2. CASE StartOpen(a)
    BY <2>2, StartOpenFrame
  <2>3. CASE StartThread(a)
    BY <2>3 DEF StartThread
  <2>4. CASE StartFails(a)
    BY <2>4 DEF StartFails
  <2>5. CASE StopUnpause(a)
    BY <2>5 DEF StopUnpause
  <2>6. CASE StopClear(a)
    BY <2>6 DEF StopClear
  <2>7. CASE StopJoin(a)
    BY <2>7 DEF StopJoin
  <2>8. CASE StopJoined(a)
    BY <2>8 DEF StopJoined
  <2>9. CASE Free(a)
    BY <2>9 DEF Free
  <2>10. CASE Pause(a)
    BY <2>10 DEF Pause
  <2>11. CASE PauseWrite(a)
    BY <2>11 DEF PauseWrite
  <2>12. CASE SetTFile(a)
    BY <2>12 DEF SetTFile
  <2>13. CASE \E d \in BOOLEAN : Stop(a, d)
    BY <2>13 DEF Stop
  <2> QED BY <1>1, <2>1, <2>2, <2>3, <2>4, <2>5, <2>6, <2>7, <2>8, <2>9, <2>10,
      <2>11, <2>12, <2>13
      DEF Call, InCall
<1>2. ASSUME NEW t \in Threads, Thread(t) \/ ThreadEnds(t)
      PROVE  OneThread'
  BY <1>0, <1>2, ThreadFrame DEF TypeOK, OneThread, Live, Stopping, appVars
<1> QED BY <1>1, <1>2 DEF Next

LEMMA FlagStep ==
    ASSUME Inv, Next
    PROVE  FlagTells'
<1>0. TypeOK /\ FlagTells /\ OneThread /\ LockHeld /\ ThreadKnown
  BY DEF Inv
<1>1. ASSUME NEW a \in Apps, Call(a) \/ InCall(a) PROVE FlagTells'
  <2> USE <1>0
      DEF TypeOK, FlagTells, OneThread, LockHeld, ThreadKnown, Holding, BeforeClear,
          Live, Stopping, NoThread, Enter, Leave, Ready, Recording, Unused, Stopped,
          Mishap, recVars, appVars, threadVars, dvrVars
  <2>1. CASE StartBusy(a)
    <3>1. "busy" \in mishaps' /\ mishaps \subseteq mishaps' /\ ~Recording(arec[a])'
          /\ \A r \in Recs : r # arec[a] => (Recording(r)' <=> Recording(r))
      BY <2>1 DEF StartBusy
    <3>2. UNCHANGED <<apc, arec, copy, tpc, trec>> /\ owner[arec[a]] = Nobody
      BY <2>1 DEF StartBusy
    <3> QED BY <2>1, <3>1, <3>2, NobodyAssumption
  <2>2. CASE StartOpen(a)
    BY <2>2, StartOpenFrame
  <2>3. CASE StartThread(a)
    BY <2>3 DEF StartThread
  <2>4. CASE StartFails(a)
    BY <2>4 DEF StartFails
  <2>5. CASE StopUnpause(a)
    BY <2>5 DEF StopUnpause
  <2>6. CASE StopClear(a)
    BY <2>6 DEF StopClear
  <2>7. CASE StopJoin(a)
    BY <2>7 DEF StopJoin
  <2>8. CASE StopJoined(a)
    BY <2>8 DEF StopJoined
  <2>9. CASE Free(a)
    BY <2>9 DEF Free
  <2>10. CASE Pause(a)
    BY <2>10 DEF Pause
  <2>11. CASE PauseWrite(a)
    BY <2>11 DEF PauseWrite
  <2>12. CASE SetTFile(a)
    BY <2>12 DEF SetTFile
  <2>13. CASE \E d \in BOOLEAN : Stop(a, d)
    BY <2>13 DEF Stop
  <2> QED BY <1>1, <2>1, <2>2, <2>3, <2>4, <2>5, <2>6, <2>7, <2>8, <2>9, <2>10,
      <2>11, <2>12, <2>13
      DEF Call, InCall
<1>2. ASSUME NEW t \in Threads, Thread(t) \/ ThreadEnds(t)
      PROVE  FlagTells'
  BY <1>0, <1>2, ThreadFrame
     DEF TypeOK, FlagTells, OneThread, BeforeClear, Stopping, Recording,
         ThreadWrite, Step, appVars
<1> QED BY <1>1, <1>2 DEF Next

----------------------------------------------------------------------------
(* What a thread leaves behind.                                              *)

LEMMA FreedStep ==
    ASSUME Inv, Next
    PROVE  FreedClear'
<1>0. TypeOK /\ FreedClear /\ FlagTells /\ OneThread /\ LockHeld /\ DestroyAlone
  BY DEF Inv
<1>1. ASSUME NEW a \in Apps, Call(a) \/ InCall(a) PROVE FreedClear'
  <2> USE <1>0
      DEF TypeOK, FreedClear, FlagTells, OneThread, LockHeld, DestroyAlone, Holding,
          Before, BeforeClear, Live, Stopping, Enter, Leave, Ready, Recording,
          Unused, Stopped, Mishap, recVars, appVars, threadVars, dvrVars
  <2>1. CASE StartBusy(a)
    BY <2>1 DEF StartBusy
  <2>2. CASE StartOpen(a)
    BY <2>2, StartOpenFrame
  <2>3. CASE StartThread(a)
    BY <2>3 DEF StartThread
  <2>4. CASE StartFails(a)
    BY <2>4 DEF StartFails
  <2>5. CASE StopUnpause(a)
    BY <2>5 DEF StopUnpause
  <2>6. CASE StopClear(a)
    BY <2>6 DEF StopClear
  <2>7. CASE StopJoin(a)
    BY <2>7 DEF StopJoin
  <2>8. CASE StopJoined(a)
    BY <2>8 DEF StopJoined
  <2>9. CASE Free(a)
    BY <2>9 DEF Free
  <2>10. CASE Pause(a)
    BY <2>10 DEF Pause
  <2>11. CASE PauseWrite(a)
    BY <2>11 DEF PauseWrite
  <2>12. CASE SetTFile(a)
    BY <2>12 DEF SetTFile
  <2>13. CASE \E d \in BOOLEAN : Stop(a, d)
    BY <2>13 DEF Stop
  <2> QED BY <1>1, <2>1, <2>2, <2>3, <2>4, <2>5, <2>6, <2>7, <2>8, <2>9, <2>10,
      <2>11, <2>12, <2>13
      DEF Call, InCall
<1>2. ASSUME NEW t \in Threads, Thread(t) \/ ThreadEnds(t)
      PROVE  FreedClear'
  BY <1>0, <1>2, ThreadFrame DEF TypeOK, FreedClear, Before, BeforeClear, appVars
<1> QED BY <1>1, <1>2 DEF Next

LEMMA OutlivesStep ==
    ASSUME Inv, Next
    PROVE  OutlivesOnlyByAFlag'
<1>0. TypeOK /\ FreedClear /\ OutlivesOnlyByAFlag /\ DestroyAlone
  BY DEF Inv
<1>1. ASSUME NEW a \in Apps, Call(a) \/ InCall(a) PROVE OutlivesOnlyByAFlag'
  <2> USE <1>0
      DEF TypeOK, FreedClear, OutlivesOnlyByAFlag, DestroyAlone, Before,
          BeforeClear, ThreadStates, Enter, Leave, Ready, Recording, Unused,
          Stopped, Mishap, recVars, appVars, threadVars, dvrVars
  <2>1. CASE StartBusy(a)
    BY <2>1 DEF StartBusy
  <2>2. CASE StartOpen(a)
    BY <2>2, StartOpenFrame
  <2>3. CASE StartThread(a)
    BY <2>3 DEF StartThread
  <2>4. CASE StartFails(a)
    BY <2>4 DEF StartFails
  <2>5. CASE StopUnpause(a)
    BY <2>5 DEF StopUnpause
  <2>6. CASE StopClear(a)
    BY <2>6 DEF StopClear
  <2>7. CASE StopJoin(a)
    BY <2>7 DEF StopJoin
  <2>8. CASE StopJoined(a)
    BY <2>8 DEF StopJoined
  <2>9. CASE Free(a)
    BY <2>9 DEF Free
  <2>10. CASE Pause(a)
    BY <2>10 DEF Pause
  <2>11. CASE PauseWrite(a)
    BY <2>11 DEF PauseWrite
  <2>12. CASE SetTFile(a)
    BY <2>12 DEF SetTFile
  <2>13. CASE \E d \in BOOLEAN : Stop(a, d)
    BY <2>13 DEF Stop
  <2> QED BY <1>1, <2>1, <2>2, <2>3, <2>4, <2>5, <2>6, <2>7, <2>8, <2>9, <2>10,
      <2>11, <2>12, <2>13
      DEF Call, InCall
<1>2. ASSUME NEW t \in Threads, Thread(t) \/ ThreadEnds(t)
      PROVE  OutlivesOnlyByAFlag'
  BY <1>0, <1>2, ThreadFrame
     DEF TypeOK, OutlivesOnlyByAFlag, BeforeClear, ThreadStates
<1> QED BY <1>1, <1>2 DEF Next

LEMMA StartOpenFile ==
    ASSUME TypeOK, NEW a \in Apps, StartOpen(a), NEW r \in Recs
    PROVE  IF r = arec[a] THEN "reuse" \notin mishaps' => ~NoFile(r)'
                          ELSE NoFile(r)' <=> NoFile(r)
<1>1. PICK k \in BOOLEAN : StartFile(a, k)
  BY DEF StartOpen
<1>2. tflag' = tflag /\ arec' = arec /\ arec[a] \in Recs
  BY StartOpenFrame DEF TypeOK
<1>3. CASE r # arec[a]
  <2>1. shift'[r] = shift[r] /\ fd'[r] = fd[r] /\ tfile'[r] = tfile[r]
    BY <1>1, <1>2, <1>3 DEF StartFile, TypeOK
  <2> QED BY <1>2, <1>3, <2>1 DEF NoFile
<1>4. ASSUME r = arec[a], "reuse" \notin mishaps', k PROVE ~NoFile(r)'
  <2>1. shift'[r] /\ (tflag[r] # "av" => tfile'[r] = "open")
    BY <1>1, <1>4 DEF StartFile, Mishap, TypeOK
  <2> QED BY <1>2, <2>1 DEF NoFile
<1>5. ASSUME r = arec[a], ~k PROVE ~NoFile(r)'
  <2>1. ~shift'[r] /\ fd'[r]
    BY <1>1, <1>5 DEF StartFile, TypeOK
  <2> QED BY <2>1 DEF NoFile
<1> QED BY <1>3, <1>4, <1>5

LEMMA FileStep ==
    ASSUME Inv, Next
    PROVE  FileHeld'
<1>0. TypeOK /\ FileHeld /\ OneThread /\ LockHeld
  BY DEF Inv
<1> USE NobodyAssumption DEF NoFile
<1>1. ASSUME NEW a \in Apps, Call(a) \/ InCall(a) PROVE FileHeld'
  <2> USE <1>0
      DEF TypeOK, FileHeld, OneThread, LockHeld, Holding, Live, Enter, Leave, Ready,
          Recording, Unused, Stopped, Mishap, recVars, appVars, threadVars, dvrVars
  <2>1. CASE StartBusy(a)
    BY <2>1 DEF StartBusy
  <2>2. CASE StartOpen(a)
    <3> HIDE DEF NoFile
    <3> QED BY <2>2, StartOpenFrame, StartOpenFile
  <2>3. CASE StartThread(a)
    BY <2>3 DEF StartThread
  <2>4. CASE StartFails(a)
    BY <2>4 DEF StartFails
  <2>5. CASE StopUnpause(a)
    BY <2>5 DEF StopUnpause
  <2>6. CASE StopClear(a)
    BY <2>6 DEF StopClear
  <2>7. CASE StopJoin(a)
    BY <2>7 DEF StopJoin
  <2>8. CASE StopJoined(a)
    BY <2>8 DEF StopJoined
  <2>9. CASE Free(a)
    BY <2>9 DEF Free
  <2>10. CASE Pause(a)
    BY <2>10 DEF Pause
  <2>11. CASE PauseWrite(a)
    BY <2>11 DEF PauseWrite
  <2>12. CASE SetTFile(a)
    BY <2>12 DEF SetTFile
  <2>13. CASE \E d \in BOOLEAN : Stop(a, d)
    BY <2>13 DEF Stop
  <2> QED BY <1>1, <2>1, <2>2, <2>3, <2>4, <2>5, <2>6, <2>7, <2>8, <2>9, <2>10,
      <2>11, <2>12, <2>13
      DEF Call, InCall
<1>2. ASSUME NEW t \in Threads, Thread(t) \/ ThreadEnds(t)
      PROVE  FileHeld'
  <2> USE <1>0 DEF TypeOK, FileHeld, OneThread, Live, Step, Mishap, recVars, appVars
  <2>1. CASE ThreadStart(t)
    BY <2>1 DEF ThreadStart
  <2>2. CASE ThreadOpen(t)
    BY <2>2 DEF ThreadOpen
  <2>3. CASE ThreadOpenFails(t)
    BY <2>3 DEF ThreadOpenFails
  <2>4. CASE ThreadStartDvr(t)
    BY <2>4 DEF ThreadStartDvr
  <2>5. CASE ThreadStartDvrFails(t)
    BY <2>5 DEF ThreadStartDvrFails
  <2>6. CASE ThreadStops(t)
    BY <2>6 DEF ThreadStops
  <2>7. CASE ThreadEnds(t)
    BY <2>7 DEF ThreadEnds
  <2>8. CASE ThreadLosesFile(t)
    BY <2>8 DEF ThreadLosesFile
  <2>9. CASE ThreadStopDvr(t)
    BY <2>9 DEF ThreadStopDvr
  <2>10. CASE ThreadCloseDvr(t)
    BY <2>10 DEF ThreadCloseDvr
  <2>11. CASE ThreadCloseFile(t)
    BY <2>11 DEF ThreadCloseFile
  <2>12. CASE ThreadTells(t)
    BY <2>12 DEF ThreadTells
  <2>13. CASE ThreadSilent(t)
    BY <2>13 DEF ThreadSilent
  <2>14. CASE ThreadClears(t)
    BY <2>14 DEF ThreadClears, ThreadRead, ThreadWrite
  <2> QED BY <1>2, <2>1, <2>2, <2>3, <2>4, <2>5, <2>6, <2>7, <2>8, <2>9, <2>10,
      <2>11, <2>12, <2>13, <2>14
      DEF Thread
<1> QED BY <1>1, <1>2 DEF Next

LEMMA StartSeesStep ==
    ASSUME Inv, Next
    PROVE  StartSeesFlag'
<1>0. TypeOK /\ StartSeesFlag /\ FlagTells /\ OneThread /\ LockHeld
  BY DEF Inv
<1>1. ASSUME NEW a \in Apps, Call(a) \/ InCall(a) PROVE StartSeesFlag'
  <2> USE <1>0
      DEF TypeOK, StartSeesFlag, FlagTells, OneThread, LockHeld, Holding,
          BeforeClear, Live, Enter, Leave, Ready, Recording, Unused, Stopped,
          Mishap, recVars, appVars, threadVars, dvrVars
  <2>1. CASE StartBusy(a)
    BY <2>1 DEF StartBusy
  <2>2. CASE StartOpen(a)
    BY <2>2, StartOpenFrame
  <2>3. CASE StartThread(a)
    BY <2>3 DEF StartThread
  <2>4. CASE StartFails(a)
    BY <2>4 DEF StartFails
  <2>5. CASE StopUnpause(a)
    BY <2>5 DEF StopUnpause
  <2>6. CASE StopClear(a)
    BY <2>6 DEF StopClear
  <2>7. CASE StopJoin(a)
    BY <2>7 DEF StopJoin
  <2>8. CASE StopJoined(a)
    BY <2>8 DEF StopJoined
  <2>9. CASE Free(a)
    BY <2>9 DEF Free
  <2>10. CASE Pause(a)
    BY <2>10 DEF Pause
  <2>11. CASE PauseWrite(a)
    BY <2>11 DEF PauseWrite
  <2>12. CASE SetTFile(a)
    BY <2>12 DEF SetTFile
  <2>13. CASE \E d \in BOOLEAN : Stop(a, d)
    BY <2>13 DEF Stop
  <2> QED BY <1>1, <2>1, <2>2, <2>3, <2>4, <2>5, <2>6, <2>7, <2>8, <2>9, <2>10,
      <2>11, <2>12, <2>13
      DEF Call, InCall
<1>2. ASSUME NEW t \in Threads, Thread(t) \/ ThreadEnds(t)
      PROVE  StartSeesFlag'
  BY <1>0, <1>2, ThreadFrame
     DEF TypeOK, StartSeesFlag, OneThread, Recording, ThreadWrite, Step
<1> QED BY <1>1, <1>2 DEF Next

LEMMA ToldStep ==
    ASSUME Inv, Next
    PROVE  EndTold'
<1>0. TypeOK /\ StartSeesFlag /\ EndTold
  BY DEF Inv
<1>1. ASSUME NEW a \in Apps, Call(a) \/ InCall(a) PROVE EndTold'
  BY <1>0, <1>1, AppFrame DEF EndTold, StartThread, TypeOK
<1>2. ASSUME NEW t \in Threads, Thread(t) \/ ThreadEnds(t)
      PROVE  EndTold'
  <2> USE <1>0 DEF TypeOK, EndTold, StartSeesFlag, Step, Mishap
  <2>1. CASE ThreadStart(t)
    BY <2>1 DEF ThreadStart
  <2>2. CASE ThreadOpen(t)
    BY <2>2 DEF ThreadOpen
  <2>3. CASE ThreadOpenFails(t)
    BY <2>3 DEF ThreadOpenFails
  <2>4. CASE ThreadStartDvr(t)
    BY <2>4 DEF ThreadStartDvr
  <2>5. CASE ThreadStartDvrFails(t)
    BY <2>5 DEF ThreadStartDvrFails
  <2>6. CASE ThreadStops(t)
    BY <2>6 DEF ThreadStops
  <2>7. CASE ThreadEnds(t)
    BY <2>7 DEF ThreadEnds
  <2>8. CASE ThreadLosesFile(t)
    BY <2>8 DEF ThreadLosesFile
  <2>9. CASE ThreadStopDvr(t)
    BY <2>9 DEF ThreadStopDvr
  <2>10. CASE ThreadCloseDvr(t)
    BY <2>10 DEF ThreadCloseDvr
  <2>11. CASE ThreadCloseFile(t)
    BY <2>11 DEF ThreadCloseFile
  <2>12. CASE ThreadTells(t)
    BY <2>12 DEF ThreadTells
  <2>13. CASE ThreadSilent(t)
    BY <2>13 DEF ThreadSilent
  <2>14. CASE ThreadClears(t)
    BY <2>14 DEF ThreadClears, ThreadRead, ThreadWrite
  <2> QED BY <1>2, <2>1, <2>2, <2>3, <2>4, <2>5, <2>6, <2>7, <2>8, <2>9, <2>10,
      <2>11, <2>12, <2>13, <2>14
      DEF Thread
<1> QED BY <1>1, <1>2 DEF Next

----------------------------------------------------------------------------
(* The theorems.                                                             *)

LEMMA InvStutter == Inv /\ UNCHANGED vars => Inv'
  BY
     DEF vars, recVars, appVars, threadVars, dvrVars, Inv, TypeOK, LockHeld,
         DestroyAlone, ThreadKnown, DeviceHeld, OneUser, Users, ClearerThere,
         OneThread, FlagTells, FreedClear, FileHeld, StartSeesFlag, EndTold,
         OutlivesOnlyByAFlag, Recording, Live, Before, Stopping, NoFile

\* The strengthening is inductive.
THEOREM InvCorrect == Spec => []Inv
<1>1. Inv /\ [Next]_vars => Inv'
  BY TypeStep, LockStep, KnownStep, DeviceStep, ClearerStep, OneThreadStep,
     FlagStep, FreedStep, FileStep, StartSeesStep, ToldStep, OutlivesStep,
     InvStutter
     DEF Inv, DeviceHeld
<1> QED BY <1>1, InvInit, PTL DEF Spec

\* The types of the state, for every instance.
THEOREM TypeCorrect == Spec => []TypeOK
  BY InvCorrect, PTL DEF Inv

\* The device is open as often as threads have opened it and not closed it, a closed
\* device does not record, and a recording that has the device to itself has its streams.
THEOREM DeviceCorrect == Spec => []DeviceHeld
  BY InvCorrect, PTL DEF Inv

\* Nothing but a stop ends a recording from outside.
THEOREM NotCutCorrect == Spec => []RecordingNotCut
<1>1. Inv => RecordingNotCut
  BY DEF Inv, RecordingNotCut, FlagTells, FileHeld, BeforeClear
<1> QED BY <1>1, InvCorrect, PTL

\* Every recording whose thread has seen that it is to record tells its end.
THEOREM EndCorrect == Spec => []EndTold
  BY InvCorrect, PTL DEF Inv

\* A thread that outlives its recorder has only a flag left to clear.
THEOREM OutlivesCorrect == Spec => []OutlivesOnlyByAFlag
  BY InvCorrect, PTL DEF Inv

\* A recorder is not left "recording" without a thread, and a join comes back.
THEOREM FlagCorrect == Spec => []FlagAndThreadAgree
<1>1. Inv => FlagAndThreadAgree
  <2> SUFFICES ASSUME Inv PROVE FlagAndThreadAgree
    OBVIOUS
  <2>1. ASSUME "undone" \notin mishaps, NEW r \in Recs, Recording(r), owner[r] = Nobody
        PROVE  Live(r) # {}
    <3>1. \A a \in Apps : arec[a] = r => apc[a] # "clear"
      BY <2>1, NobodyAssumption DEF Inv, LockHeld, Holding
    <3>2. Before(r) # {}
      BY <2>1, <3>1 DEF Inv, ClearerThere
    <3> QED BY <3>2 DEF Before, Live, BeforeClear
  <2>2. ASSUME "restart" \notin mishaps, NEW a \in Apps, apc[a] = "joining"
        PROVE  /\ target[a] # NoThread
               /\ tpc[target[a]] \in {"start", "open", "startdvr", "loop"} =>
                     ~Recording(arec[a])
    <3> DEFINE t == target[a]
    <3>1. t = recThread[arec[a]] /\ t # NoThread
      BY <2>2 DEF Inv, OneThread, ThreadKnown
    <3>2. t \in Threads /\ trec[t] = arec[a]
      BY <3>1 DEF Inv, ThreadKnown, TypeOK
    <3>3. tpc[t] \in BeforeClear => (Stopping(trec[t]) => ~Recording(trec[t]))
      BY <2>2, <3>2 DEF Inv, FlagTells
    <3>4. Stopping(arec[a])
      BY <2>2 DEF Stopping
    <3> QED BY <3>1, <3>2, <3>3, <3>4 DEF BeforeClear
  <2> QED BY <2>1, <2>2 DEF FlagAndThreadAgree
<1> QED BY <1>1, InvCorrect, PTL
============================================================================
