-------------------------- MODULE CosimBuildProofs --------------------------
(***************************************************************************)
(* Proofs about CosimBuild, for any number of runs and configurations and  *)
(* any number of times the RTL is generated.                               *)
(***************************************************************************)
EXTENDS CosimBuild, TLAPS

\* The initial state has no lock, no stamp and nobody past "idle".
LEMMA InitCache == Init => CacheInv
<1> SUFFICES ASSUME Init PROVE CacheInv
  OBVIOUS
<1> USE BuildAssumption
<1>1. PICK c \in Configs : stamp = [r \in Runs |-> [config |-> c, mtime |-> 0]]
  BY DEF Init
<1>2. stamp \in [Runs -> Stamps] /\ \A r \in Runs : stamp[r].mtime = 0
  BY <1>1 DEF Stamps
<1>3. TypeOK
  BY <1>2 DEF Init, TypeOK, Labels
<1>4. LockInv
  BY DEF Init, LockInv, Holding
<1>5. NoStampWhileBuilding
  BY DEF Init, NoStampWhileBuilding
<1>6. StampIsOld
  <2> SUFFICES ASSUME NEW r \in Runs
               PROVE  /\ stamp[r].mtime <= rtl
                      /\ pc[r] \in Holding => stamp[r].mtime <= abs_filelist
                      /\ pc[r] = "link" => stamp[r].mtime <= seen[r]
    BY DEF StampIsOld
  <2>1. stamp[r].mtime = 0 /\ pc[r] = "idle" /\ rtl = 1
    BY <1>2 DEF Init
  <2> QED  BY <2>1 DEF Holding
<1>7. HolderHasBuilt
  BY DEF Init, HolderHasBuilt
<1>8. StampDescribesBinary
  BY DEF Init, StampDescribesBinary
<1> QED  BY <1>3, <1>4, <1>5, <1>6, <1>7, <1>8 DEF CacheInv

\* No step of any run, no crash and no regeneration breaks the invariant.
LEMMA StepCache == CacheInv /\ [Next]_vars => CacheInv'
<1> SUFFICES ASSUME CacheInv, [Next]_vars PROVE CacheInv'
  OBVIOUS
<1> USE BuildAssumption
<1>0. TypeOK /\ LockInv /\ NoStampWhileBuilding /\ StampIsOld
        /\ HolderHasBuilt /\ StampDescribesBinary
  BY DEF CacheInv
<1>1. ASSUME NEW r \in Runs, Start(r) PROVE CacheInv'
  <2>1. PICK c \in Configs :
          stamp' = [stamp EXCEPT ![r] = [config |-> c, mtime |-> rtl]]
    BY <1>1 DEF Start
  <2>2. /\ pc[r] \in Ended /\ pc' = [pc EXCEPT ![r] = "lock"]
        /\ UNCHANGED <<lock_path, rtl, cache>>
    BY <1>1 DEF Start, Goto
  <2>3. TypeOK'
    BY <1>0, <1>1, <2>1, <2>2 DEF TypeOK, Start, cache, Stamps, Labels
  <2>4. LockInv'
    BY <1>0, <2>2 DEF LockInv, Holding, Ended, TypeOK
  <2>5. NoStampWhileBuilding'
    BY <1>0, <2>2 DEF NoStampWhileBuilding, cache, TypeOK
  <2>6. StampIsOld'
    BY <1>0, <1>1, <2>1, <2>2 DEF StampIsOld, Start, Holding, TypeOK, cache
  <2>7. HolderHasBuilt' /\ StampDescribesBinary'
    BY <1>0, <2>1, <2>2
       DEF HolderHasBuilt, StampDescribesBinary, BuiltFor, cache, TypeOK
  <2> QED  BY <2>3, <2>4, <2>5, <2>6, <2>7 DEF CacheInv
<1>2. ASSUME NEW r \in Runs, Lock(r) PROVE CacheInv'
  <2>1. TypeOK'
    BY <1>0, <1>2 DEF TypeOK, Lock, LockFree, Goto, run_locals, Labels
  <2>2. LockInv'
    BY <1>0, <1>2 DEF LockInv, TypeOK, Lock, LockFree, Goto, Holding
  <2>3. NoStampWhileBuilding'
    BY <1>0, <1>2 DEF NoStampWhileBuilding, TypeOK, Lock, Goto
  <2>4. StampIsOld'
    <3>1. \A q \in Runs : q # r => pc'[q] \notin Holding
      BY <2>2, <1>2, <1>0 DEF LockInv, Lock, Goto, TypeOK, Holding
    <3> QED
      BY <1>0, <1>2, <3>1
         DEF StampIsOld, TypeOK, Lock, Goto, run_locals, Holding
  <2>5. HolderHasBuilt' /\ StampDescribesBinary'
    BY <1>0, <1>2 DEF HolderHasBuilt, StampDescribesBinary, BuiltFor, Lock,
                      Goto, run_locals, TypeOK
  <2> QED  BY <2>1, <2>2, <2>3, <2>4, <2>5 DEF CacheInv
<1>3. ASSUME NEW r \in Runs, Reuse(r) PROVE CacheInv'
  <2>1. TypeOK'
    BY <1>0, <1>3 DEF TypeOK, Reuse, Goto, run_locals, cache, Labels
  <2>2. LockInv' /\ NoStampWhileBuilding' /\ StampIsOld'
    BY <1>0, <1>3 DEF LockInv, NoStampWhileBuilding, StampIsOld, TypeOK,
                      Reuse, Goto, run_locals, cache, Holding
  <2>3. BuiltFor(stamp[r])
    BY <1>0, <1>3 DEF Reuse, CanReuse, Matches, StampDescribesBinary, BuiltFor,
                      TypeOK, Stamps, Binaries
  <2>4. HolderHasBuilt' /\ StampDescribesBinary'
    BY <1>0, <1>3, <2>3
       DEF HolderHasBuilt, StampDescribesBinary, BuiltFor, Reuse, Goto,
           run_locals, cache, TypeOK
  <2> QED  BY <2>1, <2>2, <2>4 DEF CacheInv
<1>4. ASSUME NEW r \in Runs, Unlink(r) PROVE CacheInv'
  <2>1. TypeOK'
    BY <1>0, <1>4 DEF TypeOK, Unlink, UnlinkedStamp, Goto, run_locals, Labels
  <2>2. LockInv' /\ NoStampWhileBuilding' /\ StampIsOld'
    BY <1>0, <1>4 DEF LockInv, NoStampWhileBuilding, StampIsOld, TypeOK,
                      Unlink, UnlinkedStamp, Goto, run_locals, Holding
  <2>3. HolderHasBuilt' /\ StampDescribesBinary'
    BY <1>0, <1>4
       DEF HolderHasBuilt, StampDescribesBinary, BuiltFor, Unlink,
           UnlinkedStamp, Goto, run_locals, TypeOK
  <2> QED  BY <2>1, <2>2, <2>3 DEF CacheInv
<1>5. ASSUME NEW r \in Runs, BuildReads(r) PROVE CacheInv'
  <2>1. TypeOK'
    BY <1>0, <1>5 DEF TypeOK, BuildReads, Goto, cache, Labels
  <2>2. LockInv' /\ NoStampWhileBuilding' /\ StampIsOld'
    BY <1>0, <1>5 DEF LockInv, NoStampWhileBuilding, StampIsOld, TypeOK,
                      BuildReads, Goto, cache, Holding
  <2>3. HolderHasBuilt' /\ StampDescribesBinary'
    BY <1>0, <1>5
       DEF HolderHasBuilt, StampDescribesBinary, BuiltFor, BuildReads, Goto,
           cache, TypeOK
  <2> QED  BY <2>1, <2>2, <2>3 DEF CacheInv
<1>6. ASSUME NEW r \in Runs, BuildLinks(r) PROVE CacheInv'
  <2>1. Built(r) \in Binaries /\ Built(r) # None
    BY <1>0 DEF Built, Binaries, TypeOK, Stamps
  <2>2. TypeOK'
    BY <1>0, <1>6, <2>1 DEF TypeOK, BuildLinks, Goto, run_locals, Labels
  <2>3. LockInv' /\ NoStampWhileBuilding' /\ StampIsOld'
    BY <1>0, <1>6 DEF LockInv, NoStampWhileBuilding, StampIsOld, TypeOK,
                      BuildLinks, Goto, run_locals, Holding
  <2>4. BuiltFor(stamp[r])'
    BY <1>0, <1>6, <2>1
       DEF BuildLinks, Built, BuiltFor, StampIsOld, Holding, run_locals
  <2>5. stamp_file' = None
    BY <1>0, <1>6 DEF BuildLinks, NoStampWhileBuilding
  <2>6. \A q \in Runs : q # r => pc'[q] \notin Holding
    BY <1>0, <1>6, <2>3 DEF LockInv, BuildLinks, Goto, Holding, TypeOK
  <2>7. HolderHasBuilt' /\ StampDescribesBinary'
    BY <2>4, <2>5, <2>6 DEF HolderHasBuilt, StampDescribesBinary, Holding
  <2> QED  BY <2>2, <2>3, <2>7 DEF CacheInv
<1>7. ASSUME NEW r \in Runs, BuildFails(r) PROVE CacheInv'
  <2>1. Built(r) \in Binaries
    BY <1>0 DEF Built, Binaries, TypeOK, Stamps
  <2>2. lock_path = r /\ lock_path' = NoRun
    BY <1>0, <1>7 DEF BuildFails, Unlocked, Release, LockInv, Holding
  <2>3. TypeOK'
    BY <1>0, <1>7, <2>1, <2>2 DEF TypeOK, BuildFails, Goto, run_locals, Labels
  <2>4. LockInv' /\ NoStampWhileBuilding' /\ StampIsOld'
    BY <1>0, <1>7, <2>2 DEF LockInv, NoStampWhileBuilding, StampIsOld, TypeOK,
                            BuildFails, Goto, run_locals, Holding
  <2>5. stamp_file' = None
    BY <1>0, <1>7 DEF BuildFails, NoStampWhileBuilding
  <2>6. \A q \in Runs : pc'[q] \notin Holding
    BY <2>2, <2>4 DEF LockInv
  <2>7. HolderHasBuilt' /\ StampDescribesBinary'
    BY <2>5, <2>6 DEF HolderHasBuilt, StampDescribesBinary, Holding
  <2> QED  BY <2>3, <2>4, <2>7 DEF CacheInv
<1>8. ASSUME NEW r \in Runs, WriteStamp(r) PROVE CacheInv'
  <2>1. TypeOK'
    BY <1>0, <1>8
       DEF TypeOK, WriteStamp, StampTakenFirst, Goto, run_locals, Labels
  <2>2. LockInv' /\ StampIsOld'
    BY <1>0, <1>8 DEF LockInv, StampIsOld, TypeOK, WriteStamp, Goto,
                      run_locals, Holding
  <2>3. \A q \in Runs : q # r => pc'[q] \notin Holding
    BY <1>0, <1>8, <2>2 DEF LockInv, WriteStamp, Goto, Holding, TypeOK
  <2>4. pc'[r] = "unlock"
    BY <1>0, <1>8 DEF WriteStamp, Goto, TypeOK
  <2>5. NoStampWhileBuilding'
    BY <2>3, <2>4 DEF NoStampWhileBuilding, Holding
  <2>6. BuiltFor(stamp[r])' /\ stamp_file' = stamp'[r]
    BY <1>0, <1>8 DEF WriteStamp, StampTakenFirst, HolderHasBuilt, BuiltFor,
                      run_locals
  <2>7. HolderHasBuilt' /\ StampDescribesBinary'
    BY <2>3, <2>6 DEF HolderHasBuilt, StampDescribesBinary, BuiltFor, Holding
  <2> QED  BY <2>1, <2>2, <2>5, <2>7 DEF CacheInv
<1>9. ASSUME NEW r \in Runs, Unlock(r) PROVE CacheInv'
  <2>1. lock_path = r /\ lock_path' = NoRun
    BY <1>0, <1>9 DEF Unlock, Unlocked, Release, LockInv, Holding
  <2>2. TypeOK'
    BY <1>0, <1>9, <2>1 DEF TypeOK, Unlock, Goto, run_locals, cache, Labels
  <2>3. LockInv' /\ NoStampWhileBuilding' /\ StampIsOld'
    BY <1>0, <1>9, <2>1 DEF LockInv, NoStampWhileBuilding, StampIsOld, TypeOK,
                            Unlock, Goto, run_locals, cache, Holding
  <2>4. HolderHasBuilt' /\ StampDescribesBinary'
    BY <1>0, <1>9 DEF HolderHasBuilt, StampDescribesBinary, BuiltFor, Unlock,
                      Goto, run_locals, cache, TypeOK
  <2> QED  BY <2>2, <2>3, <2>4 DEF CacheInv
<1>10. ASSUME NEW r \in Runs, Launch(r) PROVE CacheInv'
  <2>1. TypeOK'
    BY <1>0, <1>10 DEF TypeOK, Launch, Goto, cache, Labels
  <2>2. LockInv' /\ NoStampWhileBuilding' /\ StampIsOld'
    BY <1>0, <1>10 DEF LockInv, NoStampWhileBuilding, StampIsOld, TypeOK,
                       Launch, Goto, cache, Holding
  <2>3. HolderHasBuilt' /\ StampDescribesBinary'
    BY <1>0, <1>10 DEF HolderHasBuilt, StampDescribesBinary, BuiltFor, Launch,
                       Goto, cache, TypeOK
  <2> QED  BY <2>1, <2>2, <2>3 DEF CacheInv
<1>11. ASSUME NEW r \in Runs, Crash(r) PROVE CacheInv'
  <2>1. lock_path' \in {lock_path, NoRun} /\ lock_path' # r
    BY <1>0, <1>11 DEF Crash, Release
  <2>2. TypeOK'
    BY <1>0, <1>11, <2>1 DEF TypeOK, Crash, Goto, run_locals, cache, Labels
  <2>3. LockInv'
    BY <1>0, <1>11 DEF LockInv, TypeOK, Crash, Release, Goto, Holding
  <2>4. NoStampWhileBuilding' /\ StampIsOld'
    BY <1>0, <1>11 DEF NoStampWhileBuilding, StampIsOld, TypeOK, Crash, Goto,
                       run_locals, cache, Holding
  <2>5. HolderHasBuilt' /\ StampDescribesBinary'
    BY <1>0, <1>11 DEF HolderHasBuilt, StampDescribesBinary, BuiltFor, Crash,
                       Goto, run_locals, cache, TypeOK
  <2> QED  BY <2>2, <2>3, <2>4, <2>5 DEF CacheInv
<1>12. CASE Regenerate
  <2>1. TypeOK'
    BY <1>0, <1>12 DEF TypeOK, Regenerate, run_locals, cache
  <2>2. LockInv' /\ NoStampWhileBuilding'
    BY <1>0, <1>12 DEF LockInv, NoStampWhileBuilding, Regenerate, cache
  <2>3. StampIsOld'
    BY <1>0, <1>12 DEF StampIsOld, Regenerate, run_locals, cache, TypeOK, Stamps
  <2>4. HolderHasBuilt' /\ StampDescribesBinary'
    BY <1>0, <1>12 DEF HolderHasBuilt, StampDescribesBinary, BuiltFor,
                       Regenerate, run_locals, cache
  <2> QED  BY <2>1, <2>2, <2>3, <2>4 DEF CacheInv
<1>13. CASE UNCHANGED vars
  BY <1>0, <1>13 DEF CacheInv, TypeOK, LockInv, NoStampWhileBuilding,
       StampIsOld, HolderHasBuilt, StampDescribesBinary, BuiltFor, vars
<1> QED
  BY <1>1, <1>2, <1>3, <1>4, <1>5, <1>6, <1>7, <1>8, <1>9, <1>10, <1>11,
     <1>12, <1>13 DEF Next, Step

(***************************************************************************)
(* The inductive invariant of the build cache holds in every reachable     *)
(* state, however runs, crashes and RTL generations interleave.            *)
(***************************************************************************)
THEOREM CacheInvariant == Spec => []CacheInv
<1> QED  BY InitCache, StepCache, PTL DEF Spec

(***************************************************************************)
(* A stamp in rtl_build always describes the binary beside it.             *)
(***************************************************************************)
THEOREM StampIsTrue == Spec => []StampDescribesBinary
<1>1. CacheInv => StampDescribesBinary
  BY DEF CacheInv
<1> QED  BY <1>1, CacheInvariant, PTL

(***************************************************************************)
(* A run leaves the build step, by reuse or by building, with a binary of  *)
(* its own configuration that is no older than the filelist.f it saw.      *)
(***************************************************************************)
THEOREM RunsGetCurrentBinary == Spec => []BinaryIsCurrent
<1>1. CacheInv => BinaryIsCurrent
  BY DEF CacheInv, HolderHasBuilt, BinaryIsCurrent
<1> QED  BY <1>1, CacheInvariant, PTL

(***************************************************************************)
(* Every variable of the build cache keeps its type.                       *)
(***************************************************************************)
THEOREM CacheTypes == Spec => []TypeOK
<1>1. CacheInv => TypeOK
  BY DEF CacheInv
<1> QED  BY <1>1, CacheInvariant, PTL

=============================================================================
