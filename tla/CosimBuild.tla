----------------------------- MODULE CosimBuild -----------------------------
(***************************************************************************)
(* The build cache of sim_build.run_cosim: several runs, started in        *)
(* different directories, share project_dir/rtl_build.  Each decides under *)
(* an flock whether the cached simulator can be reused, rebuilds it if     *)
(* not, and starts it after it has released the lock.  The RTL may be      *)
(* regenerated, a build may fail and a run may be killed at any time.      *)
(*                                                                         *)
(* One rtl_dir is modelled.  Its generation number stands for both the     *)
(* contents of the RTL and the mtime of filelist.f.                        *)
(***************************************************************************)
EXTENDS Naturals

CONSTANTS
  Runs,         \* directories run_cosim is called from, one call at a time
  NoRun,        \* nobody holds the lock
  Configs,      \* what the stamp compares for equality: top, rtl_dir, trace,
                \* dev_mode
  None,         \* no such file
  MaxRtl        \* bound: how many times the RTL is generated

ASSUME BuildAssumption ==
  /\ NoRun \notin Runs
  /\ MaxRtl \in Nat \ {0}
  /\ None \notin [config : Configs, mtime : Nat]
  /\ None \notin [config : Configs, list : Nat, rtl : Nat]

VARIABLES
  pc,            \* where each run is
  rebuild,       \* its rebuild argument
  stamp,         \* its local stamp: its configuration and the mtime it saw
  seen,          \* the generation Verilator read in its build
  launched,      \* the binary it has started
  lock_path,     \* the flock
  rtl,           \* generation of the RTL and of filelist.f
  abs_filelist,  \* generation of filelist.f that abs_filelist.f was made from
  binary,        \* the .vexe: what it was built from
  stamp_file     \* build-stamp.json

run_locals == <<rebuild, stamp, seen, launched>>
cache == <<abs_filelist, binary, stamp_file>>
vars == <<pc, rebuild, stamp, seen, launched, lock_path, rtl, abs_filelist,
          binary, stamp_file>>

Stamps == [config : Configs, mtime : Nat]
Binaries == [config : Configs, list : Nat, rtl : Nat]

Goto(r, label) == pc' = [pc EXCEPT ![r] = label]

Init ==
  /\ pc = [r \in Runs |-> "idle"]
  /\ rebuild = [r \in Runs |-> FALSE]
  /\ \E c \in Configs : stamp = [r \in Runs |-> [config |-> c, mtime |-> 0]]
  /\ seen = [r \in Runs |-> 0]
  /\ launched = [r \in Runs |-> None]
  /\ lock_path = NoRun
  /\ rtl = 1 /\ abs_filelist = 0
  /\ binary = None /\ stamp_file = None

Ended == {"idle", "done", "raised", "crashed"}

\* run_cosim is called (again): the stamp is taken before the lock.
Start(r) ==
  /\ pc[r] \in Ended
  /\ \E b \in BOOLEAN : rebuild' = [rebuild EXCEPT ![r] = b]
  /\ \E c \in Configs :
       stamp' = [stamp EXCEPT ![r] = [config |-> c, mtime |-> rtl]]
  /\ seen' = [seen EXCEPT ![r] = 0]
  /\ launched' = [launched EXCEPT ![r] = None]
  /\ Goto(r, "lock")
  /\ UNCHANGED <<lock_path, rtl, cache>>

NoLock(r) == TRUE                     \* fault: the build step is not serialised
LockFree(r) == lock_path = NoRun

\* flock(LOCK_EX), then _write_filelist.
Lock(r) ==
  /\ pc[r] = "lock"
  /\ LockFree(r)
  /\ lock_path' = r
  /\ abs_filelist' = rtl
  /\ Goto(r, "decide")
  /\ UNCHANGED <<run_locals, rtl, binary, stamp_file>>

Release(r) == lock_path' = IF lock_path = r THEN NoRun ELSE lock_path

\* _stale_reason returns None.
Matches(old, new) == old.config = new.config /\ new.mtime <= old.mtime

ReuseAnyBinary(r) == binary # None    \* fault: the stamp is not compared
CanReuse(r) ==
  /\ ~rebuild[r]
  /\ binary # None
  /\ stamp_file # None /\ Matches(stamp_file, stamp[r])

Reuse(r) ==
  /\ pc[r] = "decide"
  /\ CanReuse(r)
  /\ Goto(r, "unlock")
  /\ UNCHANGED <<run_locals, lock_path, rtl, cache>>

KeptStamp == stamp_file               \* fault: the old stamp is left in place
EmptiedStamp == [config |-> None, mtime |-> 0] \* fault: emptied, not removed
UnlinkedStamp == None

Unlink(r) ==
  /\ pc[r] = "decide"
  /\ ~CanReuse(r)
  /\ stamp_file' = UnlinkedStamp
  /\ Goto(r, "build")
  /\ UNCHANGED <<run_locals, lock_path, rtl, abs_filelist, binary>>

Built(r) ==
  [config |-> stamp[r].config, list |-> abs_filelist, rtl |-> seen[r]]

\* dut.build(): Verilator reads the RTL, and later the binary is linked.
BuildReads(r) ==
  /\ pc[r] = "build"
  /\ seen' = [seen EXCEPT ![r] = rtl]
  /\ Goto(r, "link")
  /\ UNCHANGED <<rebuild, stamp, launched, lock_path, rtl, cache>>

BuildLinks(r) ==
  /\ pc[r] = "link"
  /\ binary' = Built(r)
  /\ Goto(r, "stamp")
  /\ UNCHANGED <<run_locals, lock_path, rtl, abs_filelist, stamp_file>>

\* dut.build() raises with the old binary or none in place, once the RTL is
\* read perhaps with the new one, or _find_sim finds none; the finally clause
\* unlocks.
NeverUnlocked(r) == lock_path' = lock_path \* fault: no finally
Unlocked(r) == Release(r)

BuildFails(r) ==
  /\ pc[r] \in {"build", "link"}
  /\ binary' \in {binary, None} \cup (IF pc[r] = "link" THEN {Built(r)} ELSE {})
  /\ Unlocked(r)
  /\ Goto(r, "raised")
  /\ UNCHANGED <<run_locals, rtl, abs_filelist, stamp_file>>

StampTakenNow(r) == [stamp[r] EXCEPT !.mtime = rtl] \* fault: mtime read after
StampTakenFirst(r) == stamp[r]

WriteStamp(r) ==
  /\ pc[r] = "stamp"
  /\ stamp_file' = StampTakenFirst(r)
  /\ Goto(r, "unlock")
  /\ UNCHANGED <<run_locals, lock_path, rtl, abs_filelist, binary>>

Unlock(r) ==
  /\ pc[r] = "unlock"
  /\ Unlocked(r)
  /\ Goto(r, "launch")
  /\ UNCHANGED <<run_locals, rtl, cache>>

\* simulate() starts whatever the path _find_sim returned now holds.
Launch(r) ==
  /\ pc[r] = "launch"
  /\ launched' = [launched EXCEPT ![r] = binary]
  /\ Goto(r, IF binary = None THEN "raised" ELSE "done")
  /\ UNCHANGED <<rebuild, stamp, seen, lock_path, rtl, cache>>

\* The run is killed: the kernel drops its flock.
Crash(r) ==
  /\ pc[r] \notin Ended
  /\ Release(r)
  /\ Goto(r, "crashed")
  /\ UNCHANGED <<run_locals, rtl, cache>>

\* Chisel writes new RTL and a new filelist.f (outside this module's code).
Regenerate ==
  /\ rtl < MaxRtl
  /\ rtl' = rtl + 1
  /\ UNCHANGED <<pc, run_locals, lock_path, cache>>

Step(r) ==
  \/ Lock(r) \/ Reuse(r) \/ Unlink(r) \/ BuildReads(r) \/ BuildLinks(r)
  \/ BuildFails(r) \/ WriteStamp(r) \/ Unlock(r) \/ Launch(r)

Next ==
  \/ \E r \in Runs : Start(r) \/ Step(r) \/ Crash(r)
  \/ Regenerate

Spec == Init /\ [][Next]_vars

\* A run that has been started is scheduled; builds end, one way or the other;
\* the kernel queues the waiters of an flock, so none is passed over for ever.
FairSpec ==
  Spec /\ \A r \in Runs : WF_vars(Step(r)) /\ SF_vars(Lock(r))

-----------------------------------------------------------------------------
Labels == {"idle", "lock", "decide", "build", "link", "stamp", "unlock",
           "launch", "done", "raised", "crashed"}

TypeOK ==
  /\ pc \in [Runs -> Labels]
  /\ rebuild \in [Runs -> BOOLEAN]
  /\ stamp \in [Runs -> Stamps]
  /\ seen \in [Runs -> Nat]
  /\ launched \in [Runs -> Binaries \cup {None}]
  /\ lock_path \in Runs \cup {NoRun}
  /\ rtl \in 1 .. MaxRtl
  /\ abs_filelist \in Nat
  /\ binary \in Binaries \cup {None}
  /\ stamp_file \in Stamps \cup {None}

\* The binary was built for this stamp, from RTL at least as new as it says.
BuiltFor(s) ==
  /\ binary # None
  /\ binary.config = s.config
  /\ binary.rtl >= s.mtime /\ binary.list >= s.mtime

(***************************************************************************)
(* Whenever the cache has a stamp, the binary beside it is the one the     *)
(* stamp describes - after a failed build, a killed run, or RTL that is    *)
(* regenerated while Verilator runs.                                       *)
(***************************************************************************)
StampDescribesBinary == stamp_file # None => BuiltFor(stamp_file)

(***************************************************************************)
(* When a run is done with the build step, reusing or building, the binary *)
(* has its configuration and is no older than the filelist.f it saw.       *)
(***************************************************************************)
BinaryIsCurrent ==
  \A r \in Runs : pc[r] = "unlock" => BuiltFor(stamp[r])

(***************************************************************************)
(* What makes the two hold: only the holder of the lock changes the cache, *)
(* there is no stamp while it builds, and what it builds from is no older  *)
(* than the stamp it took before it asked for the lock.                    *)
(***************************************************************************)
Holding == {"decide", "build", "link", "stamp", "unlock"}

LockInv == \A r \in Runs : pc[r] \in Holding <=> lock_path = r

NoStampWhileBuilding ==
  \A r \in Runs : pc[r] \in {"build", "link", "stamp"} => stamp_file = None

StampIsOld ==
  \A r \in Runs :
    /\ stamp[r].mtime <= rtl
    /\ pc[r] \in Holding => stamp[r].mtime <= abs_filelist
    /\ pc[r] = "link" => stamp[r].mtime <= seen[r]

HolderHasBuilt ==
  \A r \in Runs : pc[r] \in {"stamp", "unlock"} => BuiltFor(stamp[r])

CacheInv ==
  /\ TypeOK
  /\ LockInv /\ NoStampWhileBuilding /\ StampIsOld /\ HolderHasBuilt
  /\ StampDescribesBinary

(***************************************************************************)
(* No run waits for the lock for ever: a failed or killed holder gives it  *)
(* back, and every run that starts comes to an end.                        *)
(***************************************************************************)
EveryRunEnds ==
  \A r \in Runs :
    pc[r] \notin Ended ~> pc[r] \in Ended

(***************************************************************************)
(* What run_cosim's docstring (sim_build.py:150) promises of concurrent    *)
(* runs from different directories: they are safe.  Each starts a          *)
(* simulator of its own configuration, no older than the RTL it saw.       *)
(***************************************************************************)
LaunchesItsOwnBuild ==
  \A r \in Runs : launched[r] # None =>
    /\ launched[r].config = stamp[r].config
    /\ launched[r].rtl >= stamp[r].mtime

=============================================================================
