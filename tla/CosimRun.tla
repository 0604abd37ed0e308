------------------------------ MODULE CosimRun ------------------------------
(***************************************************************************)
(* sim_build.run_cosim once the build is done: it starts the simulator,    *)
(* then the client, and waits for the client while it watches the          *)
(* simulator (_wait), stopping whichever is left (_stop).                  *)
(*                                                                         *)
(* Time is abstracted: a timed wait may expire whenever its process is     *)
(* still running, and the sleep between two polls is a stuttering step.    *)
(***************************************************************************)
EXTENDS Naturals, Sequences

CONSTANT trace      \* dump a waveform

ASSUME TraceAssumption == trace \in BOOLEAN

Procs == {"sim", "client"}

\* Popen.returncode: 0, a code of the program's own, or a signal's.
Codes == {"0", "nonzero", "SIGINT", "SIGTERM", "SIGKILL"}

VARIABLES
  pc,          \* where run_cosim is
  launched,    \* how many of LaunchOrder have been started
  proc,        \* the two processes: status, return code, queue files mapped
  sent,        \* the signals each process has been sent
  deaf,        \* the processes that may ignore SIGINT and SIGTERM
  served,      \* the client has had every answer it waits for
  qfile,       \* the queue files in the directory: "old", or "fresh"
  waveform,    \* testbench.fst
  client_rc,   \* _wait's local: what the last poll of the client returned
  target,      \* _stop's argument
  level,       \* _stop's loop: how many signals it has tried
  outcome      \* what run_cosim returned or raised

locals == <<client_rc, target, level>>
world == <<proc, served, waveform>>
vars == <<pc, launched, proc, sent, deaf, served, qfile, waveform, client_rc,
          target, level, outcome>>

Running(p) == proc[p].status = "running"
Exited(p) == proc[p].status = "exited"

Init ==
  /\ pc = "launch" /\ launched = 0
  /\ proc = [p \in Procs |-> [status |-> "none", rc |-> "0", queue |-> "none"]]
  /\ sent = [p \in Procs |-> {}]
  /\ deaf \in SUBSET Procs
  /\ served = FALSE
  /\ qfile = "old"
  /\ waveform \in {"none", "stale"}
  /\ client_rc = "none" /\ target = "sim" /\ level = 0
  /\ outcome = "none"

-----------------------------------------------------------------------------
ClientFirst == <<"client", "sim">>        \* fault: the order simulate() forbids
LaunchOrder == <<"sim", "client">>

\* A waveform of an earlier run is deleted before the simulator starts;
\* simulate() then deletes and recreates every queue file.
Start(p) ==
  /\ qfile' = IF p = "sim" THEN "fresh" ELSE qfile
  /\ proc' = [proc EXCEPT ![p].status = "running",
                          ![p].queue = IF p = "sim" THEN "fresh" ELSE "none"]
  /\ waveform' = IF p = "sim" /\ trace THEN "none" ELSE waveform

Launch ==
  /\ pc = "launch"
  /\ launched' = launched + 1
  /\ Start(LaunchOrder[launched'])
  /\ pc' = IF launched' = Len(LaunchOrder) THEN "poll_client" ELSE pc
  /\ UNCHANGED <<sent, deaf, served, locals, outcome>>

\* Starting a process raises (no such binary): run_cosim ends there, for the
\* simulator after the old waveform is gone.
LaunchRaises ==
  /\ pc = "launch"
  /\ outcome' = "raised"
  /\ pc' = "done"
  /\ waveform' = IF launched = 0 /\ trace THEN "none" ELSE waveform
  /\ UNCHANGED <<launched, proc, served, sent, deaf, qfile, locals>>

Stop(p) == target' = p /\ level' = 0 /\ pc' = "stop"

PollClient ==
  /\ pc = "poll_client"
  /\ IF Exited("client")
     THEN client_rc' = proc["client"].rc /\ Stop("sim")
     ELSE pc' = "poll_sim" /\ UNCHANGED locals
  /\ UNCHANGED <<launched, world, sent, deaf, qfile, outcome>>

SimNotWatched == FALSE                    \* fault: the simulator is not polled
SimSeenDead == Exited("sim")

PollSim ==
  /\ pc = "poll_sim"
  /\ pc' = IF SimSeenDead THEN "grace" ELSE "poll_client"
  /\ UNCHANGED <<launched, world, sent, deaf, qfile, locals, outcome>>

\* client.wait(_SIM_EXIT_GRACE_S) returns: back to the top of the loop.
GraceEnds ==
  /\ pc = "grace"
  /\ Exited("client")
  /\ pc' = "poll_client"
  /\ UNCHANGED <<launched, world, sent, deaf, qfile, locals, outcome>>

GraceExpires ==
  /\ pc = "grace"
  /\ Running("client")
  /\ Stop("client")
  /\ UNCHANGED <<launched, world, sent, deaf, qfile, client_rc, outcome>>

TermFirst == <<"SIGTERM", "SIGKILL">>     \* fault: no SIGINT
NeverKill == <<"SIGINT", "SIGTERM">>      \* fault: no SIGKILL
StopSignals == <<"SIGINT", "SIGTERM", "SIGKILL">>

\* _wait's raise or return, once _stop has returned.
RawCode == client_rc                      \* fault: the code is the outcome
OkWheneverClientDone == "ok"              \* fault: the client's code is ignored
ClientOutcome == IF client_rc = "0" THEN "ok" ELSE "client"

AfterStop ==
  /\ pc' = "done"
  /\ outcome' = IF target = "sim" THEN ClientOutcome ELSE "sim"
  /\ UNCHANGED <<sent, level>>

\* One turn of _stop's loop: poll, send, wait; after the last, wait for good.
StopTurn ==
  /\ pc = "stop"
  /\ \/ level = Len(StopSignals) /\ pc' = "reap" /\ UNCHANGED <<sent, level, outcome>>
     \/ level < Len(StopSignals) /\ Exited(target) /\ AfterStop
     \/ /\ level < Len(StopSignals) /\ Running(target)
        /\ level' = level + 1
        /\ sent' = [sent EXCEPT ![target] = @ \cup {StopSignals[level']}]
        /\ pc' = "stop_wait"
        /\ UNCHANGED outcome
  /\ UNCHANGED <<launched, world, deaf, qfile, client_rc, target>>

Fatigue(p) == TRUE                        \* fault: _stop gives up after a wait
Reaped(p) == Exited(p)

StopEnds ==
  /\ pc \in {"stop_wait", "reap"}
  /\ Reaped(target)
  /\ AfterStop
  /\ UNCHANGED <<launched, world, deaf, qfile, client_rc, target>>

\* _STOP_TIMEOUT_S is long enough for a process that reacts to the signal.
StopExpires ==
  /\ pc = "stop_wait"
  /\ Running(target)
  /\ target \in deaf \/ level = Len(StopSignals)
  /\ pc' = "stop"
  /\ UNCHANGED <<launched, world, sent, deaf, qfile, locals, outcome>>

Runner ==
  \/ Launch \/ LaunchRaises \/ PollClient \/ PollSim \/ GraceEnds
  \/ GraceExpires \/ StopTurn \/ StopEnds \/ StopExpires

-----------------------------------------------------------------------------
(***************************************************************************)
(* The processes (the Verilator binary and the test driver).               *)
(***************************************************************************)
ExitWith(p, rc) == proc' = [proc EXCEPT ![p].status = "exited", ![p].rc = rc]

\* How a simulator that ends leaves the file it has been writing.
Left(how) == IF waveform = "open" THEN how ELSE waveform

SimOpensWaveform ==
  /\ Running("sim") /\ trace /\ waveform = "none"
  /\ waveform' = "open"
  /\ UNCHANGED <<pc, launched, proc, sent, deaf, served, qfile, locals, outcome>>

\* $finish closes the waveform; $fatal or a crash may leave it torn.
SimDies ==
  /\ Running("sim")
  /\ \E rc \in {"0", "nonzero"} :
       /\ ExitWith("sim", rc)
       /\ waveform' \in {Left("closed")} \cup
                        IF rc = "0" THEN {} ELSE {Left("torn")}
  /\ UNCHANGED <<pc, launched, sent, deaf, served, qfile, locals, outcome>>

ClientOpensQueues ==
  /\ Running("client") /\ proc["client"].queue = "none"
  /\ proc' = [proc EXCEPT !["client"].queue = qfile]
  /\ UNCHANGED <<pc, launched, sent, deaf, served, qfile, waveform, locals,
                 outcome>>

\* The exchange needs the simulator, on the queue files it has mapped too.
ClientServed ==
  /\ Running("client") /\ Running("sim") /\ ~served
  /\ proc["client"].queue = proc["sim"].queue
  /\ served' = TRUE
  /\ UNCHANGED <<pc, launched, proc, sent, deaf, qfile, waveform, locals,
                 outcome>>

ClientSucceeds ==
  /\ Running("client") /\ served
  /\ ExitWith("client", "0")
  /\ UNCHANGED <<pc, launched, sent, deaf, served, qfile, waveform, locals,
                 outcome>>

ClientFails ==
  /\ Running("client")
  /\ ExitWith("client", "nonzero")
  /\ UNCHANGED <<pc, launched, sent, deaf, served, qfile, waveform, locals,
                 outcome>>

\* The sim's main loop ends on SIGINT, runs top->final() and returns 0.
Reacts(p, sig) ==
  /\ Running(p) /\ sig \in sent[p]
  /\ ExitWith(p, IF p = "sim" /\ sig = "SIGINT" THEN "0" ELSE sig)
  /\ waveform' = IF p = "client" THEN waveform
                 ELSE Left(IF sig = "SIGINT" THEN "closed" ELSE "torn")
  /\ UNCHANGED <<pc, launched, sent, deaf, served, qfile, locals, outcome>>

Client == ClientOpensQueues \/ ClientServed \/ ClientSucceeds
Reaction(p) == \E sig \in {"SIGINT", "SIGTERM", "SIGKILL"} : Reacts(p, sig)

Next ==
  \/ Runner
  \/ SimOpensWaveform \/ SimDies \/ Client \/ ClientFails \/ \E p \in Procs : Reaction(p)

Spec == Init /\ [][Next]_vars

(***************************************************************************)
(* The runner keeps polling; the client finishes as long as it has a       *)
(* simulator to talk to; SIGKILL ends a process, and so do the other       *)
(* signals unless it ignores them.  Nothing makes a simulator survive, and *)
(* a client whose simulator is gone may wait for ever.                     *)
(***************************************************************************)
FairSpec ==
  /\ Spec
  /\ WF_vars(Runner) /\ WF_vars(Client)
  /\ \A p \in Procs : /\ WF_vars(Reacts(p, "SIGKILL"))
                      /\ WF_vars(p \notin deaf /\ Reaction(p))

-----------------------------------------------------------------------------
TypeOK ==
  /\ pc \in {"launch", "poll_client", "poll_sim", "grace", "stop", "stop_wait",
             "reap", "done"}
  /\ launched \in 0 .. Len(LaunchOrder)
  /\ proc \in [Procs -> [status : {"none", "running", "exited"}, rc : Codes,
                         queue : {"none", "old", "fresh"}]]
  /\ sent \in [Procs -> SUBSET {"SIGINT", "SIGTERM", "SIGKILL"}]
  /\ deaf \in SUBSET Procs
  /\ served \in BOOLEAN
  /\ qfile \in {"old", "fresh"}
  /\ waveform \in {"none", "stale", "open", "closed", "torn"}
  /\ client_rc \in Codes \cup {"none"}
  /\ target \in Procs /\ level \in 0 .. Len(StopSignals)
  /\ outcome \in {"none", "raised", "ok", "client", "sim"}

(***************************************************************************)
(* However _wait ends - success, a failing client, a dead simulator - both *)
(* processes have exited when run_cosim returns or raises.                 *)
(***************************************************************************)
NoOrphans ==
  pc = "done" /\ outcome # "raised" => \A p \in Procs : Exited(p)

(***************************************************************************)
(* No outcome is of run_cosim's own making, whatever the polls interleave  *)
(* with: "ok" and "client" are the code the client chose, never that of a  *)
(* signal run_cosim sent it; "sim" means the simulator ended before        *)
(* run_cosim asked it to.                                                  *)
(***************************************************************************)
OutcomeIsEarned ==
  /\ outcome = "ok" => proc["client"].rc = "0" /\ sent["client"] = {}
  /\ outcome = "client" => proc["client"].rc = "nonzero" /\ sent["client"] = {}
  /\ outcome = "sim" => Exited("sim") /\ sent["sim"] = {}

(***************************************************************************)
(* After a traced run that stopped its simulator, testbench.fst is not the *)
(* file of an earlier run and not one a viewer cannot open, unless the     *)
(* simulator crashed or ignored SIGINT.                                    *)
(***************************************************************************)
WaveformUsable ==
  /\ trace /\ pc = "done" /\ outcome \in {"ok", "client"}
  /\ "sim" \notin deaf
  /\ proc["sim"].rc # "nonzero"
  => waveform \in {"none", "closed"}

(***************************************************************************)
(* The client never maps a queue file that simulate() has deleted or will  *)
(* delete: it would wait for ever for a simulator on the other file.       *)
(***************************************************************************)
ClientOnLiveQueue == proc["client"].queue \in {"none", proc["sim"].queue}

(***************************************************************************)
(* _stop's last wait has no timeout, so it is only for a process that has  *)
(* been killed; and SIGKILL, which leaves a torn waveform, is sent only to *)
(* a process that has been given SIGINT and SIGTERM and ignores them.      *)
(***************************************************************************)
KillIsLastResort ==
  /\ pc = "reap" => "SIGKILL" \in sent[target]
  /\ \A p \in Procs :
       "SIGKILL" \in sent[p] => {"SIGINT", "SIGTERM"} \subseteq sent[p] /\ p \in deaf

(***************************************************************************)
(* run_cosim always ends, even when the simulator dies at the worst time   *)
(* or both processes have to be killed.                                    *)
(***************************************************************************)
RunEnds == <>(pc = "done")

(***************************************************************************)
(* What run_cosim's docstring says (sim_build.py:154-156): a simulator     *)
(* that exits before the client has finished makes it raise.               *)
(***************************************************************************)
SimDeathReported ==
  [](Exited("sim") /\ Running("client") => [](outcome # "ok"))

=============================================================================
