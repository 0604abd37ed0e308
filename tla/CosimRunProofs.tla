--------------------------- MODULE CosimRunProofs ---------------------------
(***************************************************************************)
(* The safety of run_cosim's launch, wait and stop, with and without a     *)
(* waveform: the inductive invariant says which processes have been        *)
(* started, which signals each can have been sent, and what the loop knows *)
(* of the one it is not stopping.                                          *)
(***************************************************************************)
EXTENDS CosimRun, TLAPS

Signals == {"SIGINT", "SIGTERM", "SIGKILL"}
Waiting == {"launch", "poll_client", "poll_sim", "grace"}
Stopping == {"stop", "stop_wait", "reap"}

\* The simulator first; the client finds the queue files it has mapped.
Started ==
  /\ pc = "launch" => launched < 2
  /\ pc \notin {"launch", "done"} => launched = 2
  /\ outcome \in {"ok", "client", "sim"} => launched = 2
  /\ launched = 0 => proc["sim"].status = "none"
  /\ launched < 2 =>
       proc["client"].status = "none" /\ proc["client"].queue = "none"
  /\ launched >= 1 => /\ proc["sim"].status # "none"
                      /\ proc["sim"].queue = "fresh" /\ qfile = "fresh"
  /\ launched = 2 => proc["client"].status # "none"
  /\ proc["client"].queue \in {"none", proc["sim"].queue}

\* Only _stop's target is sent anything, and no more than it needs.
Signalled ==
  /\ pc \in Waiting => \A p \in Procs : sent[p] = {}
  /\ \A p \in Procs : p # target => sent[p] = {}
  /\ \A p \in Procs \ deaf : sent[p] \subseteq {"SIGINT"}
  /\ pc = "stop" => level = 0 \/ target \in deaf
  /\ pc = "stop_wait" => level = 1 \/ target \in deaf
  /\ pc = "reap" => target \in deaf

\* A signal's return code comes from a signal that was sent.
Killed ==
  \A p \in Procs : proc[p].rc \in Signals => proc[p].rc \in sent[p]

\* What is known of the process that is not being stopped.
Other ==
  /\ pc = "grace" => Exited("sim")
  /\ pc \in Stopping =>
       IF target = "sim" THEN Exited("client") /\ client_rc = proc["client"].rc
                         ELSE Exited("sim")

Result ==
  /\ outcome = "none" <=> pc # "done"
  /\ outcome \in {"ok", "client"} =>
       /\ target = "sim" /\ Exited("sim") /\ Exited("client")
       /\ client_rc = proc["client"].rc /\ outcome = ClientOutcome
  /\ outcome = "sim" => target = "client" /\ Exited("sim") /\ Exited("client")

Wave ==
  trace /\ launched >= 1 =>
    /\ waveform # "stale"
    /\ Running("sim") => waveform \in {"none", "open"}
    /\ Exited("sim") => waveform # "open"
    /\ waveform = "torn" =>
         /\ Exited("sim")
         /\ proc["sim"].rc \in {"nonzero", "SIGTERM", "SIGKILL"}

IInv == TypeOK /\ Started /\ Signalled /\ Killed /\ Other /\ Result /\ Wave

-----------------------------------------------------------------------------
(***************************************************************************)
(* Steps of the runner.                                                    *)
(***************************************************************************)
\* The types of the processes, without the rest of TypeOK.
LEMMA ProcTypes ==
  ASSUME TypeOK
  PROVE  /\ proc \in [Procs -> [status : {"none", "running", "exited"},
                                rc : Codes, queue : {"none", "old", "fresh"}]]
         /\ sent \in [Procs -> SUBSET Signals]
         /\ "sim" \in Procs /\ "client" \in Procs /\ launched \in 0 .. 2
BY DEF TypeOK, Procs, Signals, LaunchOrder

\* What starting a process, and its exit, leave in proc.
LEMMA LaunchedFields ==
  ASSUME TypeOK, NEW p \in Procs, NEW q \in {"none", "old", "fresh"},
         proc' = [proc EXCEPT ![p].status = "running", ![p].queue = q]
  PROVE  /\ proc'[p].status = "running" /\ proc'[p].queue = q
         /\ proc'[p].rc = proc[p].rc
         /\ \A r \in Procs : r # p => proc'[r] = proc[r]
         /\ proc' \in [Procs -> [status : {"none", "running", "exited"},
                                 rc : Codes, queue : {"none", "old", "fresh"}]]
<1> DEFINE S == {"none", "running", "exited"}
           Q == {"none", "old", "fresh"}
<1>1. proc \in [Procs -> [status : S, rc : Codes, queue : Q]]
  BY ProcTypes
<1>2. "running" \in S /\ q \in Q
  OBVIOUS
<1>3. proc' = [proc EXCEPT ![p].status = "running", ![p].queue = q]
  OBVIOUS
<1> HIDE DEF S, Q
<1>4. proc' \in [Procs -> [status : S, rc : Codes, queue : Q]]
  BY <1>1, <1>2, <1>3
<1>5. /\ proc'[p].status = "running" /\ proc'[p].queue = q
      /\ proc'[p].rc = proc[p].rc
  BY <1>1, <1>3
<1>6. \A r \in Procs : r # p => proc'[r] = proc[r]
  BY <1>1, <1>3
<1> QED  BY <1>4, <1>5, <1>6 DEF S, Q

LEMMA ExitedFields ==
  ASSUME TypeOK, NEW p \in Procs, NEW rc \in Codes, ExitWith(p, rc)
  PROVE  /\ proc'[p].status = "exited" /\ proc'[p].rc = rc
         /\ proc'[p].queue = proc[p].queue
         /\ \A r \in Procs : r # p => proc'[r] = proc[r]
         /\ proc' \in [Procs -> [status : {"none", "running", "exited"},
                                 rc : Codes, queue : {"none", "old", "fresh"}]]
<1> DEFINE S == {"none", "running", "exited"}
           Q == {"none", "old", "fresh"}
<1>1. proc \in [Procs -> [status : S, rc : Codes, queue : Q]]
  BY ProcTypes
<1>2. "exited" \in S
  OBVIOUS
<1>3. proc' = [proc EXCEPT ![p].status = "exited", ![p].rc = rc]
  BY DEF ExitWith
<1> HIDE DEF S, Q
<1>4. proc' \in [Procs -> [status : S, rc : Codes, queue : Q]]
  BY <1>1, <1>2, <1>3
<1>5. /\ proc'[p].status = "exited" /\ proc'[p].rc = rc
      /\ proc'[p].queue = proc[p].queue
  BY <1>1, <1>3
<1>6. \A r \in Procs : r # p => proc'[r] = proc[r]
  BY <1>1, <1>3
<1> QED  BY <1>4, <1>5, <1>6 DEF S, Q

\* Nothing has been started.
LEMMA InitHolds == Init => IInv
<1> SUFFICES ASSUME Init PROVE IInv
  OBVIOUS
<1>1. /\ proc = [p \in Procs |-> [status |-> "none", rc |-> "0", queue |-> "none"]]
      /\ sent = [p \in Procs |-> {}]
      /\ pc = "launch" /\ launched = 0 /\ outcome = "none"
  BY DEF Init
<1>2. TypeOK
  <2>1. proc \in [Procs -> [status : {"none", "running", "exited"}, rc : Codes,
                           queue : {"none", "old", "fresh"}]]
    BY <1>1 DEF Codes
  <2>2. sent \in [Procs -> SUBSET {"SIGINT", "SIGTERM", "SIGKILL"}]
    BY <1>1
  <2>3. launched \in 0 .. Len(LaunchOrder) /\ level \in 0 .. Len(StopSignals)
    BY DEF Init, LaunchOrder, StopSignals
  <2> QED  BY <1>1, <2>1, <2>2, <2>3 DEF Init, TypeOK, Procs
<1>3. Started
  BY <1>1 DEF Started, Procs
<1>4. Signalled /\ Killed
  BY <1>1 DEF Signalled, Killed, Signals
<1>5. Other /\ Result /\ Wave
  BY <1>1 DEF Other, Result, Wave, Stopping
<1> QED  BY <1>2, <1>3, <1>4, <1>5 DEF IInv

\* The simulator starts on fresh queue files, then the client.
LEMMA LaunchStep == ASSUME IInv, Launch PROVE IInv'
<1>1. /\ pc = "launch" /\ launched' = launched + 1
      /\ UNCHANGED <<sent, deaf, served, client_rc, target, level, outcome>>
      /\ Start(LaunchOrder[launched'])
      /\ pc' = IF launched' = 2 THEN "poll_client" ELSE pc
  BY DEF Launch, locals, LaunchOrder
<1>2. launched \in {0, 1} /\ TypeOK /\ Started /\ Signalled /\ Killed /\ Result
  BY <1>1 DEF IInv, Started, TypeOK, LaunchOrder
<1>3. CASE launched = 0
  <2>1. /\ launched' = 1 /\ pc' = "launch" /\ qfile' = "fresh"
        /\ proc' = [proc EXCEPT !["sim"].status = "running",
                                !["sim"].queue = "fresh"]
        /\ waveform' = IF trace THEN "none" ELSE waveform
    BY <1>1, <1>3 DEF Start, LaunchOrder
  <2>2. /\ proc'["sim"].status = "running" /\ proc'["sim"].queue = "fresh"
        /\ proc'["sim"].rc = proc["sim"].rc /\ proc'["client"] = proc["client"]
        /\ proc' \in [Procs -> [status : {"none", "running", "exited"},
                                rc : Codes, queue : {"none", "old", "fresh"}]]
    <3>1. "sim" \in Procs /\ "client" \in Procs /\ "sim" # "client"
      BY DEF Procs
    <3>2. TypeOK /\ "fresh" \in {"none", "old", "fresh"}
      BY <1>2
    <3>3. /\ proc'["sim"].status = "running" /\ proc'["sim"].queue = "fresh"
          /\ proc'["sim"].rc = proc["sim"].rc
          /\ \A r \in Procs : r # "sim" => proc'[r] = proc[r]
          /\ proc' \in [Procs -> [status : {"none", "running", "exited"},
                                  rc : Codes, queue : {"none", "old", "fresh"}]]
      BY <2>1, <3>1, <3>2, LaunchedFields, Zenon
    <3> QED  BY <3>1, <3>3
  <2>3. TypeOK'
    BY <1>1, <1>2, <2>1, <2>2 DEF TypeOK, LaunchOrder
  <2>4. Started'
    BY <1>1, <1>2, <1>3, <2>1, <2>2 DEF Started, Result
  <2>5. Signalled'
    BY <1>1, <1>2, <2>1 DEF Signalled, Waiting
  <2>6. Killed'
    BY <1>1, <1>2, <2>2 DEF Killed, Procs
  <2>7. Other' /\ Result' /\ Wave'
    BY <1>1, <1>2, <2>1, <2>2
    DEF Other, Result, Wave, Stopping, Running, Exited
  <2> QED  BY <2>3, <2>4, <2>5, <2>6, <2>7 DEF IInv
<1>4. CASE launched = 1
  <2>1. /\ launched' = 2 /\ pc' = "poll_client" /\ UNCHANGED <<qfile, waveform>>
        /\ proc' = [proc EXCEPT !["client"].status = "running",
                                !["client"].queue = "none"]
    BY <1>1, <1>4 DEF Start, LaunchOrder
  <2>2. /\ proc'["client"].status = "running" /\ proc'["client"].queue = "none"
        /\ proc'["client"].rc = proc["client"].rc /\ proc'["sim"] = proc["sim"]
        /\ proc' \in [Procs -> [status : {"none", "running", "exited"},
                                rc : Codes, queue : {"none", "old", "fresh"}]]
    <3>1. "sim" \in Procs /\ "client" \in Procs /\ "sim" # "client"
      BY DEF Procs
    <3>2. TypeOK /\ "none" \in {"none", "old", "fresh"}
      BY <1>2
    <3>3. /\ proc'["client"].status = "running" /\ proc'["client"].queue = "none"
          /\ proc'["client"].rc = proc["client"].rc
          /\ \A r \in Procs : r # "client" => proc'[r] = proc[r]
          /\ proc' \in [Procs -> [status : {"none", "running", "exited"},
                                  rc : Codes, queue : {"none", "old", "fresh"}]]
      BY <2>1, <3>1, <3>2, LaunchedFields, Zenon
    <3> QED  BY <3>1, <3>3
  <2>3. TypeOK'
    BY <1>1, <1>2, <2>1, <2>2 DEF TypeOK, LaunchOrder
  <2>4. Started'
    BY <1>1, <1>2, <1>4, <2>1, <2>2 DEF Started, Result
  <2>5. Signalled'
    BY <1>1, <1>2, <2>1 DEF Signalled, Waiting
  <2>6. Killed'
    BY <1>1, <1>2, <2>2 DEF Killed, Procs
  <2>7. Other' /\ Result' /\ Wave'
    BY <1>1, <1>2, <1>4, <2>1, <2>2
    DEF IInv, Other, Result, Wave, Stopping, Running, Exited
  <2> QED  BY <2>3, <2>4, <2>5, <2>6, <2>7 DEF IInv
<1> QED  BY <1>2, <1>3, <1>4

\* A process that cannot be started ends run_cosim.
LEMMA LaunchRaisesStep == ASSUME IInv, LaunchRaises PROVE IInv'
<1>1. /\ pc = "launch" /\ pc' = "done" /\ outcome' = "raised"
      /\ waveform' = IF launched = 0 /\ trace THEN "none" ELSE waveform
      /\ UNCHANGED <<launched, proc, sent, deaf, served, qfile,
                     client_rc, target, level>>
  BY DEF LaunchRaises, locals
<1>2. TypeOK' /\ Started' /\ Killed'
  BY <1>1 DEF IInv, TypeOK, Started, Killed, LaunchOrder, StopSignals
<1>3. Signalled' /\ Other' /\ Result' /\ Wave'
  BY <1>1 DEF IInv, Signalled, Other, Result, Wave, Waiting, Stopping, Running,
              Exited
<1> QED  BY <1>2, <1>3 DEF IInv

\* From poll to poll nothing changes but the place in the loop.
LEMMA PollStep ==
  ASSUME IInv, PollSim \/ GraceEnds \/ (PollClient /\ ~Exited("client"))
  PROVE  IInv'
<1>1. /\ pc \in {"poll_client", "poll_sim", "grace"}
      /\ pc' \in {"poll_client", "poll_sim", "grace"}
      /\ pc' = "grace" => Exited("sim")
      /\ UNCHANGED <<launched, proc, sent, deaf, served, qfile, waveform,
                     client_rc, target, level, outcome>>
  BY DEF PollSim, GraceEnds, PollClient, world, locals, SimSeenDead
<1>2. TypeOK' /\ Started' /\ Killed'
  BY <1>1 DEF IInv, TypeOK, Started, Killed, LaunchOrder, StopSignals
<1>3. Signalled' /\ Other' /\ Result' /\ Wave'
  BY <1>1 DEF IInv, Signalled, Other, Result, Wave, Waiting, Stopping, Running,
              Exited, ClientOutcome
<1> QED  BY <1>2, <1>3 DEF IInv

\* _wait turns to _stop, knowing that the other process has exited.
LEMMA StopCalled ==
  ASSUME IInv, GraceExpires \/ (PollClient /\ Exited("client"))
  PROVE  IInv'
<1>1. /\ pc \in Waiting /\ pc # "launch" /\ pc' = "stop" /\ level' = 0
      /\ UNCHANGED <<launched, proc, sent, deaf, served, qfile, waveform,
                     outcome>>
      /\ \/ target' = "sim" /\ Exited("client") /\ client_rc' = proc["client"].rc
         \/ target' = "client" /\ Exited("sim") /\ UNCHANGED client_rc
  BY DEF IInv, Other, GraceExpires, PollClient, Stop, world, Waiting
<1>2. proc["client"].rc \in Codes
  BY ProcTypes DEF IInv
<1>3. TypeOK'
  BY <1>1, <1>2 DEF IInv, TypeOK, Procs, StopSignals, LaunchOrder
<1>4. Started' /\ Killed'
  BY <1>1 DEF IInv, Started, Killed, Waiting
<1>5. Signalled'
  BY <1>1 DEF IInv, Signalled
<1>6. Other' /\ Result' /\ Wave'
  BY <1>1 DEF IInv, Other, Result, Wave, Stopping, Waiting, Running, Exited
<1> QED  BY <1>3, <1>4, <1>5, <1>6 DEF IInv

\* _stop has returned: run_cosim returns or raises.
LEMMA StopReturns ==
  ASSUME IInv, pc \in Stopping, Exited(target), AfterStop,
         UNCHANGED <<launched, proc, served, waveform, deaf, qfile, client_rc,
                     target>>
  PROVE  IInv'
<1>1. /\ pc' = "done" /\ UNCHANGED <<sent, level>>
      /\ outcome' = IF target = "sim" THEN ClientOutcome ELSE "sim"
  BY DEF AfterStop
<1>2. outcome' \in {"ok", "client", "sim"}
  BY <1>1 DEF ClientOutcome
<1>3. target \in {"sim", "client"} /\ launched = 2
  BY DEF IInv, TypeOK, Procs, Started, Stopping
<1>4. TypeOK'
  BY <1>1, <1>2 DEF IInv, TypeOK, StopSignals, LaunchOrder
<1>5. Started' /\ Killed'
  BY <1>1, <1>3 DEF IInv, Started, Killed
<1>6. Signalled' /\ Other' /\ Wave'
  BY <1>1 DEF IInv, Signalled, Other, Wave, Waiting, Stopping, Running, Exited
<1>7. Result'
  BY <1>1, <1>2, <1>3 DEF IInv, Other, Result, Stopping, Exited, ClientOutcome
<1> QED  BY <1>4, <1>5, <1>6, <1>7 DEF IInv

\* One turn of the loop over the signals.
LEMMA StopTurnStep == ASSUME IInv, StopTurn PROVE IInv'
<1>1. /\ pc = "stop"
      /\ UNCHANGED <<launched, proc, served, waveform, deaf, qfile, client_rc,
                     target>>
  BY DEF StopTurn, world
<1>2. level \in 0 .. 3 /\ target \in {"sim", "client"}
  BY DEF IInv, TypeOK, StopSignals, Procs
<1>3. CASE level = 3 /\ pc' = "reap" /\ UNCHANGED <<sent, level, outcome>>
  <2>1. TypeOK' /\ Started' /\ Killed'
    BY <1>1, <1>3 DEF IInv, TypeOK, Started, Killed, StopSignals, LaunchOrder
  <2>2. Signalled'
    BY <1>1, <1>3 DEF IInv, Signalled, Waiting
  <2>3. Other' /\ Result' /\ Wave'
    BY <1>1, <1>3 DEF IInv, Other, Result, Wave, Stopping, Running, Exited,
                      ClientOutcome
  <2> QED  BY <2>1, <2>2, <2>3 DEF IInv
<1>4. CASE Exited(target) /\ AfterStop
  BY <1>1, <1>4, StopReturns DEF Stopping
<1>5. CASE /\ level < 3 /\ level' = level + 1 /\ pc' = "stop_wait"
           /\ sent' = [sent EXCEPT ![target] = @ \cup {StopSignals[level']}]
           /\ UNCHANGED outcome
  <2>1. StopSignals[level'] \in Signals /\ level' \in 1 .. 3
        /\ (level = 0 => StopSignals[level'] = "SIGINT")
    BY <1>2, <1>5 DEF StopSignals, Signals
  <2>2. /\ sent' \in [Procs -> SUBSET Signals]
        /\ \A p \in Procs : sent[p] \subseteq sent'[p]
        /\ \A p \in Procs : p # target => sent'[p] = sent[p]
        /\ sent'[target] = sent[target] \cup {StopSignals[level']}
    BY <1>2, <1>5, <2>1, ProcTypes DEF IInv, Procs
  <2>3. TypeOK'
    BY <1>1, <1>5, <2>1, <2>2 DEF IInv, TypeOK, StopSignals, LaunchOrder, Signals
  <2>4. Started' /\ Killed'
    BY <1>1, <1>5, <2>2 DEF IInv, Started, Killed
  <2>5. Signalled'
    <3>1. pc' = "stop_wait" /\ UNCHANGED <<target, deaf>>
      BY <1>1, <1>5
    <3>2. \A p \in Procs : p # target => sent'[p] = {}
      BY <2>2 DEF IInv, Signalled
    <3>3. level = 0 \/ target \in deaf
      BY <1>1 DEF IInv, Signalled
    <3>4. ASSUME NEW p \in Procs \ deaf PROVE sent'[p] \subseteq {"SIGINT"}
      BY <2>1, <2>2, <3>3 DEF IInv, Signalled
    <3>5. level' = 1 \/ target \in deaf
      BY <1>5, <3>3
    <3> QED  BY <3>1, <3>2, <3>4, <3>5 DEF Signalled, Waiting
  <2>6. Other' /\ Result' /\ Wave'
    BY <1>1, <1>5 DEF IInv, Other, Result, Wave, Stopping, Running, Exited,
                      ClientOutcome
  <2> QED  BY <2>3, <2>4, <2>5, <2>6 DEF IInv
<1>6. Len(StopSignals) = 3
  BY DEF StopSignals
<1> QED  BY <1>3, <1>4, <1>5, <1>6 DEF StopTurn

\* The process has exited while _stop waited for it.
LEMMA StopEndsStep == ASSUME IInv, StopEnds PROVE IInv'
BY StopReturns DEF StopEnds, Stopping, Reaped, world

\* Only a process that ignores signals gets a second one.
LEMMA StopExpiresStep == ASSUME IInv, StopExpires PROVE IInv'
<1>1. /\ pc = "stop_wait" /\ pc' = "stop"
      /\ target \in deaf \/ level = 3
      /\ UNCHANGED <<launched, proc, sent, deaf, served, qfile, waveform,
                     client_rc, target, level, outcome>>
  BY DEF StopExpires, world, locals, StopSignals
<1>2. TypeOK' /\ Started' /\ Killed'
  BY <1>1 DEF IInv, TypeOK, Started, Killed, LaunchOrder, StopSignals
<1>3. Signalled'
  BY <1>1 DEF IInv, Signalled, Waiting
<1>4. Other' /\ Result' /\ Wave'
  BY <1>1 DEF IInv, Other, Result, Wave, Stopping, Running, Exited, ClientOutcome
<1> QED  BY <1>2, <1>3, <1>4 DEF IInv

-----------------------------------------------------------------------------
(***************************************************************************)
(* Steps of the two processes.                                             *)
(***************************************************************************)
\* A process exits: with its own code, or with that of a signal it was sent.
LEMMA ExitStep ==
  ASSUME IInv, NEW p \in Procs, NEW rc \in Codes, Running(p), ExitWith(p, rc),
         rc \in Signals => rc \in sent[p],
         waveform' \in {"none", "stale", "open", "closed", "torn"},
         p = "client" => waveform' = waveform,
         p = "sim" => /\ waveform' = "open" => FALSE
                      /\ waveform' = "stale" => waveform = "stale"
                      /\ waveform' = "torn" =>
                           \/ waveform = "torn"
                           \/ rc \in {"nonzero", "SIGTERM", "SIGKILL"},
         UNCHANGED <<pc, launched, sent, deaf, served, qfile, client_rc, target,
                     level, outcome>>
  PROVE  IInv'
<1>1. /\ proc'[p].status = "exited" /\ proc'[p].rc = rc
      /\ proc'[p].queue = proc[p].queue
      /\ \A r \in Procs : r # p => proc'[r] = proc[r]
      /\ \A r \in Procs : Exited(r) => proc'[r] = proc[r]
      /\ \A r \in Procs : proc'[r].queue = proc[r].queue
      /\ proc' \in [Procs -> [status : {"none", "running", "exited"},
                              rc : Codes, queue : {"none", "old", "fresh"}]]
  <2>1. TypeOK
    BY DEF IInv
  <2>2. /\ proc'[p].status = "exited" /\ proc'[p].rc = rc
        /\ proc'[p].queue = proc[p].queue
        /\ \A r \in Procs : r # p => proc'[r] = proc[r]
        /\ proc' \in [Procs -> [status : {"none", "running", "exited"},
                                rc : Codes, queue : {"none", "old", "fresh"}]]
    BY <2>1, ExitedFields
  <2>3. \A r \in Procs : Exited(r) => r # p
    BY DEF Running, Exited
  <2> QED  BY <2>2, <2>3
<1>2. /\ p \in {"sim", "client"} /\ "sim" \in Procs /\ "client" \in Procs
      /\ proc[p].status = "running"
  BY DEF Procs, Running
<1>3. TypeOK'
  BY <1>1 DEF IInv, TypeOK, LaunchOrder, StopSignals
<1>4. Started'
  <2>1. CASE p = "sim"
    BY <1>1, <1>2, <2>1 DEF IInv, Started
  <2>2. CASE p = "client"
    BY <1>1, <1>2, <2>2 DEF IInv, Started
  <2> QED  BY <1>2, <2>1, <2>2
<1>5. Signalled'
  BY DEF IInv, Signalled
<1>6. Killed'
  BY <1>1 DEF IInv, Killed
<1>7. \A r \in Procs : Exited(r) => Exited(r)' /\ proc'[r].rc = proc[r].rc
  BY <1>1 DEF Exited
<1>8. Other' /\ Result'
  BY <1>2, <1>7 DEF IInv, Other, Result, ClientOutcome
<1>9. Wave'
  <2>1. CASE p = "sim"
    BY <1>1, <1>2, <2>1 DEF IInv, Wave, Running, Exited
  <2>2. CASE p = "client"
    <3>1. proc'["sim"] = proc["sim"] /\ waveform' = waveform
      BY <1>1, <1>2, <2>2
    <3> QED  BY <3>1 DEF IInv, Wave, Running, Exited
  <2> QED  BY <1>2, <2>1, <2>2
<1> QED  BY <1>3, <1>4, <1>5, <1>6, <1>8, <1>9 DEF IInv

\* The simulator ends of itself.
LEMMA SimDiesStep == ASSUME IInv, SimDies PROVE IInv'
<1>1. PICK rc \in {"0", "nonzero"} :
        /\ ExitWith("sim", rc)
        /\ waveform' \in {Left("closed")} \cup
                         IF rc = "0" THEN {} ELSE {Left("torn")}
  BY DEF SimDies
<1>2. /\ Running("sim") /\ "sim" \in Procs /\ rc \in Codes /\ rc \notin Signals
      /\ UNCHANGED <<pc, launched, sent, deaf, served, qfile, client_rc, target,
                     level, outcome>>
  BY DEF SimDies, Procs, Codes, Signals, locals
<1>3. waveform \in {"none", "stale", "open", "closed", "torn"}
  BY DEF IInv, TypeOK
<1>4. /\ waveform' \in {"none", "stale", "open", "closed", "torn"}
      /\ waveform' # "open" /\ (waveform' = "stale" => waveform = "stale")
      /\ waveform' = "torn" => waveform = "torn" \/ rc = "nonzero"
  BY <1>1, <1>3 DEF Left
<1> QED  BY <1>1, <1>2, <1>4, ExitStep

\* The client ends of itself.
LEMMA ClientEndsStep == ASSUME IInv, ClientSucceeds \/ ClientFails PROVE IInv'
<1>1. PICK rc \in {"0", "nonzero"} : ExitWith("client", rc)
  BY DEF ClientSucceeds, ClientFails
<1>2. /\ Running("client") /\ "client" \in Procs /\ rc \in Codes
      /\ rc \notin Signals
      /\ UNCHANGED <<pc, launched, sent, deaf, served, qfile, waveform,
                     client_rc, target, level, outcome>>
  BY DEF ClientSucceeds, ClientFails, Procs, Codes, Signals, locals
<1>3. waveform' \in {"none", "stale", "open", "closed", "torn"}
  BY <1>2 DEF IInv, TypeOK
<1> QED  BY <1>1, <1>2, <1>3, ExitStep

\* A process ends because of a signal it was sent.
LEMMA ReactsStep ==
  ASSUME IInv, NEW p \in Procs, NEW sig \in Signals, Reacts(p, sig)
  PROVE  IInv'
<1> DEFINE rc == IF p = "sim" /\ sig = "SIGINT" THEN "0" ELSE sig
<1>1. /\ Running(p) /\ sig \in sent[p] /\ ExitWith(p, rc)
      /\ waveform' = IF p = "client" THEN waveform
                     ELSE Left(IF sig = "SIGINT" THEN "closed" ELSE "torn")
      /\ UNCHANGED <<pc, launched, sent, deaf, served, qfile, client_rc, target,
                     level, outcome>>
  BY DEF Reacts, locals
<1>2. rc \in Codes /\ (rc \in Signals => rc \in sent[p])
  BY <1>1 DEF Codes, Signals
<1>3. waveform \in {"none", "stale", "open", "closed", "torn"}
  BY DEF IInv, TypeOK
<1>4. /\ waveform' \in {"none", "stale", "open", "closed", "torn"}
      /\ p = "client" => waveform' = waveform
      /\ p = "sim" =>
           /\ waveform' # "open" /\ (waveform' = "stale" => waveform = "stale")
           /\ waveform' = "torn" =>
                waveform = "torn" \/ rc \in {"nonzero", "SIGTERM", "SIGKILL"}
  BY <1>1, <1>3 DEF Left, Signals
<1> HIDE DEF rc
<1> QED  BY <1>1, <1>2, <1>4, ExitStep

\* The simulator starts its waveform file.
LEMMA SimOpensWaveformStep == ASSUME IInv, SimOpensWaveform PROVE IInv'
<1>1. /\ Running("sim") /\ trace /\ waveform = "none" /\ waveform' = "open"
      /\ UNCHANGED <<pc, launched, proc, sent, deaf, served, qfile, client_rc,
                     target, level, outcome>>
  BY DEF SimOpensWaveform, locals
<1>2. TypeOK' /\ Started' /\ Signalled' /\ Killed'
  BY <1>1 DEF IInv, TypeOK, Started, Signalled, Killed, LaunchOrder, StopSignals
<1>3. Other' /\ Result' /\ Wave'
  BY <1>1 DEF IInv, Other, Result, Wave, Running, Exited, ClientOutcome
<1> QED  BY <1>2, <1>3 DEF IInv

\* A client that looks for the queue files finds those of its simulator.
LEMMA ClientOpensQueuesStep == ASSUME IInv, ClientOpensQueues PROVE IInv'
<1>1. /\ proc["client"].status = "running"
      /\ proc' = [proc EXCEPT !["client"].queue = qfile]
      /\ UNCHANGED <<pc, launched, sent, deaf, served, qfile, waveform,
                     client_rc, target, level, outcome>>
  BY DEF ClientOpensQueues, Running, locals
<1>2. launched = 2 /\ qfile = "fresh" /\ proc["sim"].queue = "fresh"
  <2>1. launched \in 0 .. 2
    BY ProcTypes DEF IInv
  <2>2. launched = 2
    BY <1>1, <2>1 DEF IInv, Started
  <2> QED  BY <2>2 DEF IInv, Started
<1>3. /\ proc'["client"].queue = "fresh" /\ proc'["sim"] = proc["sim"]
      /\ \A p \in Procs : /\ proc'[p].status = proc[p].status
                          /\ proc'[p].rc = proc[p].rc
      /\ proc' \in [Procs -> [status : {"none", "running", "exited"},
                              rc : Codes, queue : {"none", "old", "fresh"}]]
  BY <1>1, <1>2, ProcTypes DEF IInv
<1>4. "sim" \in Procs /\ "client" \in Procs
  BY DEF Procs
<1>5. TypeOK'
  BY <1>1, <1>3 DEF IInv, TypeOK, LaunchOrder, StopSignals
<1>6. Started'
  BY <1>1, <1>2, <1>3, <1>4 DEF IInv, Started
<1>7. Signalled' /\ Killed'
  BY <1>1, <1>3 DEF IInv, Signalled, Killed
<1>8. Other' /\ Result' /\ Wave'
  BY <1>1, <1>3, <1>4 DEF IInv, Other, Result, Wave, Running, Exited,
                          ClientOutcome
<1> QED  BY <1>5, <1>6, <1>7, <1>8 DEF IInv

\* An exchange between the two changes nothing the runner sees.
LEMMA StutterStep == ASSUME IInv, ClientServed \/ UNCHANGED vars PROVE IInv'
<1>1. UNCHANGED <<pc, launched, proc, sent, deaf, qfile, waveform, client_rc,
                  target, level, outcome>>
  BY DEF ClientServed, vars, locals
<1>2. served' \in BOOLEAN
  BY Zenon DEF ClientServed, vars, IInv, TypeOK
<1>3. TypeOK'
  BY <1>1, <1>2 DEF IInv, TypeOK, LaunchOrder, StopSignals
<1>4. Started' /\ Signalled' /\ Killed'
  BY <1>1 DEF IInv, Started, Signalled, Killed
<1>5. Other' /\ Result' /\ Wave'
  BY <1>1 DEF IInv, Other, Result, Wave, Running, Exited, ClientOutcome
<1> QED  BY <1>3, <1>4, <1>5 DEF IInv

-----------------------------------------------------------------------------
\* The invariant of run_cosim's launch, wait and stop.
THEOREM RunInvariant == Spec => []IInv
<1>1. Init => IInv
  BY InitHolds
<1>2. IInv /\ [Next]_vars => IInv'
  <2> SUFFICES ASSUME IInv, [Next]_vars PROVE IInv'
    OBVIOUS
  <2>1. CASE Runner
    BY <2>1, LaunchStep, LaunchRaisesStep, PollStep, StopCalled, StopTurnStep,
       StopEndsStep, StopExpiresStep DEF Runner
  <2>2. CASE SimOpensWaveform \/ SimDies
    BY <2>2, SimOpensWaveformStep, SimDiesStep
  <2>3. CASE Client \/ ClientFails
    BY <2>3, ClientOpensQueuesStep, StutterStep, ClientEndsStep DEF Client
  <2>4. CASE \E p \in Procs : Reaction(p)
    BY <2>4, ReactsStep DEF Reaction, Signals
  <2>5. CASE UNCHANGED vars
    BY <2>5, StutterStep
  <2> QED  BY <2>1, <2>2, <2>3, <2>4, <2>5 DEF Next
<1> QED  BY <1>1, <1>2, PTL DEF Spec

\* TypeOK, with and without a waveform.
THEOREM RunTypes == Spec => []TypeOK
<1>1. IInv => TypeOK
  BY DEF IInv
<1> QED  BY <1>1, RunInvariant, PTL

\* NoOrphans: _wait leaves no process behind, however it ends.
THEOREM NobodyIsLeft == Spec => []NoOrphans
<1>1. IInv => NoOrphans
  <2> SUFFICES ASSUME IInv, pc = "done", outcome # "raised", NEW p \in Procs
               PROVE  Exited(p)
    BY DEF NoOrphans
  <2>1. outcome \in {"ok", "client", "sim"}
    BY DEF IInv, TypeOK, Result
  <2> QED  BY <2>1 DEF IInv, Result, Procs
<1> QED  BY <1>1, RunInvariant, PTL

\* OutcomeIsEarned: no outcome is the work of run_cosim's own signals.
THEOREM OutcomeAlwaysEarned == Spec => []OutcomeIsEarned
<1>1. IInv => OutcomeIsEarned
  <2> SUFFICES ASSUME IInv PROVE OutcomeIsEarned
    OBVIOUS
  <2>1. ASSUME outcome \in {"ok", "client"}
        PROVE  /\ sent["client"] = {} /\ client_rc = proc["client"].rc
               /\ proc["client"].rc \in {"0", "nonzero"}
               /\ outcome = ClientOutcome
    <3>1. "client" \in Procs /\ target = "sim" /\ client_rc = proc["client"].rc
          /\ outcome = ClientOutcome
      BY <2>1 DEF IInv, Result, Procs
    <3>2. sent["client"] = {}
      BY <3>1 DEF IInv, Signalled
    <3>3. proc["client"].rc \in Codes /\ proc["client"].rc \notin Signals
      BY <3>1, <3>2, ProcTypes DEF IInv, Killed
    <3> QED  BY <3>1, <3>2, <3>3 DEF Codes, Signals
  <2>2. outcome = "sim" => Exited("sim") /\ sent["sim"] = {}
    BY DEF IInv, Result, Signalled, Procs
  <2> QED  BY <2>1, <2>2 DEF OutcomeIsEarned, ClientOutcome
<1> QED  BY <1>1, RunInvariant, PTL

\* WaveformUsable: a simulator that is stopped by SIGINT closes its file.
THEOREM WaveformAlwaysUsable == Spec => []WaveformUsable
<1>1. IInv => WaveformUsable
  <2> SUFFICES ASSUME IInv, trace, outcome \in {"ok", "client"},
                      "sim" \notin deaf, proc["sim"].rc # "nonzero"
               PROVE  waveform \in {"none", "closed"}
    BY DEF WaveformUsable
  <2>1. Exited("sim") /\ launched = 2 /\ "sim" \in Procs
    BY DEF IInv, Result, Started, Procs
  <2>2. sent["sim"] \subseteq {"SIGINT"}
    BY <2>1 DEF IInv, Signalled
  <2>3. proc["sim"].rc \notin {"SIGTERM", "SIGKILL"}
    BY <2>1, <2>2 DEF IInv, Killed, Signals
  <2>4. waveform \in {"none", "stale", "open", "closed", "torn"}
    BY DEF IInv, TypeOK
  <2> QED  BY <2>1, <2>3, <2>4 DEF IInv, Wave
<1> QED  BY <1>1, RunInvariant, PTL

\* ClientOnLiveQueue: the client maps the queue files of its simulator.
THEOREM ClientAlwaysOnLiveQueue == Spec => []ClientOnLiveQueue
<1>1. IInv => ClientOnLiveQueue
  BY DEF IInv, Started, ClientOnLiveQueue
<1> QED  BY <1>1, RunInvariant, PTL
-----------------------------------------------------------------------------
(***************************************************************************)
(* _stop goes through its signals in order: its target has been sent those *)
(* it has tried and no other, and more than one only if it ignores them.   *)
(***************************************************************************)
Tried(n) == {StopSignals[i] : i \in 1 .. n}

Escalation ==
  /\ sent[target] = Tried(level)
  /\ pc = "reap" => level = 3
  /\ level >= 2 => target \in deaf

\* What has been tried after one more signal, and after none.
LEMMA TriedOneMore ==
  /\ Tried(0) = {}
  /\ \A n \in Nat : Tried(n + 1) = Tried(n) \cup {StopSignals[n + 1]}
<1>1. Tried(0) = {}
  BY DEF Tried
<1>2. ASSUME NEW n \in Nat
      PROVE  Tried(n + 1) = Tried(n) \cup {StopSignals[n + 1]}
  <2>1. 1 .. n + 1 = (1 .. n) \cup {n + 1}
    OBVIOUS
  <2> QED  BY <2>1 DEF Tried
<1> QED  BY <1>1, <1>2

\* _wait calls _stop for a process that has been sent nothing.
LEMMA EscalationStarts ==
  ASSUME IInv, GraceExpires \/ (PollClient /\ Exited("client"))
  PROVE  Escalation'
<1>1. /\ pc \in Waiting /\ pc' = "stop" /\ level' = 0 /\ sent' = sent
      /\ target' \in Procs
  BY DEF GraceExpires, PollClient, Stop, Waiting, Procs
<1>2. sent'[target'] = {}
  BY <1>1 DEF IInv, Signalled
<1> QED  BY <1>1, <1>2, TriedOneMore DEF Escalation

\* One turn sends the next signal, or ends the loop after the third.
LEMMA EscalationGoesOn ==
  ASSUME IInv, Escalation, StopTurn
  PROVE  Escalation'
<1>1. pc = "stop" /\ UNCHANGED <<deaf, target>>
  BY DEF StopTurn
<1>2. level \in 0 .. 3 /\ target \in Procs /\ Len(StopSignals) = 3
  BY DEF IInv, TypeOK, StopSignals
<1>3. CASE level = 3 /\ pc' = "reap" /\ UNCHANGED <<sent, level>>
  BY <1>1, <1>3 DEF Escalation
<1>4. CASE AfterStop
  BY <1>1, <1>4 DEF Escalation, AfterStop
<1>5. CASE /\ level < 3 /\ level' = level + 1 /\ pc' = "stop_wait"
           /\ sent' = [sent EXCEPT ![target] = @ \cup {StopSignals[level']}]
  <2>1. sent'[target] = sent[target] \cup {StopSignals[level + 1]}
    BY <1>2, <1>5, ProcTypes DEF IInv
  <2>2. sent'[target'] = Tried(level')
    BY <1>1, <1>2, <1>5, <2>1, TriedOneMore DEF Escalation
  <2>3. level = 0 \/ target \in deaf
    BY <1>1 DEF IInv, Signalled
  <2>4. level' >= 2 => target' \in deaf'
    BY <1>1, <1>2, <1>5, <2>3
  <2> QED  BY <1>5, <2>2, <2>4 DEF Escalation
<1> QED  BY <1>2, <1>3, <1>4, <1>5 DEF StopTurn

\* Every other step leaves the signals and the loop alone.
LEMMA EscalationKept ==
  ASSUME Escalation, UNCHANGED <<sent, deaf, target, level>>,
         pc' = "reap" => pc = "reap"
  PROVE  Escalation'
BY DEF Escalation, Tried

\* The signals escalate in order on every run.
THEOREM SignalsEscalate == Spec => []Escalation
<1>1. Init => Escalation
  <2> SUFFICES ASSUME Init PROVE Escalation
    OBVIOUS
  <2>1. pc = "launch" /\ level = 0 /\ target \in Procs /\ sent[target] = {}
    BY DEF Init, Procs
  <2> QED  BY <2>1, TriedOneMore DEF Escalation
<1>2. IInv /\ Escalation /\ [Next]_vars => Escalation'
  <2> SUFFICES ASSUME IInv, Escalation, [Next]_vars PROVE Escalation'
    OBVIOUS
  <2>1. CASE Launch \/ LaunchRaises \/ PollSim \/ GraceEnds \/ StopExpires
    BY <2>1, EscalationKept
    DEF Launch, LaunchRaises, PollSim, GraceEnds, StopExpires, locals
  <2>2. CASE PollClient /\ ~Exited("client")
    BY <2>2, EscalationKept DEF PollClient, locals
  <2>3. CASE GraceExpires \/ (PollClient /\ Exited("client"))
    BY <2>3, EscalationStarts
  <2>4. CASE StopTurn
    BY <2>4, EscalationGoesOn
  <2>5. CASE StopEnds
    BY <2>5, EscalationKept DEF StopEnds, AfterStop
  <2>6. CASE \/ SimOpensWaveform \/ SimDies \/ Client \/ ClientFails
             \/ \E p \in Procs : Reaction(p)
    BY <2>6, EscalationKept
    DEF SimOpensWaveform, SimDies, Client, ClientOpensQueues, ClientServed,
        ClientSucceeds, ClientFails, Reaction, Reacts, locals
  <2>7. CASE UNCHANGED vars
    BY <2>7, EscalationKept DEF vars, locals
  <2> QED  BY <2>1, <2>2, <2>3, <2>4, <2>5, <2>6, <2>7 DEF Next, Runner
<1> QED  BY <1>1, <1>2, RunInvariant, PTL DEF Spec

\* KillIsLastResort: the wait without a timeout is for a killed process.
THEOREM KillAlwaysLastResort == Spec => []KillIsLastResort
<1>1. IInv /\ Escalation => KillIsLastResort
  <2> SUFFICES ASSUME IInv, Escalation PROVE KillIsLastResort
    OBVIOUS
  <2>1. /\ level \in 0 .. 3 /\ target \in Procs
        /\ StopSignals[1] = "SIGINT" /\ StopSignals[2] = "SIGTERM"
        /\ StopSignals[3] = "SIGKILL"
    BY DEF IInv, TypeOK, StopSignals
  <2>2. \A sig : sig \in sent[target] <=> \E i \in 1 .. level : sig = StopSignals[i]
    BY DEF Escalation, Tried
  <2>3. pc = "reap" => "SIGKILL" \in sent[target]
    BY <2>1, <2>2 DEF Escalation
  <2>4. ASSUME NEW p \in Procs, "SIGKILL" \in sent[p]
        PROVE  {"SIGINT", "SIGTERM"} \subseteq sent[p] /\ p \in deaf
    <3>1. p = target
      BY <2>4 DEF IInv, Signalled
    <3>2. level = 3
      <4>1. PICK i \in 1 .. level : "SIGKILL" = StopSignals[i]
        BY <2>2, <2>4, <3>1
      <4>2. i \in {1, 2, 3} /\ i <= level
        BY <2>1, <4>1
      <4>3. i = 3
        BY <2>1, <4>1, <4>2
      <4> QED  BY <2>1, <4>2, <4>3
    <3> QED  BY <2>1, <2>2, <3>1, <3>2 DEF Escalation
  <2> QED  BY <2>3, <2>4 DEF KillIsLastResort
<1> QED  BY <1>1, RunInvariant, SignalsEscalate, PTL
=============================================================================
