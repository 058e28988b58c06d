------------------------------ MODULE Outputs -------------------------------
(***************************************************************************)
(* When a run writes checkpoints and outputs, stops, and goes on from a     *)
(* checkpoint (Simulate, CheckForOutput, ReadOuts, Checkpoint and Restart). *)
(*                                                                         *)
(* The user asks by files (STOP, CHECK) and signals (USR1, USR2), whose     *)
(* handlers run between any two steps of the program.  The program may die  *)
(* at any time, and be started again from any checkpoint that is complete.  *)
(*                                                                         *)
(* Time is in halves of dDelta.                                             *)
(***************************************************************************)
EXTENDS Integers, FiniteSets, FiniteSetsExt

CONSTANTS Params,     \* what the parameters may be: intervals, limit and output times
          nSteps,
          MaxAsks,    \* bound: requests of the user
          MaxCrashes  \* bound: deaths of the program

ASSUME OutputsAssumption ==
  /\ \A p \in Params :
       /\ p.CheckInterval \in Nat /\ p.OutInterval \in Nat /\ p.iWallRunTime \in Nat
       /\ \A e \in p.red : e.relative \in BOOLEAN /\ e.at \in Nat
  /\ nSteps \in Nat /\ MaxAsks \in Nat /\ MaxCrashes \in Nat

VARIABLES
  param,
  files,          \* which of STOP and CHECK are there
  chk,            \* checkpoints: their step, and are the particles in it
  outs,           \* times of the outputs
  pc, iStep,      \* of Simulate; iStep is of the loop's last turn
  iStartStep,     \* of this call of Simulate
  dOutTimes,      \* output times to come, without the sentinel
  bGlobalOutput, timeGlobalSignalTime,  \* set by the signals; of the time only whether it is set
  iStop, iCheck,  \* of CheckForOutput, then iStop of Simulate
  bDoCheckpoint, bDoOutput,
  asks, crashes,  \* counted
  age             \* of each request not served yet: turns of the loop that have ended since

decisions == <<iStop, iCheck, bDoCheckpoint, bDoOutput>>
bounds == <<asks, crashes>>
disk == <<files, chk, outs>>
vars == <<param, disk, pc, iStep, iStartStep, dOutTimes, bGlobalOutput, timeGlobalSignalTime, decisions, bounds, age>>

Request == {"STOP", "CHECK", "USR2"}
NotAsked == -1

dTime == 2 * iStep

\* Mutant: times that have passed are left out, as an output has been written for them.
ReadOuts_ToCome(t) ==
  {e \in {IF e.relative THEN t + 2 * e.at - 1 ELSE e.at : e \in param.red} : e > t}

\* The lines of the file, some of which count steps from the time that is passed.
ReadOuts(t) == {IF e.relative THEN t + 2 * e.at - 1 ELSE e.at : e \in param.red}

\* The call of Simulate for a new run
Init ==
  /\ param \in Params
  /\ files = {} /\ chk = {} /\ outs = {}
  /\ pc = "loop" /\ iStep = 0 /\ iStartStep = 0 /\ dOutTimes = ReadOuts(0)
  /\ bGlobalOutput = FALSE /\ timeGlobalSignalTime = FALSE
  /\ iStop = FALSE /\ iCheck = FALSE /\ bDoCheckpoint = FALSE /\ bDoOutput = FALSE
  /\ asks = 0 /\ crashes = 0
  /\ age = [r \in Request |-> NotAsked]

------------------------------------------------------------------------------
(* CheckForOutput *)

\* A turn of the loop: the particles have come to the end of the step.
TakeStep ==
  /\ pc = "loop" /\ iStep < nSteps /\ ~iStop
  /\ iStep' = iStep + 1 /\ pc' = "stopfile"
  /\ UNCHANGED <<param, disk, iStartStep, dOutTimes, bGlobalOutput, timeGlobalSignalTime, decisions, bounds, age>>

\* The files are looked for one after the other, and removed.
CheckForStop ==
  /\ pc = "stopfile" /\ pc' = "checkfile"
  /\ iStop' = ("STOP" \in files) /\ files' = files \ {"STOP"}
  /\ UNCHANGED <<param, chk, outs, iStep, iStartStep, dOutTimes, bGlobalOutput, timeGlobalSignalTime, iCheck,
                 bDoCheckpoint, bDoOutput, bounds, age>>

CheckForCheck ==
  /\ pc = "checkfile" /\ pc' = "limits"
  /\ iCheck' = ("CHECK" \in files) /\ files' = files \ {"CHECK"}
  /\ UNCHANGED <<param, chk, outs, iStep, iStartStep, dOutTimes, bGlobalOutput, timeGlobalSignalTime, iStop,
                 bDoCheckpoint, bDoOutput, bounds, age>>

\* Will the next step, likely half as long again as this one, end too late?  The limit of
\* the wall clock and the one that USR1 has set are asked for in the same way.
CheckLimits ==
  /\ pc = "limits" /\ pc' = "decideCheckpoint"
  /\ iStop' \in (IF param.iWallRunTime > 0 \/ timeGlobalSignalTime THEN {iStop, TRUE} ELSE {iStop})
  /\ UNCHANGED <<param, disk, iStep, iStartStep, dOutTimes, bGlobalOutput, timeGlobalSignalTime, iCheck,
                 bDoCheckpoint, bDoOutput, bounds, age>>

AtInterval(n) == n > 0 /\ (bGlobalOutput \/ iStop \/ iStep % n = 0)

DecideCheckpoint ==
  /\ pc = "decideCheckpoint"
  /\ pc' = IF iCheck \/ AtInterval(param.CheckInterval) THEN "checkpointDecided" ELSE "decideOutput"
  /\ UNCHANGED <<param, disk, iStep, iStartStep, dOutTimes, bGlobalOutput, timeGlobalSignalTime, decisions, bounds, age>>

\* A signal may have come since bGlobalOutput was read.
CheckpointDecided ==
  /\ pc = "checkpointDecided" /\ pc' = "decideOutput"
  /\ bGlobalOutput' = FALSE /\ bDoCheckpoint' = TRUE
  /\ UNCHANGED <<param, disk, iStep, iStartStep, dOutTimes, timeGlobalSignalTime, iStop, iCheck, bDoOutput, bounds, age>>

\* OutTime drops the times that have come.
DecideOutput ==
  LET came == {t \in dOutTimes : t <= dTime}
      last == param.OutInterval > 0 /\ iStep = nSteps
  IN  /\ pc = "decideOutput"
      /\ dOutTimes' = dOutTimes \ came
      /\ pc' = IF came # {} \/ AtInterval(param.OutInterval) \/ last THEN "outputDecided" ELSE "write"
      /\ UNCHANGED <<param, disk, iStep, iStartStep, bGlobalOutput, timeGlobalSignalTime, decisions, bounds, age>>

OutputDecided ==
  /\ pc = "outputDecided" /\ pc' = "write"
  /\ bGlobalOutput' = FALSE /\ bDoOutput' = TRUE
  /\ UNCHANGED <<param, disk, iStep, iStartStep, dOutTimes, timeGlobalSignalTime, iStop, iCheck, bDoCheckpoint, bounds, age>>

------------------------------------------------------------------------------
(* The end of a turn of the loop in Simulate *)

Served(requests) == [r \in Request |-> IF r \in requests THEN NotAsked ELSE age[r]]

\* Mutant: all checkpoints have the same name.
BuildCpName_One(step) == {c.iStep : c \in chk} \cup {step}

\* The checkpoints whose files a checkpoint of this step replaces: only its own.
BuildCpName(step) == {step}

\* Whether to stop goes with what is to be written.  A checkpoint is a script that the run
\* is to be started from, which is written first,
WriteScript ==
  /\ pc = "write" /\ bDoCheckpoint /\ pc' = "particles"
  /\ iStop' = (iStop /\ (bDoCheckpoint \/ bDoOutput))
  /\ chk' = {c \in chk : c.iStep \notin BuildCpName(iStep)} \cup {[iStep |-> iStep, particles |-> FALSE]}
  /\ age' = Served({"CHECK", "USR2"})
  /\ UNCHANGED <<param, files, outs, iStep, iStartStep, dOutTimes, bGlobalOutput, timeGlobalSignalTime, iCheck,
                 bDoCheckpoint, bDoOutput, bounds>>

\* Mutant: bGlobalOutput is cleared when the checkpoint has been written.
WriteParticles_Clears ==
  /\ pc = "particles" /\ pc' = "output"
  /\ chk' = {c \in chk : c.iStep # iStep} \cup {[iStep |-> iStep, particles |-> TRUE]}
  /\ bDoCheckpoint' = FALSE /\ bGlobalOutput' = FALSE
  /\ UNCHANGED <<param, files, outs, iStep, iStartStep, dOutTimes, timeGlobalSignalTime, iStop, iCheck,
                 bDoOutput, bounds, age>>

\* and the particles, by all threads.
WriteParticles ==
  /\ pc = "particles" /\ pc' = "output"
  /\ chk' = {c \in chk : c.iStep # iStep} \cup {[iStep |-> iStep, particles |-> TRUE]}
  /\ bDoCheckpoint' = FALSE
  /\ UNCHANGED <<param, files, outs, iStep, iStartStep, dOutTimes, bGlobalOutput, timeGlobalSignalTime, iStop, iCheck,
                 bDoOutput, bounds, age>>

NoCheckpoint ==
  /\ pc = "write" /\ ~bDoCheckpoint /\ pc' = "output"
  /\ iStop' = (iStop /\ bDoOutput)
  /\ UNCHANGED <<param, disk, iStep, iStartStep, dOutTimes, bGlobalOutput, timeGlobalSignalTime, iCheck,
                 bDoCheckpoint, bDoOutput, bounds, age>>

Output ==
  /\ pc = "output" /\ bDoOutput /\ pc' = "end"
  /\ outs' = outs \cup {dTime} /\ bDoOutput' = FALSE
  /\ age' = Served({"USR2"})
  /\ UNCHANGED <<param, files, chk, iStep, iStartStep, dOutTimes, bGlobalOutput, timeGlobalSignalTime, iStop, iCheck,
                 bDoCheckpoint, bounds>>

NoOutput ==
  /\ pc = "output" /\ ~bDoOutput /\ pc' = "end"
  /\ UNCHANGED <<param, disk, iStep, iStartStep, dOutTimes, bGlobalOutput, timeGlobalSignalTime, decisions, bounds, age>>

Older == [r \in Request |-> IF age[r] = NotAsked THEN NotAsked ELSE Min({age[r] + 1, 2})]

LoopEnd ==
  /\ pc = "end"
  /\ pc' = IF iStop THEN "stopped" ELSE IF iStep = nSteps THEN "done" ELSE "loop"
  /\ age' = IF iStop THEN [Older EXCEPT !["STOP"] = NotAsked] ELSE Older
  /\ UNCHANGED <<param, disk, iStep, iStartStep, dOutTimes, bGlobalOutput, timeGlobalSignalTime, decisions, bounds>>

\* A run from the checkpoint of the last step
NoSteps ==
  /\ pc = "loop" /\ iStep = nSteps /\ pc' = "done"
  /\ UNCHANGED <<param, disk, iStep, iStartStep, dOutTimes, bGlobalOutput, timeGlobalSignalTime, decisions, bounds, age>>

------------------------------------------------------------------------------
(* The user, and the end of the process *)

Running == pc \notin {"stopped", "done", "dead"}

Ask(r) ==
  /\ Running /\ asks < MaxAsks
  /\ asks' = asks + 1
  /\ age' = [age EXCEPT ![r] = IF @ = NotAsked THEN 0 ELSE @]

Touch(file) ==
  /\ Ask(file) /\ file \notin files
  /\ files' = files \cup {file}
  /\ UNCHANGED <<param, chk, outs, pc, iStep, iStartStep, dOutTimes, bGlobalOutput, timeGlobalSignalTime, decisions, crashes>>

USR2_handler ==
  /\ Ask("USR2") /\ ~bGlobalOutput
  /\ bGlobalOutput' = TRUE
  /\ UNCHANGED <<param, disk, pc, iStep, iStartStep, dOutTimes, timeGlobalSignalTime, decisions, crashes>>

USR1_handler ==
  /\ Running /\ asks < MaxAsks /\ ~timeGlobalSignalTime
  /\ asks' = asks + 1 /\ timeGlobalSignalTime' = TRUE
  /\ UNCHANGED <<param, disk, pc, iStep, iStartStep, dOutTimes, bGlobalOutput, decisions, crashes, age>>

\* What the process knows is gone, and a request with it unless its file is still there.
Forgotten ==
  /\ bGlobalOutput' = FALSE /\ timeGlobalSignalTime' = FALSE
  /\ iStop' = FALSE /\ iCheck' = FALSE /\ bDoCheckpoint' = FALSE /\ bDoOutput' = FALSE
  /\ age' = [r \in Request |-> IF r \in files THEN 0 ELSE NotAsked]

Crash ==
  /\ Running /\ crashes < MaxCrashes
  /\ crashes' = crashes + 1 /\ pc' = "dead"
  /\ Forgotten
  /\ UNCHANGED <<param, disk, iStep, iStartStep, dOutTimes, asks>>

\* From a checkpoint, or once more from the beginning
Restart ==
  /\ pc \in {"dead", "stopped"}
  /\ \E step \in {0} \cup {c.iStep : c \in {d \in chk : d.particles}} :
       /\ iStep' = step /\ iStartStep' = step
       /\ dOutTimes' = ReadOuts(2 * step)
  /\ pc' = "loop"
  /\ Forgotten
  /\ UNCHANGED <<param, disk, bounds>>

Ended == pc \in {"done", "stopped"} /\ UNCHANGED vars

Next ==
  \/ TakeStep \/ CheckForStop \/ CheckForCheck \/ CheckLimits \/ DecideCheckpoint \/ CheckpointDecided
  \/ DecideOutput \/ OutputDecided \/ WriteScript \/ WriteParticles \/ NoCheckpoint \/ Output \/ NoOutput
  \/ LoopEnd \/ NoSteps
  \/ Touch("STOP") \/ Touch("CHECK") \/ USR2_handler \/ USR1_handler \/ Crash \/ Restart \/ Ended

Spec == Init /\ [][Next]_vars
------------------------------------------------------------------------------
(* Properties *)

\* An output time that has passed has an output at or after it, whenever the program died
\* and whichever checkpoint it was started from: reading the passed times again may give an
\* output too many, but a process that died between a step's checkpoint and its output
\* would have none.  Not so if no step is left to take: then nothing more is written.
OutTimesServed ==
  pc \in {"loop", "stopped", "done"} /\ iStep > iStartStep =>
    \A e \in param.red : ~e.relative /\ e.at <= dTime => \E t \in outs : t >= e.at

SomeInterval == param.CheckInterval > 0 \/ param.OutInterval > 0

\* What the user asks for is done at the end of the step in which, or after which, it is
\* asked for.  A signal may come at any moment of the decision: it is not lost when
\* bGlobalOutput is cleared, as something is written after it.
RequestsServed ==
  /\ age["CHECK"] <= 1
  /\ SomeInterval => age["STOP"] <= 1 /\ age["USR2"] <= 1

Complete == {c.iStep : c \in {d \in chk : d.particles}}

\* No step is ever lost that a run has been started from, though a checkpoint of a step that
\* is done again is replaced, first its script and then its particles; and a run that
\* was stopped goes on where it stopped, if it writes checkpoints.
CanRestart ==
  /\ iStartStep > 0 => \E step \in Complete : step >= iStartStep
  /\ pc = "stopped" /\ param.CheckInterval > 0 => iStep \in Complete
=============================================================================
