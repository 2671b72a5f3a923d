------------------------------ MODULE SmokeRunner ------------------------------
(***************************************************************************)
(* tools/qemu-runner: build the image, start QEMU, watch the serial log    *)
(* for a marker until a deadline, stop QEMU and say how it went.  QEMU is  *)
(* a process of its own: it opens the log some time after it was started,  *)
(* runs the boot of Boot.tla, and may end at any moment.                   *)
(***************************************************************************)
EXTENDS Boot

CONSTANT
  Deadline  \* SMOKE_TIMEOUT, in ticks of the clock

ASSUME SmokeRunnerAssumption == Deadline \in Nat

VARIABLES
  mode,     \* "smoke", "exception" or "interactive"
  step,     \* what the runner does next
  left,     \* ticks until the deadline
  qemu,     \* the child: "none", "started", "running", "killed", "exited", "reaped"
  verdict   \* the exit code

runner == <<mode, step, left, qemu, verdict>>
vars == <<guest, log, runner>>

(* A log of the time before, with the marker of either mode.               *)
Stale == {Line("booted", 0, 0), Line("exception", 0, 0)}

Init ==
  /\ BootInit
  /\ log \in {<<>>} \cup Stale
  /\ mode \in {"smoke", "exception", "interactive"}
  /\ step = "build"
  /\ left = Deadline
  /\ qemu = "none"
  /\ verdict = "none"

Then(s) == step' = s

Exit(v) == step' = "done" /\ verdict' = v

-----------------------------------------------------------------------------
(* main                                                                    *)

Build ==
  /\ step = "build"
  /\ \/ Exit("FAILURE")
     \/ Then(IF mode = "interactive" THEN "launch" ELSE "clear") /\ UNCHANGED verdict
  /\ UNCHANGED <<guest, log, mode, left, qemu>>

Launch ==
  /\ step = "launch"
  /\ \/ Exit("FAILURE") /\ UNCHANGED qemu
     \/ Then("status") /\ qemu' = "started" /\ UNCHANGED verdict
  /\ UNCHANGED <<guest, log, mode, left>>

(* command.status waits without a deadline.                                *)
Status ==
  /\ step = "status"
  /\ qemu = "exited"
  /\ qemu' = "reaped"
  /\ Exit("SUCCESS") \/ Exit("FAILURE")
  /\ UNCHANGED <<guest, log, mode, left>>

-----------------------------------------------------------------------------
(* run_smoke                                                               *)

(* Mutant: the log of the last time is left there.                         *)
Cleared_Kept(l) == l

Cleared(l) == <<>>

ClearLog ==
  /\ step = "clear"
  /\ \/ Exit("FAILURE") /\ log' \in {log, <<>>}
     \/ Then("spawn") /\ log' = Cleared(log) /\ UNCHANGED verdict
  /\ UNCHANGED <<guest, mode, left, qemu>>

Spawn ==
  /\ step = "spawn"
  /\ \/ Exit("FAILURE") /\ UNCHANGED <<qemu, left>>
     \/ Then("deadline") /\ qemu' = "started" /\ left' = Deadline /\ UNCHANGED verdict
  /\ UNCHANGED <<guest, log, mode>>

(* Mutant: the clock is not looked at.                                     *)
TimedOut_Never == FALSE

TimedOut == left = 0

CheckDeadline ==
  /\ step = "deadline"
  /\ Then(IF TimedOut THEN "give up" ELSE "try_wait")
  /\ UNCHANGED <<guest, log, mode, left, qemu, verdict>>

(* An exit that try_wait reports ends it, whatever the log says.  An error *)
(* of try_wait counts as no exit.                                          *)
TryWait ==
  /\ step = "try_wait"
  /\ \/ qemu = "exited" /\ qemu' = "reaped" /\ Exit("FAILURE")
     \/ Then("look") /\ UNCHANGED <<qemu, verdict>>
  /\ UNCHANGED <<guest, log, mode, left>>

Marker == IF mode = "exception" THEN "exception" ELSE "booted"

LogContains ==
  \E n \in 1 .. Len(log) - 1 :
    /\ log[n].line = Marker /\ log[n].half = "head"
    /\ log[n + 1] = [log[n] EXCEPT !.half = "tail"]

(* A log that cannot be read counts as one without the marker.             *)
Look ==
  /\ step = "look"
  /\ \/ LogContains /\ Then("found")
     \/ Then("sleep")
  /\ UNCHANGED <<guest, log, mode, left, qemu, verdict>>

Sleep ==
  /\ step = "sleep"
  /\ Then("deadline")
  /\ UNCHANGED <<guest, log, mode, left, qemu, verdict>>

(* Mutant: a run that timed out leaves QEMU alone.                         *)
Kill_FoundOnly ==
  /\ \/ /\ step = "found"
        /\ qemu' = IF qemu \in {"started", "running"} THEN "killed" ELSE qemu
        /\ Then("wait, found")
        /\ UNCHANGED verdict
     \/ /\ step = "give up"
        /\ Exit("FAILURE")
        /\ UNCHANGED qemu
  /\ UNCHANGED <<guest, log, mode, left>>

(* stop_qemu: kill, and wait for the child to be gone.                     *)
Kill ==
  /\ step \in {"found", "give up"}
  /\ qemu' = IF qemu \in {"started", "running"} THEN "killed" ELSE qemu
  /\ Then(IF step = "found" THEN "wait, found" ELSE "wait, timed out")
  /\ UNCHANGED <<guest, log, mode, left, verdict>>

Wait ==
  /\ step \in {"wait, found", "wait, timed out"}
  /\ qemu = "exited"
  /\ qemu' = "reaped"
  /\ Exit(IF step = "wait, found" THEN "SUCCESS" ELSE "FAILURE")
  /\ UNCHANGED <<guest, log, mode, left>>

RunnerStep ==
  \/ Build \/ Launch \/ Status
  \/ ClearLog \/ Spawn
  \/ CheckDeadline \/ TryWait \/ Look \/ Sleep
  \/ Kill \/ Wait

-----------------------------------------------------------------------------
(* External: the clock, and QEMU.                                          *)

Tick ==
  /\ left > 0 /\ step # "done"
  /\ left' = left - 1
  /\ UNCHANGED <<guest, log, mode, step, qemu, verdict>>

(* The chardev of a smoke run opens the log anew.                          *)
QemuOpens ==
  /\ qemu = "started"
  /\ qemu' = "running"
  /\ log' = IF mode = "interactive" THEN log ELSE <<>>
  /\ UNCHANGED <<guest, mode, step, left, verdict>>

QemuDies ==
  /\ qemu = "killed"
  /\ qemu' = "exited"
  /\ UNCHANGED <<guest, log, mode, step, left, verdict>>

QemuExits ==
  /\ qemu \in {"started", "running"}
  /\ qemu' = "exited"
  /\ UNCHANGED <<guest, log, mode, step, left, verdict>>

GuestStep(c) ==
  qemu = "running" /\ CpuStep(c, mode = "exception") /\ UNCHANGED runner

GuestFault(c) == qemu = "running" /\ CpuFault(c) /\ UNCHANGED runner

UartSends == qemu = "running" /\ Drain /\ UNCHANGED runner

Next ==
  \/ RunnerStep
  \/ Tick
  \/ QemuOpens \/ QemuDies \/ QemuExits
  \/ \E c \in Cpus : GuestStep(c) \/ GuestFault(c)
  \/ UartSends

(* The runner and the CPUs are not stopped by anyone, the clock runs, the  *)
(* UART sends what it holds, and a process that was killed ends.  QEMU is  *)
(* not promised to open the log, or to run on.                             *)
Fairness ==
  /\ WF_vars(RunnerStep)
  /\ WF_vars(Tick)
  /\ WF_vars(QemuDies)
  /\ \A c \in Cpus : WF_vars(GuestStep(c))
  /\ WF_vars(UartSends)

Spec == Init /\ [][Next]_vars /\ Fairness

-----------------------------------------------------------------------------

(* SUCCESS is about this boot: its native smoke passed, or it took an      *)
(* exception.  Nothing an earlier run left in the log can earn it.         *)
SuccessIsEarned ==
  verdict = "SUCCESS" =>
    /\ mode = "smoke" => passed
    /\ mode = "exception" => faults > 0

(* However the runner ends, it leaves no QEMU and no zombie behind.        *)
NoOrphan == verdict # "none" => qemu \in {"none", "reaped"}

(* A smoke run ends, whatever the guest and QEMU do.                       *)
RunnerAnswers == mode # "interactive" ~> verdict # "none"

(* A guest that is left alone comes to rest, and all it wrote to the UART  *)
(* is in the log: no spin on TXFF goes on for ever.                        *)
GuestSettles == qemu = "running" ~> qemu # "running" \/ Settled

=============================================================================
