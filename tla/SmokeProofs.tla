------------------------------ MODULE SmokeProofs ------------------------------
(***************************************************************************)
(* Proofs about SmokeRunner.tla, for any number of CPUs, any size of the   *)
(* UART's FIFO, any number of faults and any deadline: the runner leaves   *)
(* no QEMU behind, SUCCESS is earned, no line of the output is torn but by *)
(* an exception report, and a report shows its own registers.              *)
(***************************************************************************)
EXTENDS SmokeRunner, SequenceTheorems, TLAPS

Lines == {"booted", "panic", "allocation failed", "exception", "registers"}

Halves == [line : Lines, half : {"head", "tail"}, of : Nat, shown : Nat]

Types ==
  /\ pc = [c \in Cpus |-> pc[c]]
  /\ text \in [Cpus -> Seq(Halves)]
  /\ own \in [Cpus -> Nat]
  /\ uart \in [enabled : BOOLEAN, fifo : Seq(Halves)]
  /\ area \in Nat
  /\ faults \in Nat
  /\ passed \in BOOLEAN
  /\ log \in Seq(Halves)
  /\ mode \in {"smoke", "exception", "interactive"}

(* Before the child is started there is none, and a verdict is the end.    *)
ChildFollows ==
  /\ step \in {"build", "launch", "clear", "spawn"} => qemu = "none"
  /\ verdict # "none" => step = "done"
  /\ NoOrphan

(* A CPU that handles an exception had one, and printing never sends a CPU *)
(* to the handler.                                                         *)
Handling ==
  /\ after \in [Cpus -> {"trigger", "wait_forever"}]
  /\ \A c \in Cpus : pc[c] \in {"exception_entry", "exception_handler"} => faults > 0

(* What a line says has happened in this boot, in a state where the smoke  *)
(* has passed or not and there have been some exceptions.                  *)
Holds(line, done, raised) ==
  /\ line = "booted" => done
  /\ line = "exception" => raised > 0

AllHold(seq, done, raised) ==
  \A n \in DOMAIN seq : Holds(seq[n].line, done, raised)

(* What a CPU has to print, or has written to the UART, is true.           *)
TextsHold ==
  /\ \A c \in Cpus : AllHold(text[c], passed, faults)
  /\ AllHold(uart.fifo, passed, faults)

(* So is the log of a smoke run from the moment it was cleared, the marker *)
(* the runner has found, and its answer.                                   *)
Watching ==
  {"spawn", "deadline", "try_wait", "look", "sleep",
   "found", "give up", "wait, found", "wait, timed out"}

AnswerIsTrue ==
  /\ step \in Watching => AllHold(log, passed, faults)
  /\ step \in {"clear"} \cup Watching => mode # "interactive"
  /\ step \in {"launch", "status"} => mode = "interactive"
  /\ step \in {"found", "wait, found"} => Holds(Marker, passed, faults)
  /\ SuccessIsEarned

Invariant == Types /\ Handling /\ TextsHold /\ AnswerIsTrue

-----------------------------------------------------------------------------

(* What is printed as one line is two halves that say the same.            *)
LEMMA LineHalves ==
  ASSUME NEW line \in Lines, NEW of \in Nat, NEW shown \in Nat
  PROVE  /\ Line(line, of, shown) \in Seq(Halves)
         /\ \A n \in DOMAIN Line(line, of, shown) :
              Line(line, of, shown)[n].line = line
BY DEF Line, Half, Halves

(* Before the runner is started nothing has been printed in this boot; the *)
(* log may be of another.                                                  *)
LEMMA InvariantInit == Init => Invariant
<1> SUFFICES ASSUME Init PROVE Invariant
  OBVIOUS
<1>1. Types
  <2>1. Stale \subseteq Seq(Halves)
    <3>1. \A line \in Lines : Line(line, 0, 0) \in Seq(Halves)
      BY LineHalves
    <3>2. "booted" \in Lines /\ "exception" \in Lines
      BY DEF Lines
    <3> QED
      BY <3>1, <3>2 DEF Stale
  <2>2. log \in Seq(Halves)
    <3>1. CASE log = <<>>
      BY <3>1
    <3>2. CASE log \in Stale
      BY <3>2, <2>1
    <3>3. QED
      BY <3>1, <3>2 DEF Init
  <2>3. /\ pc = [c \in Cpus |-> pc[c]]
        /\ text \in [Cpus -> Seq(Halves)]
        /\ own \in [Cpus -> Nat]
    <3>1. pc = [c \in Cpus |-> pc[c]]
      BY DEF Init, BootInit
    <3>2. text \in [Cpus -> Seq(Halves)]
      <4>1. <<>> \in Seq(Halves)
        OBVIOUS
      <4>2. QED
        BY <4>1, Zenon DEF Init, BootInit
    <3>3. own \in [Cpus -> Nat]
      BY DEF Init, BootInit
    <3>4. QED
      BY <3>1, <3>2, <3>3
  <2>4. uart \in [enabled : BOOLEAN, fifo : Seq(Halves)]
    BY DEF Init, BootInit
  <2>5. area \in Nat /\ faults \in Nat /\ passed \in BOOLEAN
        /\ mode \in {"smoke", "exception", "interactive"}
    BY DEF Init, BootInit
  <2>6. QED
    BY <2>2, <2>3, <2>4, <2>5 DEF Types
<1>2. Handling
  BY DEF Init, BootInit, Handling
<1>3. TextsHold
  BY DEF Init, BootInit, TextsHold, AllHold
<1>4. AnswerIsTrue
  BY DEF Init, AnswerIsTrue, Watching, SuccessIsEarned
<1>5. QED
  BY <1>1, <1>2, <1>3, <1>4 DEF Invariant

-----------------------------------------------------------------------------
(* The child of the runner.                                                *)

(* No step of the runner or of QEMU forgets the child.                     *)
LEMMA ChildStep == ChildFollows /\ [Next]_vars => ChildFollows'
<1> SUFFICES ASSUME ChildFollows, [Next]_vars PROVE ChildFollows'
  OBVIOUS
<1> USE DEF ChildFollows, NoOrphan
<1>1. CASE RunnerStep
  <2>1. CASE Build \/ Launch \/ Status
    BY <2>1 DEF Build, Launch, Status, Exit, Then
  <2>2. CASE ClearLog \/ Spawn
    BY <2>2 DEF ClearLog, Spawn, Exit, Then
  <2>3. CASE CheckDeadline \/ TryWait
    BY <2>3 DEF CheckDeadline, TryWait, Exit, Then
  <2>4. CASE Look \/ Sleep
    BY <2>4 DEF Look, Sleep, Then
  <2>5. CASE Kill \/ Wait
    BY <2>5 DEF Kill, Wait, Exit, Then
  <2>6. QED
    BY <1>1, <2>1, <2>2, <2>3, <2>4, <2>5 DEF RunnerStep
<1>2. CASE Tick \/ QemuOpens \/ QemuDies \/ QemuExits
  BY <1>2 DEF Tick, QemuOpens, QemuDies, QemuExits
<1>3. CASE UNCHANGED runner
  BY <1>3 DEF runner
<1>4. QED
  BY <1>1, <1>2, <1>3 DEF Next, GuestStep, GuestFault, UartSends, vars, runner

(* However the runner ends - main.rs returns, run_smoke found the marker,  *)
(* gave up, or QEMU ended by itself - the child has been waited for.       *)
THEOREM NoOrphanHolds == Spec => []NoOrphan
<1>1. Init => ChildFollows
  BY DEF Init, ChildFollows, NoOrphan
<1>2. ChildFollows /\ [Next]_vars => ChildFollows'
  BY ChildStep
<1>3. ChildFollows => NoOrphan
  BY DEF ChildFollows
<1>4. QED
  BY <1>1, <1>2, <1>3, PTL DEF Spec

-----------------------------------------------------------------------------
(* What the guest does.                                                    *)

(* A CPU that begins to print has whole lines before it.                   *)
LEMMA SayTypes ==
  ASSUME Types, NEW c \in Cpus, NEW lines \in Seq(Halves), NEW to, Say(c, lines, to)
  PROVE  /\ pc' = [d \in Cpus |-> pc'[d]]
         /\ text' \in [Cpus -> Seq(Halves)]
BY DEF Types, Say, Go

(* A report is a line that names the exception and one with registers.     *)
LEMMA ReportLines ==
  ASSUME NEW of \in Nat, NEW shown \in Nat
  PROVE  /\ Line("exception", of, of) \o Line("registers", of, shown) \in Seq(Halves)
         /\ \A n \in DOMAIN (Line("exception", of, of) \o Line("registers", of, shown)) :
              (Line("exception", of, of) \o Line("registers", of, shown))[n].line
                \in {"exception", "registers"}
<1> DEFINE a == Line("exception", of, of)
           b == Line("registers", of, shown)
<1>1. /\ a \in Seq(Halves) /\ \A n \in DOMAIN a : a[n].line = "exception"
      /\ b \in Seq(Halves) /\ \A n \in DOMAIN b : b[n].line = "registers"
  <2>1. "exception" \in Lines /\ "registers" \in Lines
    BY DEF Lines
  <2>2. a \in Seq(Halves) /\ \A n \in DOMAIN a : a[n].line = "exception"
    BY <2>1, LineHalves
  <2>3. b \in Seq(Halves) /\ \A n \in DOMAIN b : b[n].line = "registers"
    BY <2>1, LineHalves
  <2>4. QED
    BY <2>2, <2>3
<1> HIDE DEF a, b
<1>2. a \o b \in Seq(Halves)
  BY <1>1
<1>3. \A n \in DOMAIN (a \o b) : (a \o b)[n].line \in {"exception", "registers"}
  BY <1>1
<1>4. QED
  BY <1>2, <1>3 DEF a, b

(* An exception is counted and numbered, and nothing is printed yet.       *)
LEMMA RaiseTypes ==
  ASSUME Types, NEW c \in Cpus, Raise(c)
  PROVE  /\ pc' = [d \in Cpus |-> pc'[d]]
         /\ own' \in [Cpus -> Nat]
         /\ faults' \in Nat
         /\ text' = text /\ uart' = uart /\ area' = area
<1>1. pc' = [d \in Cpus |-> pc'[d]]
  BY DEF Types, Raise, Go
<1>2. faults + 1 \in Nat
  BY DEF Types
<1>3. own' \in [Cpus -> Nat] /\ faults' \in Nat
  BY <1>2 DEF Types, Raise
<1>4. text' = text /\ uart' = uart /\ area' = area
  BY DEF Raise
<1>5. QED
  BY <1>1, <1>3, <1>4

(* A smoke that passed is not taken back, and exceptions are counted       *)
(* upwards.                                                                *)
LEMMA GuestGrows ==
  ASSUME NEW c \in Cpus, NEW b, CpuStep(c, b) \/ CpuFault(c)
  PROVE  passed' \in {passed, TRUE} /\ faults' \in {faults, faults + 1}
<1>1. CASE Start(c) \/ InstallExceptionVector(c) \/ ClaimHeap(c) \/ InitHeap(c)
  BY <1>1 DEF Start, InstallExceptionVector, ClaimHeap, InitHeap
<1>2. CASE SmokePasses(c)
  BY <1>2 DEF SmokePasses
<1>3. CASE SmokePanics(c) \/ AllocationFails(c)
  BY <1>3 DEF SmokePanics, AllocationFails
<1>4. CASE ClaimConsole(c) \/ UartOff(c) \/ UartOn(c) \/ PutText(c) \/ Printed(c)
  BY <1>4 DEF ClaimConsole, UartOff, UartOn, PutText, Printed
<1>5. CASE Trigger(c, b) \/ SaveRegisters(c) \/ HandleException(c)
  BY <1>5 DEF Trigger, Raise, SaveRegisters, HandleException
<1>6. CASE Fault(c) \/ FaultUnguarded(c)
  BY <1>6 DEF Fault, Raise, FaultUnguarded
<1>7. QED
  BY <1>1, <1>2, <1>3, <1>4, <1>5, <1>6 DEF CpuStep, CpuFault

(* A CPU's step, early_println or handler, prints halves of lines only.    *)
LEMMA GuestTypes ==
  ASSUME Types, NEW c \in Cpus, NEW b, CpuStep(c, b) \/ CpuFault(c), mode' = mode
  PROVE  Types'
<1> USE DEF Types
<1>1. log' = log /\ passed' \in BOOLEAN
  <2>1. passed' \in {passed, TRUE}
    BY GuestGrows
  <2>2. QED
    BY <2>1 DEF CpuStep, CpuFault
<1>2. CASE Start(c) \/ InstallExceptionVector(c) \/ ClaimHeap(c) \/ InitHeap(c)
  BY <1>1, <1>2 DEF Start, InstallExceptionVector, ClaimHeap, InitHeap, Go
<1>3. CASE SmokePasses(c) \/ SmokePanics(c) \/ AllocationFails(c)
  <2>1. Line("booted", 0, 0) \in Seq(Halves)
    BY LineHalves DEF Lines
  <2>2. Line("panic", 0, 0) \in Seq(Halves)
    BY LineHalves DEF Lines
  <2>3. Line("allocation failed", 0, 0) \in Seq(Halves)
    BY LineHalves DEF Lines
  <2>4. QED
    BY <1>1, <1>3, <2>1, <2>2, <2>3, SayTypes DEF SmokePasses, SmokePanics, AllocationFails
<1>4. CASE ClaimConsole(c) \/ UartOff(c) \/ UartOn(c) \/ Printed(c)
  BY <1>1, <1>4 DEF ClaimConsole, UartOff, UartOn, Printed, Go
<1>5. CASE PutText(c)
  <2>1. Head(text[c]) \in Halves /\ Tail(text[c]) \in Seq(Halves)
    BY <1>5 DEF PutText
  <2>2. text' \in [Cpus -> Seq(Halves)]
    BY <1>5, <2>1 DEF PutText
  <2>3. uart' \in [enabled : BOOLEAN, fifo : Seq(Halves)]
    <3>1. Append(uart.fifo, Head(text[c])) \in Seq(Halves)
      BY <2>1
    <3>2. \/ uart' = [uart EXCEPT !.fifo = Append(@, Head(text[c]))]
          \/ uart' = uart
      BY <1>5 DEF PutText
    <3>3. QED
      BY <3>1, <3>2
  <2>4. QED
    BY <1>1, <1>5, <2>2, <2>3 DEF PutText
<1>6. CASE Trigger(c, b)
  <2>1. CASE Raise(c)
    BY <1>1, <2>1, RaiseTypes
  <2>2. CASE ~Raise(c)
    <3>1. pc' = [d \in Cpus |-> pc'[d]]
      BY <1>6, <2>2 DEF Trigger, Go
    <3>2. text' = text /\ own' = own /\ uart' = uart /\ area' = area /\ faults' = faults
      BY <1>6, <2>2 DEF Trigger
    <3>3. QED
      BY <1>1, <3>1, <3>2
  <2>3. QED
    BY <2>1, <2>2
<1>7. CASE SaveRegisters(c)
  BY <1>1, <1>7 DEF SaveRegisters, Go
<1>8. CASE HandleException(c)
  <2>1. own[c] \in Nat /\ area \in Nat
    OBVIOUS
  <2>2. Line("exception", own[c], own[c]) \o Line("registers", own[c], area) \in Seq(Halves)
    BY <2>1, ReportLines
  <2>3. QED
    BY <1>1, <1>8, <2>2, SayTypes DEF HandleException
<1>9. CASE Fault(c) \/ FaultUnguarded(c)
  <2>1. CASE Raise(c)
    BY <1>1, <2>1, RaiseTypes
  <2>2. CASE FaultUnguarded(c)
    <3>1. pc' = [d \in Cpus |-> pc'[d]]
      BY <2>2 DEF FaultUnguarded, Go
    <3>2. faults' \in Nat /\ text' = text /\ own' = own /\ uart' = uart /\ area' = area
      BY <2>2 DEF FaultUnguarded
    <3>3. QED
      BY <1>1, <3>1, <3>2
  <2>3. QED
    BY <1>9, <2>1, <2>2 DEF Fault
<1>10. QED
  BY <1>2, <1>3, <1>4, <1>5, <1>6, <1>7, <1>8, <1>9 DEF CpuStep, CpuFault

(* A step of the runner, the clock or QEMU leaves the guest alone, and what *)
(* it does to the log is to empty it.                                      *)
LEMMA HostLeavesGuest ==
  ASSUME RunnerStep \/ Tick \/ QemuOpens \/ QemuDies \/ QemuExits
  PROVE  guest' = guest /\ mode' = mode /\ log' \in {log, <<>>}
<1>1. CASE Build \/ Launch \/ Status
  BY <1>1 DEF Build, Launch, Status
<1>2. CASE ClearLog \/ Spawn
  BY <1>2 DEF ClearLog, Spawn, Cleared
<1>3. CASE CheckDeadline \/ TryWait \/ Look \/ Sleep
  BY <1>3 DEF CheckDeadline, TryWait, Look, Sleep
<1>4. CASE Kill \/ Wait
  BY <1>4 DEF Kill, Wait
<1>5. CASE Tick \/ QemuDies \/ QemuExits
  BY <1>5 DEF Tick, QemuDies, QemuExits
<1>6. CASE QemuOpens
  BY <1>6 DEF QemuOpens
<1>7. QED
  BY <1>1, <1>2, <1>3, <1>4, <1>5, <1>6 DEF RunnerStep

(* The UART sends the oldest half it holds, and the log grows by it.       *)
LEMMA DrainTypes ==
  ASSUME Types, Drain, mode' = mode
  PROVE  Types'
<1> USE DEF Types
<1>1. Head(uart.fifo) \in Halves /\ Tail(uart.fifo) \in Seq(Halves)
  BY DEF Drain
<1>2. log' \in Seq(Halves)
  BY <1>1 DEF Drain
<1>3. uart' \in [enabled : BOOLEAN, fifo : Seq(Halves)]
  <2>1. uart' = [uart EXCEPT !.fifo = Tail(uart.fifo)]
    BY DEF Drain
  <2>2. QED
    BY <1>1, <2>1
<1>4. QED
  BY <1>2, <1>3 DEF Drain, cpu

(* Runner, clock, QEMU, CPUs and UART all keep the types.                  *)
LEMMA TypesStep == Types /\ [Next]_vars => Types'
<1> SUFFICES ASSUME Types, [Next]_vars PROVE Types'
  OBVIOUS
<1>1. CASE RunnerStep \/ Tick \/ QemuOpens \/ QemuDies \/ QemuExits
  <2>1. guest' = guest /\ mode' = mode /\ log' \in {log, <<>>}
    BY <1>1, HostLeavesGuest
  <2>2. log' \in Seq(Halves)
    <3>1. CASE log' = log
      BY <3>1 DEF Types
    <3>2. CASE log' = <<>>
      BY <3>2
    <3>3. QED
      BY <2>1, <3>1, <3>2
  <2>3. QED
    BY <2>1, <2>2 DEF Types, guest, cpu
<1>2. CASE \E c \in Cpus : GuestStep(c) \/ GuestFault(c)
  BY <1>2, GuestTypes DEF GuestStep, GuestFault, runner
<1>3. CASE UartSends
  BY <1>3, DrainTypes DEF UartSends, runner
<1>4. CASE UNCHANGED vars
  BY <1>4 DEF Types, vars, guest, cpu, runner
<1>5. QED
  BY <1>1, <1>2, <1>3, <1>4 DEF Next

-----------------------------------------------------------------------------
(* What a line says.                                                       *)

(* What once held holds on: a smoke that has passed has passed.            *)
LEMMA HoldsGrows ==
  ASSUME NEW line, NEW p \in BOOLEAN, NEW q \in BOOLEAN, p => q,
         NEW f \in Nat, NEW g \in Nat, f <= g, Holds(line, p, f)
  PROVE  Holds(line, q, g)
BY DEF Holds

(* The same of a whole text, a UART or a log.                              *)
LEMMA AllHoldGrows ==
  ASSUME NEW seq, NEW p \in BOOLEAN, NEW q \in BOOLEAN, p => q,
         NEW f \in Nat, NEW g \in Nat, f <= g, AllHold(seq, p, f)
  PROVE  AllHold(seq, q, g)
BY HoldsGrows DEF AllHold

(* A line that is true is true in both halves.                             *)
LEMMA LineHolds ==
  ASSUME NEW line \in Lines, NEW p, NEW f, Holds(line, p, f)
  PROVE  AllHold(Line(line, 0, 0), p, f)
<1>1. \A n \in DOMAIN Line(line, 0, 0) : Line(line, 0, 0)[n].line = line
  BY DEF Line, Half
<1>2. QED
  BY <1>1 DEF AllHold

(* put_char takes the first half of what a CPU has to print, and the UART  *)
(* sends the first it holds.                                               *)
LEMMA AllHoldHead ==
  ASSUME NEW seq \in Seq(Halves), seq # <<>>, NEW p, NEW f, AllHold(seq, p, f)
  PROVE  /\ Head(seq) \in Halves /\ Tail(seq) \in Seq(Halves)
         /\ Holds(Head(seq).line, p, f)
         /\ AllHold(Tail(seq), p, f)
<1>1. Head(seq) \in Halves /\ Tail(seq) \in Seq(Halves)
  OBVIOUS
<1>2. Head(seq) = seq[1] /\ 1 \in DOMAIN seq
  OBVIOUS
<1>3. Holds(Head(seq).line, p, f)
  BY <1>2 DEF AllHold
<1>4. \A n \in DOMAIN Tail(seq) : n + 1 \in DOMAIN seq /\ Tail(seq)[n] = seq[n + 1]
  OBVIOUS
<1>5. AllHold(Tail(seq), p, f)
  BY <1>4 DEF AllHold
<1>6. QED
  BY <1>1, <1>3, <1>5

(* It is put behind what is there.                                         *)
LEMMA AllHoldAppend ==
  ASSUME NEW seq \in Seq(Halves), NEW half \in Halves, NEW p, NEW f,
         AllHold(seq, p, f), Holds(half.line, p, f)
  PROVE  AllHold(Append(seq, half), p, f)
<1>1. DOMAIN Append(seq, half) = 1 .. Len(seq) + 1 /\ DOMAIN seq = 1 .. Len(seq)
  OBVIOUS
<1>2. \A n \in DOMAIN seq : Append(seq, half)[n] = seq[n]
  OBVIOUS
<1>3. Append(seq, half)[Len(seq) + 1] = half
  OBVIOUS
<1>4. ASSUME NEW n \in DOMAIN Append(seq, half)
      PROVE  n \in DOMAIN seq \/ n = Len(seq) + 1
  BY <1>1
<1>5. QED
  BY <1>2, <1>3, <1>4 DEF AllHold

-----------------------------------------------------------------------------
(* The guest's steps, again.                                               *)

(* A CPU that is done printing goes on or waits.                           *)
LEMMA SayHandling ==
  ASSUME Types, Handling, NEW c \in Cpus, NEW lines, NEW to \in {"trigger", "wait_forever"},
         Say(c, lines, to), faults' = faults
  PROVE  Handling'
BY DEF Types, Handling, Say, Go

(* Only an exception brings a CPU to the entry stub and the handler.       *)
LEMMA GuestHandling ==
  ASSUME Types, Handling, NEW c \in Cpus, NEW b, CpuStep(c, b) \/ CpuFault(c)
  PROVE  Handling'
<1> USE DEF Types, Handling
<1>1. CASE Start(c) \/ InstallExceptionVector(c) \/ ClaimHeap(c) \/ InitHeap(c)
  BY <1>1 DEF Start, InstallExceptionVector, ClaimHeap, InitHeap, Go
<1>2. CASE SmokePasses(c) \/ SmokePanics(c) \/ AllocationFails(c)
  BY <1>2, SayHandling DEF SmokePasses, SmokePanics, AllocationFails
<1>3. CASE ClaimConsole(c) \/ UartOff(c) \/ UartOn(c) \/ PutText(c) \/ Printed(c)
  BY <1>3 DEF ClaimConsole, UartOff, UartOn, PutText, Printed, Go
<1>4. ASSUME Raise(c) PROVE Handling'
  BY <1>4 DEF Raise, Go
<1>5. CASE Trigger(c, b)
  BY <1>4, <1>5 DEF Trigger, Go
<1>6. CASE SaveRegisters(c)
  BY <1>6 DEF SaveRegisters, Go
<1>7. CASE HandleException(c)
  BY <1>7, SayHandling DEF HandleException
<1>8. CASE Fault(c) \/ FaultUnguarded(c)
  BY <1>4, <1>8 DEF Fault, FaultUnguarded, Go
<1>9. QED
  BY <1>1, <1>2, <1>3, <1>5, <1>6, <1>7, <1>8 DEF CpuStep, CpuFault

(* A CPU that begins to print a true text.                                 *)
LEMMA SayHolds ==
  ASSUME Types, Types', TextsHold, NEW c \in Cpus, NEW lines, NEW to, Say(c, lines, to),
         uart' = uart, passed => passed', faults <= faults',
         AllHold(lines, passed', faults')
  PROVE  TextsHold'
<1>1. text' = [text EXCEPT ![c] = lines] /\ text \in [Cpus -> Seq(Halves)]
  BY DEF Say, Types
<1>2. passed \in BOOLEAN /\ passed' \in BOOLEAN /\ faults \in Nat /\ faults' \in Nat
  BY DEF Types
<1>3. ASSUME NEW d \in Cpus PROVE AllHold(text'[d], passed', faults')
  <2>1. CASE d = c
    BY <1>1, <2>1
  <2>2. CASE d # c
    <3>1. text'[d] = text[d] /\ AllHold(text[d], passed, faults)
      BY <1>1, <2>2 DEF TextsHold
    <3>2. AllHold(text[d], passed', faults')
      BY <1>2, <3>1, AllHoldGrows
    <3>3. QED
      BY <3>1, <3>2
  <2>3. QED
    BY <2>1, <2>2
<1>4. AllHold(uart.fifo, passed', faults')
  BY <1>2, AllHoldGrows DEF TextsHold
<1>5. QED
  BY <1>3, <1>4 DEF TextsHold

(* A step that prints nothing keeps what was true true.                    *)
LEMMA SilenceHolds ==
  ASSUME Types, Types', TextsHold, text' = text, uart'.fifo = uart.fifo,
         passed => passed', faults <= faults'
  PROVE  TextsHold'
<1>1. passed \in BOOLEAN /\ passed' \in BOOLEAN /\ faults \in Nat /\ faults' \in Nat
  BY DEF Types
<1>2. ASSUME NEW d \in Cpus PROVE AllHold(text'[d], passed', faults')
  <2>1. AllHold(text[d], passed, faults)
    BY DEF TextsHold
  <2>2. QED
    BY <1>1, <2>1, AllHoldGrows
<1>3. AllHold(uart.fifo, passed', faults')
  BY <1>1, AllHoldGrows DEF TextsHold
<1>4. QED
  BY <1>2, <1>3 DEF TextsHold

(* put_char moves a half from the CPU to the UART, or loses it.            *)
LEMMA PutHolds ==
  ASSUME Types, TextsHold, NEW c \in Cpus, PutText(c)
  PROVE  TextsHold'
<1>1. /\ passed' = passed /\ faults' = faults
      /\ text[c] \in Seq(Halves) /\ text[c] # <<>>
      /\ text' = [text EXCEPT ![c] = Tail(text[c])]
      /\ text \in [Cpus -> Seq(Halves)]
  BY DEF PutText, Types
<1>2. AllHold(text[c], passed, faults) /\ AllHold(uart.fifo, passed, faults)
  BY DEF TextsHold
<1>3. /\ Head(text[c]) \in Halves
      /\ Holds(Head(text[c]).line, passed, faults)
      /\ AllHold(Tail(text[c]), passed, faults)
  BY <1>1, <1>2, AllHoldHead
<1>4. ASSUME NEW d \in Cpus PROVE AllHold(text'[d], passed', faults')
  <2>1. CASE d = c
    BY <1>1, <1>3, <2>1
  <2>2. CASE d # c
    BY <1>1, <2>2 DEF TextsHold
  <2>3. QED
    BY <2>1, <2>2
<1>5. AllHold(uart'.fifo, passed', faults')
  <2>1. uart.fifo \in Seq(Halves)
    BY DEF Types
  <2>2. AllHold(Append(uart.fifo, Head(text[c])), passed, faults)
    BY <1>2, <1>3, <2>1, AllHoldAppend
  <2>3. uart'.fifo \in {uart.fifo, Append(uart.fifo, Head(text[c]))}
    BY DEF PutText, Types
  <2>4. QED
    BY <1>1, <1>2, <2>2, <2>3
<1>6. QED
  BY <1>4, <1>5 DEF TextsHold

(* So what held before a step of a CPU holds after it.                     *)
LEMMA GuestOnward ==
  ASSUME Types, NEW c \in Cpus, NEW b, CpuStep(c, b) \/ CpuFault(c)
  PROVE  (passed => passed') /\ faults <= faults'
<1>1. passed' \in {passed, TRUE} /\ faults' \in {faults, faults + 1}
  BY GuestGrows
<1>2. faults <= faults'
  BY <1>1 DEF Types
<1>3. passed => passed'
  <2>1. CASE passed' = passed
    BY <2>1, Zenon
  <2>2. CASE passed' = TRUE
    BY <2>2, Zenon
  <2>3. QED
    BY <1>1, <2>1, <2>2
<1>4. QED
  BY <1>2, <1>3

(* What is printed by kernel_main has come true, and so has the report of  *)
(* an exception handler.                                                   *)
LEMMA GuestHolds ==
  ASSUME Types, Types', Handling, TextsHold, NEW c \in Cpus, NEW b,
         CpuStep(c, b) \/ CpuFault(c)
  PROVE  TextsHold'
<1>1. (passed => passed') /\ faults <= faults'
  BY GuestOnward
<1>2. ASSUME text' = text, uart'.fifo = uart.fifo PROVE TextsHold'
  BY <1>1, <1>2, SilenceHolds
<1>3. CASE Start(c) \/ InstallExceptionVector(c) \/ ClaimHeap(c) \/ InitHeap(c)
  BY <1>2, <1>3 DEF Start, InstallExceptionVector, ClaimHeap, InitHeap
<1>4. CASE SmokePasses(c)
  <2>1. passed'
    BY <1>4 DEF SmokePasses
  <2>2. Holds("booted", passed', faults')
    BY <2>1 DEF Holds
  <2>3. AllHold(Line("booted", 0, 0), passed', faults')
    BY <2>2, LineHolds DEF Lines
  <2>4. QED
    BY <1>1, <1>4, <2>3, SayHolds DEF SmokePasses
<1>5. CASE SmokePanics(c)
  <2>1. AllHold(Line("panic", 0, 0), passed', faults')
    BY LineHolds DEF Holds, Lines
  <2>2. QED
    BY <1>1, <1>5, <2>1, SayHolds DEF SmokePanics
<1>6. CASE AllocationFails(c)
  <2>1. AllHold(Line("allocation failed", 0, 0), passed', faults')
    BY LineHolds DEF Holds, Lines
  <2>2. QED
    BY <1>1, <1>6, <2>1, SayHolds DEF AllocationFails
<1>7. CASE ClaimConsole(c) \/ Printed(c)
  BY <1>2, <1>7 DEF ClaimConsole, Printed
<1>8. CASE UartOff(c) \/ UartOn(c)
  <2>1. text' = text /\ uart'.fifo = uart.fifo
    BY <1>8 DEF UartOff, UartOn, Types
  <2>2. QED
    BY <1>2, <2>1
<1>9. CASE PutText(c)
  BY <1>9, PutHolds
<1>10. CASE Trigger(c, b) \/ SaveRegisters(c)
  BY <1>2, <1>10 DEF Trigger, Raise, SaveRegisters
<1>11. CASE HandleException(c)
  <2>1. own[c] \in Nat /\ area \in Nat /\ faults > 0 /\ faults' = faults
    BY <1>11 DEF Types, Handling, HandleException
  <2> DEFINE report == Line("exception", own[c], own[c]) \o Line("registers", own[c], area)
  <2>2. \A n \in DOMAIN report : report[n].line \in {"exception", "registers"}
    BY <2>1, ReportLines
  <2>3. Say(c, report, "wait_forever") /\ uart' = uart
    BY <1>11 DEF HandleException
  <2> HIDE DEF report
  <2>4. AllHold(report, passed', faults')
    BY <2>1, <2>2 DEF AllHold, Holds
  <2>5. QED
    BY <1>1, <2>3, <2>4, SayHolds
<1>12. CASE Fault(c) \/ FaultUnguarded(c)
  BY <1>2, <1>12 DEF Fault, Raise, FaultUnguarded
<1>13. QED
  BY <1>3, <1>4, <1>5, <1>6, <1>7, <1>8, <1>9, <1>10, <1>11, <1>12 DEF CpuStep, CpuFault

-----------------------------------------------------------------------------
(* What the runner reads.                                                  *)

(* While the runner stands still, what it has to answer stays true: the    *)
(* guest prints what is true, and nothing it has printed becomes false.    *)
LEMMA RunnerWaits ==
  ASSUME Types, Types', TextsHold, AnswerIsTrue, UNCHANGED runner,
         passed => passed', faults <= faults',
         log' = log \/ Drain
  PROVE  AnswerIsTrue'
<1>1. /\ step' = step /\ mode' = mode /\ verdict' = verdict
      /\ passed \in BOOLEAN /\ passed' \in BOOLEAN /\ faults \in Nat /\ faults' \in Nat
  BY DEF runner, Types
<1>2. step' \in Watching => AllHold(log', passed', faults')
  <2> SUFFICES ASSUME step \in Watching PROVE AllHold(log', passed', faults')
    BY <1>1
  <2>1. AllHold(log, passed', faults')
    BY <1>1, AllHoldGrows DEF AnswerIsTrue
  <2>2. CASE log' = log
    BY <2>1, <2>2
  <2>3. CASE Drain
    <3>1. uart.fifo \in Seq(Halves) /\ uart.fifo # <<>> /\ log \in Seq(Halves)
      BY <2>3 DEF Drain, Types
    <3>2. AllHold(uart.fifo, passed', faults')
      BY <1>1, AllHoldGrows DEF TextsHold
    <3>3. Head(uart.fifo) \in Halves /\ Holds(Head(uart.fifo).line, passed', faults')
      BY <3>1, <3>2, AllHoldHead
    <3>4. AllHold(Append(log, Head(uart.fifo)), passed', faults')
      BY <2>1, <3>1, <3>3, AllHoldAppend
    <3>5. QED
      BY <2>3, <3>4 DEF Drain
  <2>4. QED
    BY <2>2, <2>3
<1>3. step' \in {"found", "wait, found"} => Holds(Marker', passed', faults')
  <2>1. Marker' = Marker
    BY <1>1 DEF Marker
  <2>2. QED
    BY <1>1, <2>1, HoldsGrows DEF AnswerIsTrue
<1>4. SuccessIsEarned'
  <2> SUFFICES ASSUME verdict = "SUCCESS"
               PROVE  (mode = "smoke" => passed') /\ (mode = "exception" => faults' > 0)
    BY <1>1, Zenon DEF SuccessIsEarned
  <2>1. (mode = "smoke" => passed) /\ (mode = "exception" => faults > 0)
    BY DEF AnswerIsTrue, SuccessIsEarned
  <2>2. mode = "smoke" => passed'
    BY <2>1, Zenon
  <2>3. mode = "exception" => faults' > 0
    BY <1>1, <2>1
  <2>4. QED
    BY <2>2, <2>3
<1>5. QED
  BY <1>1, <1>2, <1>3, <1>4 DEF AnswerIsTrue

(* The marker that ends a run is a line of the log.                        *)
LEMMA MarkerIsTrue ==
  ASSUME LogContains, AllHold(log, passed, faults), log \in Seq(Halves)
  PROVE  Holds(Marker, passed, faults)
<1>1. PICK n \in 1 .. Len(log) - 1 : log[n].line = Marker
  BY DEF LogContains
<1>2. n \in DOMAIN log
  OBVIOUS
<1>3. QED
  BY <1>1, <1>2 DEF AllHold

(* A step of main or run_smoke, of the clock or of QEMU: the log is        *)
(* emptied before it is watched, and SUCCESS comes after the marker.       *)
LEMMA RunnerActs ==
  ASSUME Types, AnswerIsTrue,
         RunnerStep \/ Tick \/ QemuOpens \/ QemuDies \/ QemuExits
  PROVE  AnswerIsTrue'
<1>1. passed' = passed /\ faults' = faults /\ mode' = mode /\ log' \in {log, <<>>}
  BY HostLeavesGuest DEF guest
<1>2. Marker' = Marker
  BY <1>1 DEF Marker
<1>3. AllHold(<<>>, passed, faults)
  BY DEF AllHold
<1> USE DEF AnswerIsTrue, Watching
<1>4. ASSUME step \in Watching PROVE AllHold(log', passed', faults')
  BY <1>1, <1>3, <1>4
<1>5. ASSUME verdict' = verdict PROVE SuccessIsEarned'
  BY <1>1, <1>5 DEF SuccessIsEarned
<1>6. ASSUME verdict' = "FAILURE" PROVE SuccessIsEarned'
  BY <1>6 DEF SuccessIsEarned
<1>7. CASE Build
  <2>1. SuccessIsEarned'
    BY <1>5, <1>6, <1>7 DEF Build, Exit
  <2>2. QED
    BY <1>1, <1>7, <2>1 DEF Build, Exit, Then
<1>8. CASE Launch
  <2>1. SuccessIsEarned'
    BY <1>5, <1>6, <1>8 DEF Launch, Exit
  <2>2. QED
    BY <1>1, <1>8, <2>1 DEF Launch, Exit, Then
<1>9. CASE Status
  <2>1. mode = "interactive" /\ mode' = mode
    BY <1>1, <1>9 DEF Status
  <2>2. SuccessIsEarned'
    BY <2>1 DEF SuccessIsEarned
  <2>3. QED
    BY <1>1, <1>9, <2>2 DEF Status, Exit
<1>10. CASE ClearLog
  <2>1. SuccessIsEarned'
    BY <1>5, <1>6, <1>10 DEF ClearLog, Exit
  <2>2. step' = "spawn" => log' = <<>>
    BY <1>10 DEF ClearLog, Exit, Then, Cleared
  <2>3. QED
    BY <1>1, <1>3, <1>10, <2>1, <2>2 DEF ClearLog, Exit, Then
<1>11. CASE Spawn
  <2>1. SuccessIsEarned'
    BY <1>5, <1>6, <1>11 DEF Spawn, Exit
  <2>2. QED
    BY <1>1, <1>4, <1>11, <2>1 DEF Spawn, Exit, Then
<1>12. CASE CheckDeadline \/ Sleep
  <2>1. SuccessIsEarned'
    BY <1>5, <1>12 DEF CheckDeadline, Sleep
  <2>2. QED
    BY <1>1, <1>4, <1>12, <2>1 DEF CheckDeadline, Sleep, Then
<1>13. CASE TryWait
  <2>1. SuccessIsEarned'
    BY <1>5, <1>6, <1>13 DEF TryWait, Exit
  <2>2. QED
    BY <1>1, <1>4, <1>13, <2>1 DEF TryWait, Exit, Then
<1>14. CASE Look
  <2>1. SuccessIsEarned'
    BY <1>5, <1>14 DEF Look
  <2>2. step' = "found" => Holds(Marker, passed, faults)
    BY <1>14, MarkerIsTrue DEF Look, Then, Types
  <2>3. QED
    BY <1>1, <1>2, <1>4, <1>14, <2>1, <2>2 DEF Look, Then
<1>15. CASE Kill
  <2>1. SuccessIsEarned'
    BY <1>5, <1>15 DEF Kill
  <2>2. step' \in {"wait, found", "wait, timed out"} /\ (step' = "wait, found" => step = "found")
    BY <1>15 DEF Kill, Then
  <2>3. QED
    BY <1>1, <1>2, <1>4, <1>15, <2>1, <2>2 DEF Kill
<1>16. CASE Wait
  <2>1. ASSUME step = "wait, found" PROVE SuccessIsEarned'
    <3>1. Holds(Marker, passed', faults') /\ mode' = mode
      BY <1>1, <2>1
    <3>2. mode' = "smoke" => passed'
      BY <3>1 DEF Holds, Marker
    <3>3. mode' = "exception" => faults' > 0
      BY <3>1 DEF Holds, Marker
    <3>4. QED
      BY <3>2, <3>3, Zenon DEF SuccessIsEarned
  <2>2. ASSUME step = "wait, timed out" PROVE SuccessIsEarned'
    BY <1>6, <1>16, <2>2 DEF Wait, Exit
  <2>3. SuccessIsEarned'
    BY <1>16, <2>1, <2>2 DEF Wait
  <2>4. QED
    BY <1>1, <1>16, <2>3 DEF Wait, Exit
<1>17. CASE Tick \/ QemuOpens \/ QemuDies \/ QemuExits
  <2>1. step' = step /\ verdict' = verdict
    BY <1>17 DEF Tick, QemuOpens, QemuDies, QemuExits
  <2>2. QED
    BY <1>1, <1>2, <1>4, <1>5, <2>1
<1>18. QED
  BY <1>7, <1>8, <1>9, <1>10, <1>11, <1>12, <1>13, <1>14, <1>15, <1>16, <1>17 DEF RunnerStep

-----------------------------------------------------------------------------
(* The theorem.                                                            *)

(* Every step of the composition keeps all of it.                          *)
LEMMA InvariantStep == Invariant /\ [Next]_vars => Invariant'
<1> SUFFICES ASSUME Invariant, [Next]_vars PROVE Invariant'
  OBVIOUS
<1>1. Types /\ Handling /\ TextsHold /\ AnswerIsTrue
  BY DEF Invariant
<1>2. Types'
  BY <1>1, TypesStep
<1>3. CASE RunnerStep \/ Tick \/ QemuOpens \/ QemuDies \/ QemuExits
  <2>1. guest' = guest
    BY <1>3, HostLeavesGuest
  <2>2. Handling' /\ TextsHold'
    BY <1>1, <2>1 DEF guest, cpu, Handling, TextsHold
  <2>3. AnswerIsTrue'
    BY <1>1, <1>3, RunnerActs
  <2>4. QED
    BY <1>2, <2>2, <2>3 DEF Invariant
<1>4. CASE \E c \in Cpus : GuestStep(c) \/ GuestFault(c)
  <2>1. PICK c \in Cpus : GuestStep(c) \/ GuestFault(c)
    BY <1>4
  <2>2. PICK b : CpuStep(c, b) \/ CpuFault(c)
    BY <2>1 DEF GuestStep, GuestFault
  <2>3. UNCHANGED runner /\ log' = log
    BY <2>1 DEF GuestStep, GuestFault, CpuStep, CpuFault
  <2>4. Handling'
    BY <1>1, <2>2, GuestHandling
  <2>5. TextsHold'
    BY <1>1, <1>2, <2>2, GuestHolds
  <2>6. (passed => passed') /\ faults <= faults'
    BY <1>1, <2>2, GuestOnward
  <2>7. AnswerIsTrue'
    BY <1>1, <1>2, <2>3, <2>6, RunnerWaits
  <2>8. QED
    BY <1>2, <2>4, <2>5, <2>7 DEF Invariant
<1>5. CASE UartSends
  <2>1. /\ Drain /\ UNCHANGED runner
        /\ passed' = passed /\ faults' = faults
        /\ pc' = pc /\ text' = text /\ after' = after
    BY <1>5 DEF UartSends, Drain, cpu
  <2>2. Handling'
    BY <1>1, <2>1 DEF Handling
  <2>3. TextsHold'
    <3>1. uart.fifo \in Seq(Halves) /\ uart.fifo # <<>> /\ uart'.fifo = Tail(uart.fifo)
      BY <1>1, <2>1 DEF Drain, Types
    <3>2. AllHold(Tail(uart.fifo), passed, faults)
      BY <1>1, <3>1, AllHoldHead DEF TextsHold
    <3>3. QED
      BY <1>1, <2>1, <3>1, <3>2 DEF TextsHold
  <2>4. faults <= faults'
    BY <1>1, <2>1 DEF Types
  <2>5. AnswerIsTrue'
    BY <1>1, <1>2, <2>1, <2>4, RunnerWaits
  <2>6. QED
    BY <1>2, <2>2, <2>3, <2>5 DEF Invariant
<1>6. CASE UNCHANGED vars
  BY <1>6 DEF Invariant, Types, Handling, TextsHold, AnswerIsTrue, SuccessIsEarned,
              Marker, vars, guest, cpu, runner
<1>7. QED
  BY <1>3, <1>4, <1>5, <1>6 DEF Next

(* The exit code: SUCCESS of a smoke run says that the native smoke of the *)
(* boot it started has passed, of an exception run that an exception was   *)
(* taken - whatever an earlier run left in the log, however the CPUs       *)
(* interleave and whatever fails.                                          *)
THEOREM SuccessIsEarnedHolds == Spec => []SuccessIsEarned
<1>1. Invariant => SuccessIsEarned
  BY DEF Invariant, AnswerIsTrue
<1>2. QED
  BY <1>1, InvariantInit, InvariantStep, PTL DEF Spec


-----------------------------------------------------------------------------
(* How the output of the one CPU that prints grows.                        *)

(* Every other CPU stays in its hold loop or is lost before it has a       *)
(* vector table: start.S lets the CPU of affinity 0 alone into kernel_main.*)
FirstCpuOnly ==
  \A c \in Cpus \ {Primary} : pc[c] \in {"_start", "secondary_hold", "lost"}

(* Until QEMU runs the image nothing has been printed.                     *)
NotYetRunning ==
  qemu \in {"none", "started"} => pc[Primary] = "_start" /\ uart.fifo = <<>>

(* The handler reads the registers its own entry stub has saved.           *)
AreaIsOwn == pc[Primary] = "exception_handler" => area = own[Primary]

TailOf(head) == [head EXCEPT !.half = "tail"]

(* Report lines show their own registers.                                  *)
Honest(seq) == \A n \in DOMAIN seq : seq[n].line = "registers" => seq[n].shown = seq[n].of

(* LineIsWhole, of any output.                                             *)
Whole(seq) ==
  \A n \in DOMAIN seq :
    /\ seq[n].half = "tail" => n > 1 /\ TailOf(seq[n - 1]) = seq[n]
    /\ seq[n].half = "head" /\ n < Len(seq) =>
         \/ seq[n + 1] = TailOf(seq[n])
         \/ seq[n + 1].half = "head" /\ seq[n + 1].line = "exception"

(* An output that a new line may follow.                                   *)
Ends(seq) == seq = <<>> \/ seq[Len(seq)].half = "tail"

(* What a CPU that prints has left of its lines.                           *)
Remainder(rest) ==
  \A n \in DOMAIN rest :
    /\ rest[n].half = "head" => n < Len(rest) /\ rest[n + 1] = TailOf(rest[n])
    /\ rest[n].half = "tail" /\ n > 1 => rest[n - 1].half = "head"

(* The next half goes on with the line that is open, or begins another.    *)
Begins(seq, rest) ==
  /\ rest # <<>> /\ rest[1].half = "head"
  /\ Ends(seq) \/ rest[1].line = "exception"

Continues(seq, rest) ==
  \/ Ends(seq) /\ rest = <<>>
  \/ Begins(seq, rest)
  \/ /\ rest # <<>> /\ rest[1].half = "tail"
     /\ seq # <<>> /\ TailOf(seq[Len(seq)]) = rest[1]

(* Where the first CPU is when it has printed nothing yet.                 *)
Before == {"_start", "install_exception_vector", "init_early_heap", "heap_init", "smoke"}

(* What holds of the output and of what is left to print, at each place    *)
(* the first CPU can be in.  The UART is programmed once, when no line is  *)
(* open; if that is interrupted it stays off, and nothing more comes out.  *)
Printing(seq, rest, at, on, claimed) ==
  /\ on \in BOOLEAN /\ claimed \in BOOLEAN
  /\ Whole(seq) /\ Remainder(rest)
  /\ Honest(seq) /\ Honest(rest)
  /\ on => claimed
  /\ at \in {"uart_off", "uart_on"} => claimed /\ ~on
  /\ ~on \/ at \in Before => Ends(seq)
  /\ at \in {"init_once", "uart_off", "uart_on"} => Begins(seq, rest)
  /\ at = "print" /\ on => Continues(seq, rest)

OutputIsOrderly ==
  /\ FirstCpuOnly
  /\ NotYetRunning
  /\ AreaIsOwn
  /\ Printing(Output, text[Primary], pc[Primary], uart.enabled, console)

(* A line is open when its head has been put out last.                     *)
LEMMA LastHalf ==
  ASSUME NEW seq \in Seq(Halves), seq # <<>>
  PROVE  /\ Len(seq) \in DOMAIN seq /\ seq[Len(seq)] \in Halves
         /\ Ends(seq) <=> seq[Len(seq)].half = "tail"
BY DEF Ends

(* What is left after put_char is what there was, one place further.       *)
LEMMA TailRemains ==
  ASSUME NEW rest \in Seq(Halves), rest # <<>>, Remainder(rest)
  PROVE  Remainder(Tail(rest))
<1>1. /\ Tail(rest) \in Seq(Halves) /\ Len(Tail(rest)) = Len(rest) - 1 /\ Len(rest) \in Nat
      /\ \A n \in 1 .. Len(rest) - 1 : Tail(rest)[n] = rest[n + 1]
  OBVIOUS
<1> DEFINE t == Tail(rest)
<1> HIDE DEF t
<1>2. ASSUME NEW n \in DOMAIN t
      PROVE  /\ t[n].half = "head" => n < Len(t) /\ t[n + 1] = TailOf(t[n])
             /\ t[n].half = "tail" /\ n > 1 => t[n - 1].half = "head"
  <2>1. n \in 1 .. Len(rest) - 1 /\ n + 1 \in DOMAIN rest /\ t[n] = rest[n + 1]
    BY <1>1 DEF t
  <2>2. ASSUME t[n].half = "head" PROVE n < Len(t) /\ t[n + 1] = TailOf(t[n])
    <3>1. n + 1 < Len(rest) /\ rest[n + 1 + 1] = TailOf(rest[n + 1])
      BY <2>1, <2>2 DEF Remainder
    <3>2. n + 1 \in 1 .. Len(rest) - 1
      BY <1>1, <2>1, <3>1
    <3>3. t[n + 1] = rest[n + 1 + 1]
      BY <1>1, <3>2 DEF t
    <3>4. n < Len(t)
      BY <1>1, <2>1, <3>1 DEF t
    <3>5. QED
      BY <2>1, <3>1, <3>3, <3>4
  <2>3. ASSUME t[n].half = "tail", n > 1 PROVE t[n - 1].half = "head"
    <3>1. n - 1 \in 1 .. Len(rest) - 1 /\ (n - 1) + 1 = n /\ (n + 1) - 1 = n /\ n + 1 > 1
      BY <1>1, <2>1, <2>3
    <3>2. rest[(n + 1) - 1].half = "head"
      BY <2>1, <2>3, <3>1 DEF Remainder
    <3>3. t[n - 1] = rest[n]
      BY <1>1, <3>1 DEF t
    <3>4. QED
      BY <3>1, <3>2, <3>3
  <2>4. QED
    BY <2>2, <2>3
<1>3. Remainder(t)
  BY <1>2, Zenon DEF Remainder
<1>4. QED
  BY <1>3 DEF t

(* put_char puts a half behind what is there, and no line is torn by it.   *)
LEMMA PutWhole ==
  ASSUME NEW seq \in Seq(Halves), NEW rest \in Seq(Halves), rest # <<>>,
         Whole(seq), Continues(seq, rest)
  PROVE  Whole(Append(seq, rest[1]))
<1> DEFINE more == Append(seq, rest[1])
<1>1. /\ Len(more) = Len(seq) + 1 /\ Len(seq) \in Nat
      /\ DOMAIN more = 1 .. Len(seq) + 1 /\ DOMAIN seq = 1 .. Len(seq)
      /\ \A n \in 1 .. Len(seq) : more[n] = seq[n]
      /\ more[Len(seq) + 1] = rest[1]
      /\ rest[1] \in Halves
  OBVIOUS
<1> HIDE DEF more
<1>2. Ends(seq) /\ seq # <<>> => seq[Len(seq)].half = "tail"
  BY DEF Ends
<1>3. ASSUME NEW n \in DOMAIN more
      PROVE  /\ more[n].half = "tail" => n > 1 /\ TailOf(more[n - 1]) = more[n]
             /\ more[n].half = "head" /\ n < Len(more) =>
                  \/ more[n + 1] = TailOf(more[n])
                  \/ more[n + 1].half = "head" /\ more[n + 1].line = "exception"
  <2>1. CASE n = Len(seq) + 1
    <3>1. more[n] = rest[1] /\ ~(n < Len(more))
      BY <1>1, <2>1
    <3>2. ASSUME rest[1].half = "tail" PROVE n > 1 /\ TailOf(more[n - 1]) = more[n]
      <4>1. seq # <<>> /\ TailOf(seq[Len(seq)]) = rest[1]
        BY <3>2 DEF Continues, Begins
      <4>2. Len(seq) \in 1 .. Len(seq) /\ n - 1 = Len(seq) /\ n > 1
        BY <1>1, <2>1, <4>1
      <4>3. more[n - 1] = seq[Len(seq)]
        BY <1>1, <4>2
      <4>4. QED
        BY <3>1, <4>1, <4>2, <4>3
    <3>3. QED
      BY <3>1, <3>2
  <2>2. CASE n \in 1 .. Len(seq)
    <3>1. n \in DOMAIN seq /\ more[n] = seq[n]
      BY <1>1, <2>2
    <3>2. ASSUME seq[n].half = "tail" PROVE n > 1 /\ TailOf(more[n - 1]) = more[n]
      <4>1. n > 1 /\ TailOf(seq[n - 1]) = seq[n]
        BY <3>1, <3>2 DEF Whole
      <4>2. n - 1 \in 1 .. Len(seq)
        BY <1>1, <2>2, <4>1
      <4>3. QED
        BY <1>1, <3>1, <4>1, <4>2
    <3>3. ASSUME seq[n].half = "head", n < Len(seq)
          PROVE  \/ more[n + 1] = TailOf(more[n])
                 \/ more[n + 1].half = "head" /\ more[n + 1].line = "exception"
      <4>1. n + 1 \in 1 .. Len(seq)
        BY <1>1, <2>2, <3>3
      <4>2. more[n + 1] = seq[n + 1]
        BY <1>1, <4>1
      <4>3. QED
        BY <3>1, <3>3, <4>2 DEF Whole
    <3>4. ASSUME seq[n].half = "head", n = Len(seq)
          PROVE  \/ more[n + 1] = TailOf(more[n])
                 \/ more[n + 1].half = "head" /\ more[n + 1].line = "exception"
      <4>1. more[n + 1] = rest[1] /\ seq # <<>> /\ ~Ends(seq)
        BY <1>1, <1>2, <2>2, <3>4
      <4>2. QED
        BY <3>1, <3>4, <4>1 DEF Continues, Begins
    <3>5. n < Len(seq) \/ n = Len(seq)
      BY <1>1, <2>2
    <3>6. QED
      BY <3>1, <3>2, <3>3, <3>4, <3>5
  <2>3. QED
    BY <1>1, <1>3, <2>1, <2>2
<1>4. Whole(more)
  BY <1>3, Zenon DEF Whole
<1>5. QED
  BY <1>4 DEF more

(* And what is left to print goes on where it stopped.                     *)
LEMMA PutContinues ==
  ASSUME NEW seq \in Seq(Halves), NEW rest \in Seq(Halves), rest # <<>>, Remainder(rest)
  PROVE  Continues(Append(seq, rest[1]), Tail(rest))
<1> DEFINE more == Append(seq, rest[1])
           t == Tail(rest)
<1>1. /\ more # <<>> /\ more[Len(more)] = rest[1]
      /\ rest[1] \in Halves /\ 1 \in DOMAIN rest
      /\ Len(rest) > 1 => t # <<>> /\ t[1] = rest[2] /\ 2 \in DOMAIN rest /\ rest[2] \in Halves
      /\ Len(rest) = 1 => t = <<>>
      /\ Len(rest) \in Nat /\ Len(rest) >= 1
  <2>1. Len(rest) \in Nat /\ Len(rest) >= 1 /\ 1 \in DOMAIN rest /\ rest[1] \in Halves
    OBVIOUS
  <2>2. more # <<>> /\ more[Len(more)] = rest[1]
    <3>1. more \in Seq(Halves) /\ Len(more) = Len(seq) + 1 /\ more[Len(seq) + 1] = rest[1]
      BY <2>1
    <3>2. QED
      BY <3>1
  <2>3. t \in Seq(Halves) /\ Len(t) = Len(rest) - 1
    OBVIOUS
  <2>4. \A n \in 1 .. Len(rest) - 1 : t[n] = rest[n + 1]
    OBVIOUS
  <2> HIDE DEF t
  <2>5. ASSUME Len(rest) > 1
        PROVE  t # <<>> /\ t[1] = rest[2] /\ 2 \in DOMAIN rest /\ rest[2] \in Halves
    <3>1. 1 \in 1 .. Len(rest) - 1 /\ 2 \in DOMAIN rest /\ rest[2] \in Halves
      BY <2>1, <2>5
    <3>2. t[1] = rest[1 + 1]
      BY <2>4, <3>1
    <3>3. Len(t) > 0
      BY <2>1, <2>3, <2>5
    <3>4. QED
      BY <2>3, <3>1, <3>2, <3>3
  <2>6. Len(rest) = 1 => t = <<>>
    BY <2>3
  <2>7. QED
    BY <2>1, <2>2, <2>5, <2>6
<1>2. Ends(more) <=> rest[1].half = "tail"
  BY <1>1 DEF Ends
<1> HIDE DEF more, t
<1> SUFFICES Continues(more, t)
  BY DEF more, t
<1>3. rest[1].half \in {"head", "tail"}
  BY <1>1 DEF Halves
<1>4. CASE rest[1].half = "head"
  <2>1. Len(rest) > 1 /\ rest[2] = TailOf(rest[1])
    BY <1>1, <1>4 DEF Remainder
  <2>2. TailOf(rest[1]).half = "tail"
    BY <1>1 DEF TailOf, Halves
  <2>3. QED
    BY <1>1, <2>1, <2>2 DEF Continues
<1>5. CASE rest[1].half = "tail"
  <2>1. Ends(more)
    BY <1>2, <1>5
  <2>2. CASE Len(rest) = 1
    <3>1. t = <<>>
      BY <1>1, <2>2
    <3>2. QED
      BY <2>1, <3>1 DEF Continues
  <2>3. CASE Len(rest) > 1
    <3>1. rest[2].half # "tail"
      <4>1. ASSUME rest[2].half = "tail" PROVE FALSE
        <5>1. rest[2 - 1].half = "head"
          BY <1>1, <2>3, <4>1 DEF Remainder
        <5>2. QED
          BY <1>5, <5>1
      <4>2. QED
        BY <4>1
    <3>2. rest[2].half = "head"
      BY <1>1, <2>3, <3>1 DEF Halves
    <3>3. Begins(more, t)
      BY <1>1, <2>1, <2>3, <3>2 DEF Begins
    <3>4. QED
      BY <3>3 DEF Continues
  <2>4. Len(rest) = 1 \/ Len(rest) > 1
    <3>1. Len(rest) \in Nat /\ Len(rest) # 0
      OBVIOUS
    <3>2. \A k \in Nat : k # 0 => k = 1 \/ k > 1
      OBVIOUS
    <3>3. QED
      BY <3>1, <3>2, Zenon
  <2>5. QED
    BY <2>2, <2>3, <2>4
<1>6. QED
  BY <1>3, <1>4, <1>5

(* A step that prints nothing and leaves the UART as it is.                *)
LEMMA QuietPrinting ==
  ASSUME NEW seq, NEW rest, NEW at, NEW to, NEW on \in BOOLEAN, NEW claimed \in BOOLEAN,
         Printing(seq, rest, at, on, claimed),
         \/ at \in Before /\ to \in Before
         \/ to \in {"trigger", "exception_entry", "exception_handler", "secondary_hold",
                    "wait_forever", "lost"}
  PROVE  Printing(seq, rest, to, on, claimed)
BY DEF Printing, Before

(* early_println is entered between two lines, or by an exception handler. *)
LEMMA SayPrinting ==
  ASSUME NEW seq, NEW rest, NEW lines \in Seq(Halves), NEW at,
         NEW on \in BOOLEAN, NEW claimed \in BOOLEAN,
         Printing(seq, rest, at, on, claimed),
         lines # <<>>, lines[1].half = "head", Remainder(lines), Honest(lines),
         at \in Before \/ lines[1].line = "exception"
  PROVE  Printing(seq, lines, "init_once", on, claimed)
BY DEF Printing, Before, Begins

(* init_once: whoever comes first programs the UART, which is off and on   *)
(* again between two lines.                                                *)
LEMMA InitPrinting ==
  ASSUME NEW seq, NEW rest, NEW at, NEW on \in BOOLEAN, NEW claimed \in BOOLEAN,
         Printing(seq, rest, at, on, claimed)
  PROVE  /\ at = "init_once" /\ claimed => Printing(seq, rest, "print", on, TRUE)
         /\ at = "init_once" /\ ~claimed => Printing(seq, rest, "uart_off", on, TRUE)
         /\ at = "uart_off" => Printing(seq, rest, "uart_on", FALSE, claimed)
         /\ at = "uart_on" => Printing(seq, rest, "print", TRUE, claimed)
<1> USE DEF Printing, Before
<1>1. at = "init_once" /\ claimed => Printing(seq, rest, "print", on, TRUE)
  BY DEF Continues
<1>2. at = "init_once" /\ ~claimed => Printing(seq, rest, "uart_off", on, TRUE)
  OBVIOUS
<1>3. at = "uart_off" => Printing(seq, rest, "uart_on", FALSE, claimed)
  OBVIOUS
<1>4. at = "uart_on" => Printing(seq, rest, "print", TRUE, claimed)
  BY DEF Continues
<1>5. QED
  BY <1>1, <1>2, <1>3, <1>4

(* put_char moves the next half to a UART that is on, or loses it.         *)
LEMMA PutPrinting ==
  ASSUME NEW seq \in Seq(Halves), NEW rest \in Seq(Halves), rest # <<>>,
         NEW on \in BOOLEAN, NEW claimed \in BOOLEAN,
         Printing(seq, rest, "print", on, claimed)
  PROVE  Printing(IF on THEN Append(seq, rest[1]) ELSE seq, Tail(rest), "print", on, claimed)
<1>1. /\ Whole(seq) /\ Remainder(rest) /\ Honest(seq) /\ Honest(rest)
      /\ on => claimed
      /\ ~on => Ends(seq)
      /\ on => Continues(seq, rest)
  BY DEF Printing
<1>2. Remainder(Tail(rest))
  BY <1>1, TailRemains
<1>3. Honest(Tail(rest))
  <2>1. \A n \in DOMAIN Tail(rest) : n + 1 \in DOMAIN rest /\ Tail(rest)[n] = rest[n + 1]
    OBVIOUS
  <2>2. QED
    BY <1>1, <2>1 DEF Honest
<1>4. Honest(Append(seq, rest[1]))
  <2>1. /\ DOMAIN Append(seq, rest[1]) = 1 .. Len(seq) + 1 /\ DOMAIN seq = 1 .. Len(seq)
        /\ \A n \in DOMAIN seq : Append(seq, rest[1])[n] = seq[n]
        /\ Append(seq, rest[1])[Len(seq) + 1] = rest[1]
        /\ 1 \in DOMAIN rest
    OBVIOUS
  <2>2. QED
    BY <1>1, <2>1 DEF Honest
<1>5. CASE on = TRUE
  <2>1. Whole(Append(seq, rest[1])) /\ Continues(Append(seq, rest[1]), Tail(rest))
    BY <1>1, <1>5, PutWhole, PutContinues
  <2>2. Printing(Append(seq, rest[1]), Tail(rest), "print", TRUE, claimed)
    BY <1>1, <1>2, <1>3, <1>4, <1>5, <2>1 DEF Printing, Before
  <2>3. QED
    BY <1>5, <2>2
<1>6. CASE on = FALSE
  <2>1. Printing(seq, Tail(rest), "print", FALSE, claimed)
    BY <1>1, <1>2, <1>3, <1>6 DEF Printing, Before
  <2>2. QED
    BY <1>6, <2>1
<1>7. QED
  BY <1>5, <1>6

(* The log is emptied before the image runs.                               *)
LEMMA EmptyPrinting ==
  ASSUME NEW seq, NEW rest, NEW on \in BOOLEAN, NEW claimed \in BOOLEAN,
         Printing(seq, rest, "_start", on, claimed)
  PROVE  Printing(<<>>, rest, "_start", on, claimed)
BY DEF Printing, Before, Whole, Honest, Ends

(* What is sent leaves the UART for the log: the output is the same.       *)
LEMMA SentIsSame ==
  ASSUME NEW sent \in Seq(Halves), NEW held \in Seq(Halves), held # <<>>
  PROVE  Append(sent, Head(held)) \o Tail(held) = sent \o held
<1> DEFINE a == Append(sent, Head(held)) \o Tail(held)
           b == sent \o held
<1>1. /\ Head(held) \in Halves /\ Head(held) = held[1] /\ Tail(held) \in Seq(Halves)
      /\ Len(Tail(held)) = Len(held) - 1 /\ Len(held) \in Nat /\ Len(held) >= 1
      /\ Len(sent) \in Nat
      /\ \A n \in 1 .. Len(held) - 1 : Tail(held)[n] = held[n + 1]
  OBVIOUS
<1>2. /\ a \in Seq(Halves) /\ b \in Seq(Halves)
      /\ Len(a) = Len(sent) + 1 + (Len(held) - 1) /\ Len(b) = Len(sent) + Len(held)
  BY <1>1
<1>3. ASSUME NEW n \in 1 .. Len(b) PROVE a[n] = b[n]
  BY <1>1, <1>2
<1>4. QED
  BY <1>1, <1>2, <1>3

(* What put_char writes is behind everything that has been put out.        *)
LEMMA WrittenIsLast ==
  ASSUME NEW sent \in Seq(Halves), NEW held \in Seq(Halves), NEW half \in Halves
  PROVE  sent \o Append(held, half) = Append(sent \o held, half)
OBVIOUS

(* What a line is made of: kernel_main, the panic handler and the          *)
(* allocation error handler print one line each.                           *)
LEMMA LineRemains ==
  ASSUME NEW line \in Lines, line # "registers"
  PROVE  /\ Line(line, 0, 0) \in Seq(Halves) /\ Line(line, 0, 0) # <<>>
         /\ Line(line, 0, 0)[1].half = "head"
         /\ Remainder(Line(line, 0, 0)) /\ Honest(Line(line, 0, 0))
<1>1. Line(line, 0, 0) \in Seq(Halves)
  BY LineHalves
<1> DEFINE l == Line(line, 0, 0)
<1>2. /\ Len(l) = 2 /\ DOMAIN l = {1, 2}
      /\ l[1] = Half(line, "head", 0, 0) /\ l[2] = Half(line, "tail", 0, 0)
  BY DEF Line
<1>3. /\ l[1].half = "head" /\ l[1].line = line
      /\ l[2].half = "tail" /\ l[2].line = line /\ l[2] = TailOf(l[1])
  BY <1>2 DEF Half, TailOf
<1> HIDE DEF l
<1>4. Remainder(l)
  BY <1>2, <1>3 DEF Remainder
<1>5. Honest(l)
  BY <1>2, <1>3 DEF Honest
<1>6. Remainder(Line(line, 0, 0)) /\ Honest(Line(line, 0, 0))
  BY <1>4, <1>5 DEF l
<1>7. QED
  BY <1>1, <1>6 DEF Line, Half

(* Two lines, one after the other.                                         *)
LEMMA TwoLines ==
  ASSUME NEW a \in Seq(Halves), NEW b \in Seq(Halves), Len(a) = 2, Len(b) = 2
  PROVE  /\ Len(a \o b) = 4 /\ DOMAIN (a \o b) = {1, 2, 3, 4}
         /\ (a \o b)[1] = a[1] /\ (a \o b)[2] = a[2]
         /\ (a \o b)[3] = b[1] /\ (a \o b)[4] = b[2]
<1>1. /\ a \o b \in Seq(Halves) /\ Len(a \o b) = Len(a) + Len(b)
      /\ \A n \in 1 .. Len(a) + Len(b) :
           (a \o b)[n] = IF n <= Len(a) THEN a[n] ELSE b[n - Len(a)]
  BY ConcatProperties
<1> DEFINE s == a \o b
<1> HIDE DEF s
<1>2. \A n \in 1 .. 4 : s[n] = IF n <= 2 THEN a[n] ELSE b[n - 2]
  BY <1>1 DEF s
<1>3. s[1] = a[1] /\ s[2] = a[2] /\ s[3] = b[1] /\ s[4] = b[2]
  BY <1>2
<1>4. s \in Seq(Halves) /\ Len(s) = 4
  BY <1>1 DEF s
<1>5. DOMAIN s = {1, 2, 3, 4}
  BY <1>4
<1>6. QED
  BY <1>3, <1>4, <1>5 DEF s

(* A report is two lines, and shows what the handler copied from the area. *)
LEMMA ReportRemains ==
  ASSUME NEW of \in Nat
  PROVE  LET report == Line("exception", of, of) \o Line("registers", of, of)
         IN  /\ report \in Seq(Halves) /\ report # <<>>
             /\ report[1].half = "head" /\ report[1].line = "exception"
             /\ Remainder(report) /\ Honest(report)
<1> DEFINE named == Line("exception", of, of)
           shown == Line("registers", of, of)
           report == named \o shown
<1>1. report \in Seq(Halves)
  BY ReportLines
<1>2. /\ named \in Seq(Halves) /\ Len(named) = 2
      /\ named[1] = Half("exception", "head", of, of)
      /\ named[2] = Half("exception", "tail", of, of)
  BY LineHalves DEF Line, Lines
<1>3. /\ shown \in Seq(Halves) /\ Len(shown) = 2
      /\ shown[1] = Half("registers", "head", of, of)
      /\ shown[2] = Half("registers", "tail", of, of)
  BY LineHalves DEF Line, Lines
<1> HIDE DEF named, shown
<1>4. /\ Len(report) = 4 /\ DOMAIN report = {1, 2, 3, 4}
      /\ report[1] = named[1] /\ report[2] = named[2]
      /\ report[3] = shown[1] /\ report[4] = shown[2]
  BY <1>2, <1>3, TwoLines
<1> HIDE DEF report
<1>5. /\ report[1].half = "head" /\ report[1].line = "exception"
      /\ report[2].half = "tail" /\ report[2].line = "exception"
      /\ report[2] = TailOf(report[1])
  BY <1>2, <1>4 DEF Half, TailOf
<1>6. /\ report[3].half = "head" /\ report[3].of = of /\ report[3].shown = of
      /\ report[4].half = "tail" /\ report[4].of = of /\ report[4].shown = of
      /\ report[4] = TailOf(report[3])
  BY <1>3, <1>4 DEF Half, TailOf
<1>7. Remainder(report)
  BY <1>4, <1>5, <1>6 DEF Remainder
<1>8. Honest(report)
  BY <1>4, <1>5, <1>6 DEF Honest
<1>9. report # <<>>
  BY <1>4
<1>10. QED
  BY <1>1, <1>5, <1>7, <1>8, <1>9 DEF report, named, shown

(* Every step of the first CPU keeps the output in order.                  *)
LEMMA FirstCpuPrints ==
  ASSUME Types, Handling, OutputIsOrderly, NEW b,
         CpuStep(Primary, b) \/ CpuFault(Primary)
  PROVE  Printing(Output, text[Primary], pc[Primary], uart.enabled, console)'
<1> DEFINE R == text[Primary]
           at == pc[Primary]
           on == uart.enabled
<1>1. /\ Primary \in Cpus
      /\ text \in [Cpus -> Seq(Halves)] /\ R \in Seq(Halves)
      /\ pc = [d \in Cpus |-> pc[d]]
      /\ uart.fifo \in Seq(Halves) /\ log \in Seq(Halves) /\ Output \in Seq(Halves)
      /\ on \in BOOLEAN
  BY BootAssumption DEF Types, Output
<1>2. Printing(Output, R, at, on, console)
  BY DEF OutputIsOrderly
<1>3. console \in BOOLEAN
  BY <1>2 DEF Printing
<1>4. log' = log
  BY DEF CpuStep, CpuFault
<1>5. ASSUME uart'.fifo = uart.fifo PROVE Output' = Output
  BY <1>4, <1>5 DEF Output
<1>6. ASSUME uart' = uart, console' = console, text' = text,
             NEW to, Go(Primary, to),
             \/ at \in Before /\ to \in Before
             \/ to \in {"trigger", "exception_entry", "exception_handler", "secondary_hold",
                        "wait_forever", "lost"}
      PROVE  Printing(Output, R, at, on, console)'
  <2>1. pc'[Primary] = to
    BY <1>1, <1>6 DEF Go
  <2>2. Output' = Output
    BY <1>5, <1>6
  <2>3. Printing(Output, R, to, on, console)
    BY <1>2, <1>3, <1>1, <1>6, QuietPrinting
  <2>4. QED
    BY <1>6, <2>1, <2>2, <2>3
<1>7. ASSUME uart' = uart, console' = console,
             NEW lines \in Seq(Halves), NEW to, Say(Primary, lines, to),
             lines # <<>>, lines[1].half = "head", Remainder(lines), Honest(lines),
             at \in Before \/ lines[1].line = "exception"
      PROVE  Printing(Output, R, at, on, console)'
  <2>1. pc'[Primary] = "init_once" /\ text'[Primary] = lines
    BY <1>1, <1>7 DEF Say, Go
  <2>2. Output' = Output
    BY <1>5, <1>7
  <2>3. Printing(Output, lines, "init_once", on, console)
    BY <1>2, <1>3, <1>1, <1>7, SayPrinting
  <2>4. QED
    BY <1>7, <2>1, <2>2, <2>3
<1>8. CASE Start(Primary) \/ InstallExceptionVector(Primary)
  BY <1>6, <1>8 DEF Start, IsPrimary, InstallExceptionVector, Before
<1>9. CASE ClaimHeap(Primary) \/ InitHeap(Primary)
  BY <1>6, <1>9 DEF ClaimHeap, InitHeap, Before
<1>10. CASE SmokePasses(Primary)
  BY <1>7, <1>10, LineRemains DEF SmokePasses, Lines, Before
<1>11. CASE SmokePanics(Primary)
  BY <1>7, <1>11, LineRemains DEF SmokePanics, Lines, Before
<1>12. CASE AllocationFails(Primary)
  BY <1>7, <1>12, LineRemains DEF AllocationFails, Lines, Before
<1>13. CASE ClaimConsole(Primary)
  <2>1. /\ at = "init_once" /\ Output' = Output /\ uart' = uart /\ text' = text
        /\ console' = TRUE
    BY <1>5, <1>13 DEF ClaimConsole
  <2>2. CASE console = TRUE
    <3>1. pc'[Primary] = "print"
      BY <1>1, <1>13, <2>2 DEF ClaimConsole, Go
    <3>2. Printing(Output, R, "print", on, TRUE)
      BY <1>1, <1>2, <2>1, <2>2, InitPrinting
    <3>3. QED
      BY <2>1, <3>1, <3>2
  <2>3. CASE console = FALSE
    <3>1. pc'[Primary] = "uart_off"
      BY <1>1, <1>13, <2>3 DEF ClaimConsole, Go
    <3>2. Printing(Output, R, "uart_off", on, TRUE)
      BY <1>1, <1>2, <2>1, <2>3, InitPrinting
    <3>3. QED
      BY <2>1, <3>1, <3>2
  <2>4. QED
    BY <1>3, <2>2, <2>3
<1>14. CASE UartOff(Primary)
  <2>1. /\ at = "uart_off" /\ pc'[Primary] = "uart_on"
        /\ uart'.enabled = FALSE /\ uart'.fifo = uart.fifo
        /\ text' = text /\ console' = console
    BY <1>1, <1>14 DEF UartOff, Go, Types
  <2>2. Output' = Output
    BY <1>5, <2>1
  <2>3. Printing(Output, R, "uart_on", FALSE, console)
    BY <1>1, <1>2, <1>3, <2>1, InitPrinting
  <2>4. QED
    BY <2>1, <2>2, <2>3
<1>15. CASE UartOn(Primary)
  <2>1. /\ at = "uart_on" /\ pc'[Primary] = "print"
        /\ uart'.enabled = TRUE /\ uart'.fifo = uart.fifo
        /\ text' = text /\ console' = console
    BY <1>1, <1>15 DEF UartOn, Go, Types
  <2>2. Output' = Output
    BY <1>5, <2>1
  <2>3. Printing(Output, R, "print", TRUE, console)
    BY <1>1, <1>2, <1>3, <2>1, InitPrinting
  <2>4. QED
    BY <2>1, <2>2, <2>3
<1>16. CASE PutText(Primary)
  <2>1. /\ at = "print" /\ pc' = pc /\ console' = console
        /\ R # <<>> /\ Head(R) = R[1] /\ R[1] \in Halves /\ text'[Primary] = Tail(R)
    BY <1>1, <1>16 DEF PutText
  <2>2. uart'.enabled = on
    BY <1>16 DEF PutText, Types
  <2>3. Output' = IF on THEN Append(Output, R[1]) ELSE Output
    <3>1. CASE on = TRUE
      <4>1. uart'.fifo = Append(uart.fifo, R[1])
        BY <1>16, <2>1, <3>1 DEF PutText, Types
      <4>2. log \o Append(uart.fifo, R[1]) = Append(log \o uart.fifo, R[1])
        BY <1>1, <2>1, WrittenIsLast
      <4>3. QED
        BY <1>4, <3>1, <4>1, <4>2 DEF Output
    <3>2. CASE on = FALSE
      BY <1>4, <1>16, <3>2 DEF PutText, Output
    <3>3. QED
      BY <1>1, <3>1, <3>2
  <2>4. Printing(IF on THEN Append(Output, R[1]) ELSE Output, Tail(R), "print", on, console)
    BY <1>1, <1>2, <1>3, <2>1, PutPrinting
  <2>5. QED
    BY <2>1, <2>2, <2>3, <2>4
<1>17. CASE Printed(Primary)
  <2>1. after[Primary] \in {"trigger", "wait_forever"}
    BY <1>1 DEF Handling
  <2>2. QED
    BY <1>6, <1>17, <2>1 DEF Printed
<1>18. ASSUME Raise(Primary) PROVE Printing(Output, R, at, on, console)'
  BY <1>6, <1>18 DEF Raise
<1>19. CASE Trigger(Primary, b)
  BY <1>6, <1>18, <1>19 DEF Trigger
<1>20. CASE SaveRegisters(Primary)
  BY <1>6, <1>20 DEF SaveRegisters
<1>21. CASE HandleException(Primary)
  <2>1. own[Primary] \in Nat /\ area = own[Primary]
    BY <1>1, <1>21 DEF HandleException, Types, OutputIsOrderly, AreaIsOwn
  <2> DEFINE report == Line("exception", own[Primary], own[Primary])
                       \o Line("registers", own[Primary], own[Primary])
  <2>2. /\ report \in Seq(Halves) /\ report # <<>>
        /\ report[1].half = "head" /\ report[1].line = "exception"
        /\ Remainder(report) /\ Honest(report)
    BY <2>1, ReportRemains
  <2>3. Say(Primary, report, "wait_forever") /\ uart' = uart /\ console' = console
    BY <1>21, <2>1 DEF HandleException
  <2> HIDE DEF report
  <2>4. QED
    BY <1>7, <2>2, <2>3
<1>22. CASE Fault(Primary) \/ FaultUnguarded(Primary)
  BY <1>6, <1>18, <1>22 DEF Fault, FaultUnguarded
<1>23. QED
  BY <1>8, <1>9, <1>10, <1>11, <1>12, <1>13, <1>14, <1>15, <1>16, <1>17, <1>19, <1>20, <1>21,
     <1>22 DEF CpuStep, CpuFault

(* A CPU that is not the first goes to its hold loop, or runs off: it      *)
(* touches nothing but its own program counter.                            *)
LEMMA OthersHold ==
  ASSUME Types, OutputIsOrderly, NEW c \in Cpus \ {Primary}, NEW b,
         CpuStep(c, b) \/ CpuFault(c)
  PROVE  /\ pc' = [pc EXCEPT ![c] = pc'[c]]
         /\ pc'[c] \in {"secondary_hold", "lost"}
         /\ text' = text /\ own' = own /\ uart' = uart /\ area' = area
         /\ console' = console /\ log' = log
<1>1. pc[c] \in {"_start", "secondary_hold", "lost"} /\ c # Primary
      /\ pc = [d \in Cpus |-> pc[d]]
  BY DEF OutputIsOrderly, FirstCpuOnly, Types
<1>2. Start(c) \/ FaultUnguarded(c)
  BY <1>1 DEF CpuStep, CpuFault, InstallExceptionVector, ClaimHeap, InitHeap, SmokePasses,
              SmokePanics, AllocationFails, ClaimConsole, UartOff, UartOn, PutText, Printed,
              Trigger, SaveRegisters, HandleException, Fault, Unguarded, Waiting
<1>3. log' = log
  BY DEF CpuStep, CpuFault
<1>4. CASE Start(c)
  BY <1>1, <1>3, <1>4 DEF Start, IsPrimary, Go
<1>5. CASE FaultUnguarded(c)
  BY <1>1, <1>3, <1>5 DEF FaultUnguarded, Go
<1>6. QED
  BY <1>2, <1>4, <1>5

(* A step of the first CPU leaves the others where they are, and the       *)
(* handler finds in the area what its entry stub has put there.            *)
LEMMA FirstCpuAlone ==
  ASSUME Types, Handling, OutputIsOrderly, NEW b, CpuStep(Primary, b) \/ CpuFault(Primary)
  PROVE  FirstCpuOnly' /\ AreaIsOwn'
<1>1. Primary \in Cpus /\ pc = [d \in Cpus |-> pc[d]] /\ own \in [Cpus -> Nat]
  BY BootAssumption DEF Types
<1>2. FirstCpuOnly /\ AreaIsOwn
  BY DEF OutputIsOrderly
<1>3. ASSUME NEW to, Go(Primary, to), \/ to # "exception_handler"
                                      \/ area' = own'[Primary]
      PROVE  FirstCpuOnly' /\ AreaIsOwn'
  <2>1. pc'[Primary] = to /\ \A c \in Cpus \ {Primary} : pc'[c] = pc[c]
    BY <1>1, <1>3 DEF Go
  <2>2. QED
    BY <1>2, <1>3, <2>1 DEF FirstCpuOnly, AreaIsOwn
<1>4. CASE Start(Primary) \/ InstallExceptionVector(Primary) \/ ClaimHeap(Primary) \/ InitHeap(Primary)
  <2>1. CASE Start(Primary)
    BY <1>3, <2>1 DEF Start, IsPrimary
  <2>2. CASE InstallExceptionVector(Primary)
    BY <1>3, <2>2 DEF InstallExceptionVector
  <2>3. CASE ClaimHeap(Primary)
    <3>1. Go(Primary, IF heap.flag THEN "smoke" ELSE "heap_init")
      BY <2>3 DEF ClaimHeap
    <3>2. (IF heap.flag THEN "smoke" ELSE "heap_init") # "exception_handler"
      OBVIOUS
    <3>3. QED
      BY <1>3, <3>1, <3>2
  <2>4. CASE InitHeap(Primary)
    BY <1>3, <2>4 DEF InitHeap
  <2>5. QED
    BY <1>4, <2>1, <2>2, <2>3, <2>4
<1>5. CASE SmokePasses(Primary) \/ SmokePanics(Primary) \/ AllocationFails(Primary)
           \/ HandleException(Primary)
  BY <1>3, <1>5 DEF SmokePasses, SmokePanics, AllocationFails, HandleException, Say
<1>6. CASE ClaimConsole(Primary)
  <2>1. Go(Primary, IF console THEN "print" ELSE "uart_off")
    BY <1>6 DEF ClaimConsole
  <2>2. (IF console THEN "print" ELSE "uart_off") # "exception_handler"
    OBVIOUS
  <2>3. QED
    BY <1>3, <2>1, <2>2
<1>7. CASE UartOff(Primary) \/ UartOn(Primary)
  BY <1>3, <1>7 DEF UartOff, UartOn
<1>8. CASE PutText(Primary)
  BY <1>2, <1>8 DEF PutText, FirstCpuOnly, AreaIsOwn
<1>9. CASE Printed(Primary)
  <2>1. after[Primary] # "exception_handler"
    BY <1>1 DEF Handling
  <2>2. QED
    BY <1>3, <1>9, <2>1 DEF Printed
<1>10. CASE Trigger(Primary, b) \/ Fault(Primary) \/ FaultUnguarded(Primary)
  BY <1>3, <1>10 DEF Trigger, Fault, Raise, FaultUnguarded
<1>11. CASE SaveRegisters(Primary)
  BY <1>3, <1>11 DEF SaveRegisters
<1>12. QED
  BY <1>4, <1>5, <1>6, <1>7, <1>8, <1>9, <1>10, <1>11 DEF CpuStep, CpuFault

(* When the runner starts, nothing has been printed but what may be in a   *)
(* log of an earlier run, which is whole.                                  *)
LEMMA OrderlyInit == Init => OutputIsOrderly
<1> SUFFICES ASSUME Init PROVE OutputIsOrderly
  OBVIOUS
<1>1. /\ \A c \in Cpus : pc[c] = "_start" /\ text[c] = <<>>
      /\ Primary \in Cpus /\ console = FALSE /\ uart = [enabled |-> FALSE, fifo |-> <<>>]
  BY BootAssumption DEF Init, BootInit
<1>2. FirstCpuOnly /\ NotYetRunning /\ AreaIsOwn
  BY <1>1 DEF FirstCpuOnly, NotYetRunning, AreaIsOwn
<1>3. ASSUME NEW seq, Whole(seq), Honest(seq), Ends(seq)
      PROVE  Printing(seq, <<>>, "_start", FALSE, FALSE)
  BY <1>3 DEF Printing, Remainder, Honest
<1>4. Whole(<<>>) /\ Honest(<<>>) /\ Ends(<<>>)
  BY DEF Whole, Honest, Ends
<1>5. ASSUME NEW old \in Stale
      PROVE  old \in Seq(Halves) /\ Whole(old) /\ Honest(old) /\ Ends(old)
  <2>0. PICK line \in {"booted", "exception"} : old = Line(line, 0, 0)
    BY DEF Stale
  <2>1. /\ Len(old) = 2 /\ DOMAIN old = {1, 2}
        /\ old[1] = Half(line, "head", 0, 0) /\ old[2] = Half(line, "tail", 0, 0)
    BY <2>0 DEF Line
  <2>2. /\ old[1].half = "head" /\ old[1].line = line
        /\ old[2].half = "tail" /\ old[2].line = line /\ TailOf(old[1]) = old[2]
    BY <2>1 DEF Half, TailOf
  <2>3. old \in Seq(Halves)
    BY <2>0, LineHalves DEF Lines
  <2>4. Whole(old)
    BY <2>1, <2>2 DEF Whole
  <2>5. QED
    BY <2>1, <2>2, <2>3, <2>4 DEF Honest, Ends
<1>6. Output = log
  <2>1. log \in Seq(Halves)
    <3>1. <<>> \in Seq(Halves) /\ Stale \subseteq Seq(Halves)
      BY <1>5
    <3>2. QED
      BY <3>1, Zenon DEF Init
  <2>2. QED
    BY <1>1, <2>1 DEF Output
<1>7. Printing(Output, <<>>, "_start", FALSE, FALSE)
  BY <1>3, <1>4, <1>5, <1>6 DEF Init
<1>8. QED
  BY <1>1, <1>2, <1>7 DEF OutputIsOrderly

(* Every step of the composition keeps the output in order.                *)
LEMMA OrderlyStep ==
  Types /\ Handling /\ ChildFollows /\ OutputIsOrderly /\ [Next]_vars => OutputIsOrderly'
<1> SUFFICES ASSUME Types, Handling, ChildFollows, OutputIsOrderly, [Next]_vars
             PROVE  OutputIsOrderly'
  OBVIOUS
<1>1. /\ FirstCpuOnly /\ NotYetRunning /\ AreaIsOwn
      /\ Printing(Output, text[Primary], pc[Primary], uart.enabled, console)
  BY DEF OutputIsOrderly
<1>2. /\ Primary \in Cpus /\ uart.enabled \in BOOLEAN /\ console \in BOOLEAN
      /\ uart.fifo \in Seq(Halves) /\ log \in Seq(Halves)
  BY <1>1, BootAssumption DEF Types, Printing
<1>3. CASE RunnerStep \/ Tick \/ QemuOpens \/ QemuDies \/ QemuExits
  <2>1. /\ pc' = pc /\ text' = text /\ own' = own /\ console' = console /\ uart' = uart
        /\ area' = area /\ log' \in {log, <<>>}
    BY <1>3, HostLeavesGuest DEF guest, cpu
  <2>2. qemu' \in {"none", "started"} => qemu \in {"none", "started"}
    <3>1. CASE Build \/ Launch \/ Status \/ ClearLog \/ Spawn
      BY <3>1 DEF Build, Launch, Status, ClearLog, Spawn, ChildFollows
    <3>2. CASE CheckDeadline \/ TryWait \/ Look \/ Sleep \/ Kill \/ Wait
      BY <3>2 DEF CheckDeadline, TryWait, Look, Sleep, Kill, Wait
    <3>3. CASE Tick \/ QemuOpens \/ QemuDies \/ QemuExits
      BY <3>3 DEF Tick, QemuOpens, QemuDies, QemuExits
    <3>4. QED
      BY <1>3, <3>1, <3>2, <3>3 DEF RunnerStep
  <2>3. log' # log => qemu \in {"none", "started"}
    <3>1. CASE ClearLog
      BY <3>1 DEF ClearLog, ChildFollows
    <3>2. CASE QemuOpens
      BY <3>2 DEF QemuOpens
    <3>3. CASE ~ClearLog /\ ~QemuOpens
      BY <1>3, <3>3 DEF RunnerStep, Build, Launch, Status, Spawn, CheckDeadline, TryWait, Look,
                        Sleep, Kill, Wait, Tick, QemuDies, QemuExits
    <3>4. QED
      BY <3>1, <3>2, <3>3
  <2>4. FirstCpuOnly' /\ NotYetRunning' /\ AreaIsOwn'
    BY <1>1, <2>1, <2>2 DEF FirstCpuOnly, NotYetRunning, AreaIsOwn
  <2>5. CASE log' = log
    BY <1>1, <2>1, <2>4, <2>5 DEF OutputIsOrderly, Output
  <2>6. CASE log' # log
    <3>1. pc[Primary] = "_start" /\ uart.fifo = <<>> /\ log' = <<>>
      BY <1>1, <2>1, <2>3, <2>6 DEF NotYetRunning
    <3>2. Output' = <<>>
      BY <2>1, <3>1 DEF Output
    <3>3. Printing(<<>>, text[Primary], "_start", uart.enabled, console)
      BY <1>1, <1>2, <3>1, EmptyPrinting
    <3>4. QED
      BY <2>1, <2>4, <3>1, <3>2, <3>3 DEF OutputIsOrderly
  <2>7. QED
    BY <2>5, <2>6
<1>4. CASE \E c \in Cpus : GuestStep(c) \/ GuestFault(c)
  <2>1. PICK c \in Cpus : GuestStep(c) \/ GuestFault(c)
    BY <1>4
  <2>2. PICK b : CpuStep(c, b) \/ CpuFault(c)
    BY <2>1 DEF GuestStep, GuestFault
  <2>3. qemu' = "running"
    BY <2>1 DEF GuestStep, GuestFault, runner
  <2>4. NotYetRunning'
    BY <2>3 DEF NotYetRunning
  <2>5. CASE c = Primary
    <3>1. Printing(Output, text[Primary], pc[Primary], uart.enabled, console)'
      BY <2>2, <2>5, FirstCpuPrints
    <3>2. FirstCpuOnly' /\ AreaIsOwn'
      BY <2>2, <2>5, FirstCpuAlone
    <3>3. QED
      BY <2>4, <3>1, <3>2 DEF OutputIsOrderly
  <2>6. CASE c # Primary
    <3>1. /\ pc' = [pc EXCEPT ![c] = pc'[c]]
          /\ pc'[c] \in {"secondary_hold", "lost"}
          /\ text' = text /\ own' = own /\ uart' = uart /\ area' = area
          /\ console' = console /\ log' = log
      BY <2>2, <2>6, OthersHold
    <3>2. pc'[Primary] = pc[Primary] /\ \A d \in Cpus \ {c} : pc'[d] = pc[d]
      BY <1>2, <2>6, <3>1 DEF Types
    <3>3. FirstCpuOnly' /\ AreaIsOwn'
      BY <1>1, <3>1, <3>2 DEF FirstCpuOnly, AreaIsOwn
    <3>4. QED
      BY <1>1, <2>4, <3>1, <3>2, <3>3 DEF OutputIsOrderly, Output
  <2>7. QED
    BY <2>5, <2>6
<1>5. CASE UartSends
  <2>1. /\ uart.fifo # <<>> /\ log' = Append(log, Head(uart.fifo))
        /\ uart'.fifo = Tail(uart.fifo) /\ uart'.enabled = uart.enabled
        /\ pc' = pc /\ text' = text /\ own' = own /\ console' = console /\ area' = area
        /\ qemu' = "running"
    BY <1>5 DEF UartSends, Drain, cpu, runner, Types
  <2>2. Output' = Output
    BY <1>2, <2>1, SentIsSame DEF Output
  <2>3. FirstCpuOnly' /\ NotYetRunning' /\ AreaIsOwn'
    BY <1>1, <2>1 DEF FirstCpuOnly, NotYetRunning, AreaIsOwn
  <2>4. QED
    BY <1>1, <2>1, <2>2, <2>3 DEF OutputIsOrderly
<1>6. CASE UNCHANGED vars
  BY <1>1, <1>6 DEF OutputIsOrderly, FirstCpuOnly, NotYetRunning, AreaIsOwn, Output, vars,
                    guest, cpu, runner
<1>7. QED
  BY <1>3, <1>4, <1>5, <1>6 DEF Next

(* The same, of every reachable state.                                     *)
LEMMA AlwaysOrderly == Spec => []OutputIsOrderly
<1>1. Invariant => Types /\ Handling
  BY DEF Invariant
<1>2. Init => ChildFollows
  BY DEF Init, ChildFollows, NoOrphan
<1>3. QED
  BY <1>1, <1>2, InvariantInit, InvariantStep, ChildStep, OrderlyInit, OrderlyStep, PTL DEF Spec

(* console.rs, without a lock: the tail of a line comes right after its    *)
(* head, unless an exception report cuts in, whatever the CPUs and the     *)
(* UART interleave and however many exceptions there are.                  *)
THEOREM LinesAreWhole == Spec => []LineIsWhole
<1>1. OutputIsOrderly => LineIsWhole
  BY DEF OutputIsOrderly, Printing, Whole, TailOf, LineIsWhole
<1>2. QED
  BY <1>1, AlwaysOrderly, PTL

(* exception.rs: the one save area of all CPUs and all exceptions never    *)
(* holds another exception's registers when the handler copies it.         *)
THEOREM DumpsMatch == Spec => []DumpMatches
<1>1. OutputIsOrderly => DumpMatches
  BY DEF OutputIsOrderly, Printing, Honest, DumpMatches
<1>2. QED
  BY <1>1, AlwaysOrderly, PTL
=============================================================================
