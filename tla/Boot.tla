--------------------------------- MODULE Boot ---------------------------------
(***************************************************************************)
(* One boot of the AArch64 image, CPU by CPU: _start, kernel_main, the     *)
(* early heap, the exception vector and the UART behind early_println.     *)
(*                                                                         *)
(* Text is cut where another CPU or an exception can cut it: a line is a   *)
(* head and a tail, written one after the other.  A register dump carries  *)
(* the number of the exception it is of, and of the one whose registers it *)
(* shows.                                                                  *)
(***************************************************************************)
EXTENDS Naturals, Sequences, FiniteSets

CONSTANTS
  Cpus,      \* the CPUs of the machine
  Primary,   \* the one whose affinity, by MPIDR_EL1, is zero
  FifoSize,  \* what the UART holds before it is full
  MaxFaults  \* exceptions that happen by themselves

ASSUME BootAssumption ==
  /\ Primary \in Cpus
  /\ FifoSize \in Nat \ {0}
  /\ MaxFaults \in Nat

VARIABLES
  pc,        \* where each CPU is
  text,      \* what each CPU has still to print
  after,     \* where each CPU goes when it has printed it
  own,       \* the exception each CPU is handling, 0 when none
  heap,      \* EARLY_HEAP_INITIALIZED, and whether the allocator has memory
  console,   \* INITIALIZED of the console
  uart,      \* the UART: enabled, and the bytes it has not sent
  area,      \* __ousia_exception_registers
  faults,    \* exceptions there have been
  passed,    \* whether the native smoke came to its end
  log        \* what the serial port has put out

cpu == <<pc, text, after, own>>
guest == <<cpu, heap, console, uart, area, faults, passed>>

Half(line, half, of, shown) == [line |-> line, half |-> half, of |-> of, shown |-> shown]

Line(line, of, shown) ==
  <<Half(line, "head", of, shown), Half(line, "tail", of, shown)>>

BootInit ==
  /\ pc = [c \in Cpus |-> "_start"]
  /\ text = [c \in Cpus |-> <<>>]
  /\ after = [c \in Cpus |-> "wait_forever"]
  /\ own = [c \in Cpus |-> 0]
  /\ heap = [flag |-> FALSE, ready |-> FALSE]
  /\ console = FALSE
  /\ uart = [enabled |-> FALSE, fifo |-> <<>>]
  /\ area = 0
  /\ faults = 0
  /\ passed = FALSE

Go(c, to) == pc' = [pc EXCEPT ![c] = to]

(* early_println and early_print: init_once comes first.                   *)
Say(c, lines, to) ==
  /\ Go(c, "init_once")
  /\ text' = [text EXCEPT ![c] = lines]
  /\ after' = [after EXCEPT ![c] = to]

-----------------------------------------------------------------------------
(* boot/aarch64.rs                                                         *)

(* Mutant: every CPU takes itself for the first.                           *)
IsPrimary_Any(c) == TRUE

IsPrimary(c) == c = Primary

Start(c) ==
  /\ pc[c] = "_start"
  /\ Go(c, IF IsPrimary(c) THEN "install_exception_vector" ELSE "secondary_hold")
  /\ UNCHANGED <<text, after, own, heap, console, uart, area, faults, passed>>

(* The FPU is on and there is a stack; from here on the vector catches     *)
(* what goes wrong.                                                        *)
InstallExceptionVector(c) ==
  /\ pc[c] = "install_exception_vector"
  /\ Go(c, "init_early_heap")
  /\ UNCHANGED <<text, after, own, heap, console, uart, area, faults, passed>>

-----------------------------------------------------------------------------
(* mm/heap.rs and kernel-bin/entry.rs                                      *)

(* The flag is set before the memory is there, and whoever finds it set    *)
(* goes on.                                                                *)
ClaimHeap(c) ==
  /\ pc[c] = "init_early_heap"
  /\ Go(c, IF heap.flag THEN "smoke" ELSE "heap_init")
  /\ heap' = [heap EXCEPT !.flag = TRUE]
  /\ UNCHANGED <<text, after, own, console, uart, area, faults, passed>>

InitHeap(c) ==
  /\ pc[c] = "heap_init"
  /\ Go(c, "smoke")
  /\ heap' = [heap EXCEPT !.ready = TRUE]
  /\ UNCHANGED <<text, after, own, console, uart, area, faults, passed>>

(* run_ousia_native_kernel_smoke: it passes, one of its expects panics, or *)
(* its first allocation fails because there is no heap.                    *)
SmokePasses(c) ==
  /\ pc[c] = "smoke" /\ heap.ready
  /\ passed' = TRUE
  /\ Say(c, Line("booted", 0, 0), "trigger")
  /\ UNCHANGED <<own, heap, console, uart, area, faults>>

SmokePanics(c) ==
  /\ pc[c] = "smoke" /\ heap.ready
  /\ Say(c, Line("panic", 0, 0), "wait_forever")
  /\ UNCHANGED <<own, heap, console, uart, area, faults, passed>>

AllocationFails(c) ==
  /\ pc[c] = "smoke" /\ ~heap.ready
  /\ Say(c, Line("allocation failed", 0, 0), "wait_forever")
  /\ UNCHANGED <<own, heap, console, uart, area, faults, passed>>

-----------------------------------------------------------------------------
(* arch/aarch64/console.rs                                                 *)

ClaimConsole(c) ==
  /\ pc[c] = "init_once"
  /\ Go(c, IF console THEN "print" ELSE "uart_off")
  /\ console' = TRUE
  /\ UNCHANGED <<text, after, own, heap, uart, area, faults, passed>>

(* Pl011::init: off, programmed, and on again.                             *)
UartOff(c) ==
  /\ pc[c] = "uart_off"
  /\ Go(c, "uart_on")
  /\ uart' = [uart EXCEPT !.enabled = FALSE]
  /\ UNCHANGED <<text, after, own, heap, console, area, faults, passed>>

UartOn(c) ==
  /\ pc[c] = "uart_on"
  /\ Go(c, "print")
  /\ uart' = [uart EXCEPT !.enabled = TRUE]
  /\ UNCHANGED <<text, after, own, heap, console, area, faults, passed>>

(* Mutant: the FIFO is waited for to be full, not to have room.            *)
HasRoom_WhenFull(u) == Len(u.fifo) = FifoSize

(* FR.TXFF is clear.                                                       *)
HasRoom(u) == Len(u.fifo) < FifoSize

(* put_char: while the FIFO is full the CPU spins.  What is written to a   *)
(* UART that is off is lost.                                               *)
PutText(c) ==
  /\ pc[c] = "print" /\ text[c] # <<>>
  /\ HasRoom(uart)
  /\ uart' = IF uart.enabled
             THEN [uart EXCEPT !.fifo = Append(@, Head(text[c]))]
             ELSE uart
  /\ text' = [text EXCEPT ![c] = Tail(@)]
  /\ UNCHANGED <<pc, after, own, heap, console, area, faults, passed>>

Printed(c) ==
  /\ pc[c] = "print" /\ text[c] = <<>>
  /\ Go(c, after[c])
  /\ UNCHANGED <<text, after, own, heap, console, uart, area, faults, passed>>

(* External: the UART sends.                                               *)
Drain ==
  /\ uart.fifo # <<>>
  /\ log' = Append(log, Head(uart.fifo))
  /\ uart' = [uart EXCEPT !.fifo = Tail(@)]
  /\ UNCHANGED <<cpu, heap, console, area, faults, passed>>

-----------------------------------------------------------------------------
(* arch/aarch64/exception.rs                                               *)

Unguarded == {"_start", "install_exception_vector"}
Waiting == {"secondary_hold", "wait_forever", "lost"}

Raise(c) ==
  /\ faults' = faults + 1
  /\ own' = [own EXCEPT ![c] = faults + 1]
  /\ Go(c, "exception_entry")
  /\ UNCHANGED <<text, after, heap, console, uart, area, passed>>

(* trigger_diagnostic_exception_if_supported, in the image built for it.   *)
Trigger(c, exceptionSmoke) ==
  /\ pc[c] = "trigger"
  /\ IF exceptionSmoke
     THEN Raise(c)
     ELSE /\ Go(c, "wait_forever")
          /\ UNCHANGED <<text, after, own, heap, console, uart, area, faults, passed>>

(* Something goes wrong on a CPU that is running kernel code, the          *)
(* exception handler included.                                             *)
Fault(c) ==
  /\ faults < MaxFaults
  /\ pc[c] \notin Unguarded \cup Waiting
  /\ Raise(c)

(* Without a vector table the CPU runs off.                                *)
FaultUnguarded(c) ==
  /\ faults < MaxFaults
  /\ pc[c] \in Unguarded
  /\ Go(c, "lost")
  /\ faults' = faults + 1
  /\ UNCHANGED <<text, after, own, heap, console, uart, area, passed>>

(* Mutant: what an earlier exception saved is not overwritten.             *)
SaveRegisters_Once(c) ==
  /\ pc[c] = "exception_entry"
  /\ area' = IF area = 0 THEN own[c] ELSE area
  /\ Go(c, "exception_handler")
  /\ UNCHANGED <<text, after, own, heap, console, uart, faults, passed>>

(* The entry stub stores the registers in the one static area.             *)
SaveRegisters(c) ==
  /\ pc[c] = "exception_entry"
  /\ area' = own[c]
  /\ Go(c, "exception_handler")
  /\ UNCHANGED <<text, after, own, heap, console, uart, faults, passed>>

(* The handler copies the area, reports and never returns.                 *)
HandleException(c) ==
  /\ pc[c] = "exception_handler"
  /\ Say(c, Line("exception", own[c], own[c]) \o Line("registers", own[c], area),
         "wait_forever")
  /\ UNCHANGED <<own, heap, console, uart, area, faults, passed>>

-----------------------------------------------------------------------------

(* A step of one CPU that the code asks for.                               *)
CpuStep(c, exceptionSmoke) ==
  /\ \/ Start(c) \/ InstallExceptionVector(c)
     \/ ClaimHeap(c) \/ InitHeap(c)
     \/ SmokePasses(c) \/ SmokePanics(c) \/ AllocationFails(c)
     \/ ClaimConsole(c) \/ UartOff(c) \/ UartOn(c)
     \/ PutText(c) \/ Printed(c)
     \/ Trigger(c, exceptionSmoke)
     \/ SaveRegisters(c) \/ HandleException(c)
  /\ UNCHANGED log

(* A step nobody asked for.                                                *)
CpuFault(c) == (Fault(c) \/ FaultUnguarded(c)) /\ UNCHANGED log

Settled == uart.fifo = <<>> /\ \A c \in Cpus : pc[c] \in Waiting

-----------------------------------------------------------------------------

(* Everything that has left the CPUs in this boot, when the log began      *)
(* empty.                                                                  *)
Output == log \o uart.fifo

(* No line is torn, although nothing locks the UART: the tail of a line    *)
(* comes right after its head, unless an exception report does.            *)
LineIsWhole ==
  \A n \in DOMAIN Output :
    LET here == Output[n]
        TailOf(head) == [head EXCEPT !.half = "tail"]
    IN  /\ here.half = "tail" => n > 1 /\ TailOf(Output[n - 1]) = here
        /\ here.half = "head" /\ n < Len(Output) =>
             \/ Output[n + 1] = TailOf(here)
             \/ Output[n + 1].half = "head" /\ Output[n + 1].line = "exception"

(* A report shows the registers of its own exception, although every       *)
(* exception on every CPU saves them in the same place.                    *)
DumpMatches ==
  \A n \in DOMAIN Output : Output[n].line = "registers" => Output[n].shown = Output[n].of

=============================================================================
