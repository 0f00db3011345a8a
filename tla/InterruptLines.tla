--------------------------- MODULE InterruptLines ---------------------------
(***************************************************************************)
(* The interrupt lines of a 6510: src/src/interrupt.h, interrupt.c, and    *)
(* the CPU that looks at them between two opcodes (6510core.c, with the    *)
(* delays of drive/drivecpu.c, which are those of maincpu.c).              *)
(*                                                                         *)
(* Chips set and clear their lines at any cycle.  What the CPU knows are   *)
(* counters, a mask of what is pending, and the clocks of the last changes *)
(* which the clock guard warps.                                            *)
(***************************************************************************)
EXTENDS Integers, FiniteSets

CONSTANTS
  IntSource,     \* the interrupt sources: num_ints
  IntClockMax,   \* CLOCK_MAX
  IntGuardMax,   \* clk_max_value of the guard
  IntSubMin,     \* CLKGUARD_SUB_MIN
  PushCycles     \* the cycles of DO_INTERRUPT up to the vector: 5

INTERRUPT_DELAY == 2
Grace == 3          \* a line that was just cleared may still interrupt
IntSub == IntGuardMax - IntSubMin

ASSUME IntAssumption ==
  /\ IsFiniteSet(IntSource)
  /\ IntClockMax \in Nat /\ IntGuardMax \in Nat /\ IntSubMin \in Nat
  /\ IntSubMin >= Grace /\ IntSubMin < IntGuardMax
  /\ 6 + Grace < IntClockMax /\ PushCycles \in Nat

VARIABLES
  cs,        \* interrupt_cpu_status_t
  cpu,       \* the CPU: its clock, its I flag and where it is
  truth      \* history: what happened on the lines, in cycles

lineVars == <<cs, cpu, truth>>

Kinds == {"plain", "branch", "enables", "disables", "brk"}

(***************************************************************************)
(* irq, nmi, off: the cycles since the IRQ and the NMI were triggered and  *)
(* since the last IRQ line was cleared, up to Grace.  edge: an NMI line    *)
(* went active that was not served yet.                                    *)
(***************************************************************************)
ResetStatus ==
  [pending |-> [i \in IntSource |-> {}], nirq |-> 0, nnmi |-> 0, global |-> {},
   irq_clk |-> 0, nmi_clk |-> 0, irq_pending_clk |-> IntClockMax]

ResetTruth == [irq |-> Grace, nmi |-> Grace, off |-> Grace, edge |-> FALSE]

LinesInit ==
  /\ cs = ResetStatus /\ truth = ResetTruth
  /\ cpu = [clk |-> 6, pc |-> "opcode", cycle |-> 0, interrupt |-> TRUE, last |-> "plain"]

Older(n) == IF n < Grace THEN n + 1 ELSE n

-----------------------------------------------------------------------------
(* The chips. *)

Asserted(i, line) == [cs.pending EXCEPT ![i] = @ \cup {line}]
Released(i, line) == [cs.pending EXCEPT ![i] = @ \ {line}]

(* interrupt_set_irq, value 1 *)
RaiseIrq(i) ==
  /\ "IRQ" \notin cs.pending[i]
  /\ cs' = [cs EXCEPT !.nirq = @ + 1, !.global = @ \cup {"IRQ", "IRQPEND"},
                      !.pending = Asserted(i, "IRQ"), !.irq_pending_clk = IntClockMax,
                      !.irq_clk = cpu.clk]
  /\ truth' = [truth EXCEPT !.irq = 0]
  /\ UNCHANGED cpu

(* Fault: the first line that is cleared ends the IRQ. *)
ClearIrq_first(i) ==
  /\ "IRQ" \in cs.pending[i]
  /\ cs' = [cs EXCEPT !.nirq = @ - 1, !.pending = Released(i, "IRQ"),
                      !.global = @ \ {"IRQ"}, !.irq_pending_clk = cpu.clk + Grace]
  /\ truth' = [truth EXCEPT !.off = 0]
  /\ UNCHANGED cpu

(* interrupt_set_irq, value 0 *)
ClearIrq(i) ==
  /\ "IRQ" \in cs.pending[i]
  /\ IF cs.nirq = 1
     THEN /\ cs' = [cs EXCEPT !.nirq = 0, !.pending = Released(i, "IRQ"),
                              !.global = @ \ {"IRQ"}, !.irq_pending_clk = cpu.clk + Grace]
          /\ truth' = [truth EXCEPT !.off = 0]
     ELSE /\ cs' = [cs EXCEPT !.nirq = @ - 1, !.pending = Released(i, "IRQ")]
          /\ UNCHANGED truth
  /\ UNCHANGED cpu

NewEdge == \A j \in IntSource : "NMI" \notin cs.pending[j]

(* Fault: each line has an edge of its own. *)
RaiseNmi_each(i) ==
  /\ "NMI" \notin cs.pending[i]
  /\ cs' = [cs EXCEPT !.nnmi = @ + 1, !.pending = Asserted(i, "NMI"), !.global = @ \cup {"NMI"},
                      !.nmi_clk = IF "NMI" \in cs.global THEN @ ELSE cpu.clk]
  /\ truth' = [truth EXCEPT !.nmi = IF "NMI" \in cs.global THEN @ ELSE 0, !.edge = @ \/ NewEdge]
  /\ UNCHANGED cpu

(* interrupt_set_nmi, value 1: the CPU sees the edge of all lines together. *)
RaiseNmi(i) ==
  /\ "NMI" \notin cs.pending[i]
  /\ IF cs.nnmi = 0 /\ "NMI" \notin cs.global
     THEN /\ cs' = [cs EXCEPT !.nnmi = 1, !.pending = Asserted(i, "NMI"),
                              !.global = @ \cup {"NMI"}, !.nmi_clk = cpu.clk]
          /\ truth' = [truth EXCEPT !.nmi = 0, !.edge = @ \/ NewEdge]
     ELSE /\ cs' = [cs EXCEPT !.nnmi = @ + 1, !.pending = Asserted(i, "NMI")]
          /\ truth' = [truth EXCEPT !.edge = @ \/ NewEdge]
  /\ UNCHANGED cpu

(* interrupt_set_nmi, value 0 *)
ClearNmi(i) ==
  /\ "NMI" \in cs.pending[i]
  /\ cs' = [cs EXCEPT !.nnmi = @ - 1, !.pending = Released(i, "NMI")]
  /\ UNCHANGED <<cpu, truth>>

-----------------------------------------------------------------------------
(* The CPU. *)

(* A cycle: of an opcode, of BRK, or before the vector is read. *)
Cycle ==
  /\ cpu.pc # "push" \/ cpu.cycle < PushCycles
  /\ cpu.clk < IntClockMax - Grace - 1
  /\ cpu' = [cpu EXCEPT !.clk = @ + 1, !.cycle = IF cpu.pc = "push" THEN @ + 1 ELSE @]
  /\ truth' = [truth EXCEPT !.irq = Older(@), !.nmi = Older(@), !.off = Older(@)]
  /\ UNCHANGED cs

(* interrupt_ack_nmi and interrupt_ack_irq *)
AckNmi(s) == [s EXCEPT !.global = @ \ {"NMI"}]
AckIrq(s) == [s EXCEPT !.global = @ \ {"IRQPEND"}, !.irq_pending_clk = IntClockMax]

(* Fault: an IRQ that was cleared is pending as long as an opcode lasts. *)
Looked_keeps == cs

(* The state of the lines is looked at when an opcode has ended. *)
Looked ==
  IF "IRQ" \notin cs.global /\ "IRQPEND" \in cs.global /\ cs.irq_pending_clk <= cpu.clk
  THEN AckIrq(cs) ELSE cs

Delay == INTERRUPT_DELAY + (IF cpu.last = "branch" THEN 1 ELSE 0)

(* interrupt_check_nmi_delay *)
NmiDue(s) ==
  "NMI" \in s.global /\ cpu.last # "brk" /\ cpu.clk >= s.nmi_clk + Delay

(* interrupt_check_irq_delay, to where it looks at the last opcode *)
IrqSeen(s) ==
  /\ s.global \cap {"IRQ", "IRQPEND"} # {}
  /\ ~ cpu.interrupt \/ cpu.last = "disables"
  /\ cpu.clk >= s.irq_clk + Delay

(* An IRQ that is gone does not wait for another opcode. *)
Forgotten(s) ==
  IF "IRQ" \notin s.global THEN [s EXCEPT !.global = @ \ {"IRQPEND"}] ELSE s

(* DO_INTERRUPT begins. *)
TakeInterrupt ==
  /\ cpu.pc = "opcode"
  /\ NmiDue(Looked) \/ (IrqSeen(Looked) /\ cpu.last # "enables")
  /\ cs' = Looked
  /\ cpu' = [cpu EXCEPT !.pc = "push", !.cycle = 0, !.interrupt = TRUE]
  /\ UNCHANGED truth

(* DO_INTERRUPT ends: an NMI takes over the IRQ that was seen. *)
Vector ==
  /\ cpu.pc = "push" /\ cpu.cycle = PushCycles
  /\ IF "NMI" \in cs.global /\ cpu.clk >= cs.nmi_clk + INTERRUPT_DELAY
     THEN cs' = Forgotten(AckNmi(cs)) /\ truth' = [truth EXCEPT !.edge = FALSE]
     ELSE cs' = Forgotten(AckIrq(cs)) /\ UNCHANGED truth
  /\ cpu' = [cpu EXCEPT !.pc = "opcode", !.cycle = 0, !.last = "brk"]

(* No interrupt is due: the next opcode, and what it does to the I flag.  *)
NextOpcode(kind, i) ==
  /\ cpu.pc = "opcode"
  /\ ~ NmiDue(Looked) /\ ~ (IrqSeen(Looked) /\ cpu.last # "enables")
  /\ kind = "enables"  => cpu.interrupt /\ ~ i
  /\ kind = "disables" => ~ cpu.interrupt /\ i
  /\ kind \in {"branch", "brk"} => i = cpu.interrupt
  /\ cs' = Forgotten(IF IrqSeen(Looked) THEN [Looked EXCEPT !.global = @ \cup {"IRQPEND"}]
                     ELSE Looked)
  /\ cpu' = [cpu EXCEPT !.last = kind, !.interrupt = i,
                        !.pc = IF kind = "brk" THEN "brk" ELSE "opcode"]
  /\ UNCHANGED truth

(* BRK reads its vector, unless an interrupt takes it over. *)
Break ==
  /\ cpu.pc = "brk"
  /\ IF "NMI" \in cs.global /\ cpu.clk >= cs.nmi_clk + INTERRUPT_DELAY
     THEN cs' = AckNmi(cs) /\ truth' = [truth EXCEPT !.edge = FALSE]
     ELSE /\ UNCHANGED truth
          /\ cs' = IF /\ cs.global \cap {"IRQ", "IRQPEND"} # {} /\ ~ cpu.interrupt
                      /\ cpu.clk >= cs.irq_clk + INTERRUPT_DELAY
                   THEN AckIrq(cs) ELSE cs
  /\ cpu' = [cpu EXCEPT !.pc = "opcode", !.interrupt = TRUE]

(* cpu_reset with interrupt_cpu_status_reset *)
ResetCpu ==
  /\ cpu.pc = "opcode"
  /\ cs' = ResetStatus /\ truth' = ResetTruth
  /\ cpu' = [cpu EXCEPT !.clk = 6]

Warped(clk) == IF clk > IntSub THEN clk - IntSub ELSE 0

(* Fault: the clock of the NMI is forgotten. *)
WarpLines_irq ==
  /\ cpu.pc = "opcode" /\ cpu.clk >= IntGuardMax
  /\ cpu' = [cpu EXCEPT !.clk = @ - IntSub]
  /\ cs' = [cs EXCEPT !.irq_clk = Warped(@),
                      !.irq_pending_clk = IF @ < IntClockMax THEN Warped(@) ELSE @]
  /\ UNCHANGED truth

(* clk_guard_prevent_overflow, with interrupt_cpu_status_time_warp. *)
WarpLines ==
  /\ cpu.pc = "opcode" /\ cpu.clk >= IntGuardMax
  /\ cpu' = [cpu EXCEPT !.clk = @ - IntSub]
  /\ cs' = [cs EXCEPT !.irq_clk = Warped(@), !.nmi_clk = Warped(@),
                      !.irq_pending_clk = IF @ < IntClockMax THEN Warped(@) ELSE @]
  /\ UNCHANGED truth

LinesNext ==
  \/ \E i \in IntSource : RaiseIrq(i) \/ ClearIrq(i) \/ RaiseNmi(i) \/ ClearNmi(i)
  \/ Cycle \/ TakeInterrupt \/ Vector \/ Break \/ ResetCpu \/ WarpLines
  \/ \E kind \in Kinds, i \in BOOLEAN : NextOpcode(kind, i)

LinesSpec == LinesInit /\ [][LinesNext]_lineVars
-----------------------------------------------------------------------------

(* The mask, the counters and the clocks have the values their C types and *)
(* CLOCK_MAX allow; a clock that the guard warps does not fall below 0     *)
(* (interrupt_cpu_status_time_warp).                                       *)
LinesTypeOK ==
  /\ cs \in [pending : [IntSource -> SUBSET {"IRQ", "NMI"}], nirq : Nat, nnmi : Nat,
             global : SUBSET {"IRQ", "IRQPEND", "NMI"},
             irq_clk : 0 .. IntClockMax, nmi_clk : 0 .. IntClockMax,
             irq_pending_clk : 0 .. IntClockMax]
  /\ cpu \in [clk : 0 .. IntClockMax - Grace - 1, pc : {"opcode", "push", "brk"},
              cycle : 0 .. PushCycles, interrupt : BOOLEAN, last : Kinds]
  /\ truth \in [irq : 0 .. Grace, nmi : 0 .. Grace, off : 0 .. Grace, edge : BOOLEAN]

Active(line) == {i \in IntSource : line \in cs.pending[i]}

(* The counters and the mask of what is pending follow the lines: the IRQ  *)
(* is pending exactly while a line is active (interrupt.h:118).            *)
LinesCounted ==
  /\ cs.nirq = Cardinality(Active("IRQ")) /\ cs.nnmi = Cardinality(Active("NMI"))
  /\ "IRQ" \in cs.global <=> Active("IRQ") # {}

(* One NMI per edge: whoever raises and clears lines meanwhile, an edge is *)
(* pending until it is served, and nothing else is (interrupt.h:167).      *)
EdgeLatched == truth.edge <=> "NMI" \in cs.global

(* The clocks tell for how long something has been so, however often the   *)
(* guard has warped them, and although they stop at 0 (interrupt.c:130).   *)
Since(clk) == IF cpu.clk - clk < Grace THEN cpu.clk - clk ELSE Grace

ClocksTellAges ==
  /\ truth.irq = Since(cs.irq_clk) /\ truth.nmi = Since(cs.nmi_clk)
  /\ cs.irq_pending_clk # IntClockMax =>
       cs.irq_pending_clk - cpu.clk = Grace - truth.off
       \/ (truth.off = Grace /\ cs.irq_pending_clk <= cpu.clk)

(* The CPU is interrupted only for a reason: an NMI edge, or an IRQ line   *)
(* that is active or was a moment ago, at least two cycles old.            *)
InterruptsHaveCause ==
  [][TakeInterrupt =>
       \/ truth.edge /\ truth.nmi >= INTERRUPT_DELAY
       \/ /\ Active("IRQ") # {} \/ truth.off < Grace
          /\ truth.irq >= INTERRUPT_DELAY]_lineVars
=============================================================================
