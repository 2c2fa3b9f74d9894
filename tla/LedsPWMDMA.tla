----------------------------- MODULE LedsPWMDMA -----------------------------
(***************************************************************************)
(* The LED driver (ledpwm.cpp).  For every port a DMA channel feeds one    *)
(* FlexPWM submodule with pwmBuffer, one 16-bit element for each bit on    *)
(* the wire, between padding of zeros that is the LEDs' reset code.        *)
(* transfer() points a channel at the start of its buffer and arms it, the *)
(* channel's interrupt disarms it and takes the pin back.                  *)
(*                                                                         *)
(* The channel's major loop has BITER elements and reloads its counter     *)
(* CITER by itself.  Until the interrupt is taken the channel stays armed  *)
(* and moves elements of the next loop, and transfer() resets SADDR but    *)
(* not CITER: the next frame then ends that many elements early, and the   *)
(* elements after its end come from before the buffer.  transfer() also    *)
(* shares MCTRL of a PWM module with the interrupts of the other ports.    *)
(***************************************************************************)
EXTENDS Integers

CONSTANTS
  PortCount,           \* the ports are 0..PortCount - 1
  Module,              \* cfg[c].pwm, the PWM module of each port
  Sub,                 \* cfg[c].sub, its submodule
  Front, Data, Tail,   \* elements of the front padding, the LED data, the rest
  MaxLate              \* elements a channel may move before its interrupt is taken

Ports   == 0..PortCount - 1
Modules == {Module[c] : c \in Ports}

(* Bug: only one padding is counted. *)
BiterOfOnePadding == Front + Data

(* BITER_ELINKNO, the elements of one port's buffer *)
Biter == Front + Data + Tail

ASSUME DriverAssumption ==
  /\ PortCount \in Nat \ {0}
  /\ Front \in Nat /\ Data \in Nat \ {0} /\ Tail \in Nat /\ MaxLate \in Nat
  /\ MaxLate <= Tail /\ MaxLate <= Front
  (* ledpwm.cpp:55: PWM module + submodule combos have to be unique *)
  /\ \A c, d \in Ports : <<Module[c], Sub[c]>> = <<Module[d], Sub[d]>> => c = d

VARIABLES
  mux,    \* the pin of the port: "pwm" or "gpio"
  erq,    \* the channel is armed, DMA0->ERQ
  saddr,  \* TCD.SADDR, in elements from the start of the port's buffer
  citer,  \* TCD.CITER, elements left in the major loop
  int,    \* the channel's interrupt is pending
  run,    \* MCTRL.RUN of each PWM module
  pc, port, mctrl,  \* transfer(): its position, c, and the MCTRL it has loaded
  currentPage,
  clean,  \* history: the port was idle when it was last armed
  short,  \* history: elements its major loop lacked then
  sent,   \* history: elements of LED data on the wire since then, in order
  junk    \* history: something else than zeros and that data was on the wire

channel == <<saddr, citer, int>>
main    == <<pc, port, mctrl, currentPage>>
history == <<clean, short, sent, junk>>
vars    == <<mux, erq, channel, run, main, history>>

(* LedsPWMDMA::init: all pins to the PWM, all submodules running, all      *)
(* channels armed at a buffer of zeros.                                    *)
Init ==
  /\ mux = [c \in Ports |-> "pwm"] /\ erq = [c \in Ports |-> TRUE]
  /\ saddr = [c \in Ports |-> 0] /\ citer = [c \in Ports |-> Biter]
  /\ int = [c \in Ports |-> FALSE]
  /\ run = [m \in Modules |-> {Sub[c] : c \in Ports}]
  /\ pc = "idle" /\ port = 0 /\ mctrl = {} /\ currentPage = 0
  /\ clean = [c \in Ports |-> TRUE] /\ short = [c \in Ports |-> 0]
  /\ sent = [c \in Ports |-> 0] /\ junk = [c \in Ports |-> FALSE]

-----------------------------------------------------------------------------
(* A channel.  pwmBuffer is one array: before the buffer of a port lies    *)
(* the tail of the port before it, and before that of port 0 other memory. *)

Running(c) == Sub[c] \in run[Module[c]]

IsData(at) == at \in Front..Front + Data - 1

(* The element at `at' is one of another port's data, or not of pwmBuffer. *)
IsForeign(c, at) == at < 0 /\ (c = 0 \/ IsData(at + Biter))

Element(c) ==
  /\ erq[c] /\ Running(c)
  /\ int[c] => Biter - citer[c] < MaxLate
  /\ IF citer[c] = 1
     THEN /\ citer' = [citer EXCEPT ![c] = Biter]
          /\ saddr' = [saddr EXCEPT ![c] = @ + 1 - Biter]
          /\ int' = [int EXCEPT ![c] = TRUE]
     ELSE /\ citer' = [citer EXCEPT ![c] = @ - 1]
          /\ saddr' = [saddr EXCEPT ![c] = @ + 1]
          /\ UNCHANGED int
  /\ LET onWire   == mux[c] = "pwm"
         expected == onWire /\ saddr[c] = Front + sent[c]
     IN  /\ sent' = IF expected /\ IsData(saddr[c])
                    THEN [sent EXCEPT ![c] = @ + 1] ELSE sent
         /\ junk' = IF onWire /\ (IsForeign(c, saddr[c]) \/ (IsData(saddr[c]) /\ ~expected))
                    THEN [junk EXCEPT ![c] = TRUE] ELSE junk
  /\ UNCHANGED <<mux, erq, run, main, clean, short>>

(* CINT, CERQ, the pin to GPIO, MCTRL &= ~RUN(sub) *)
DMA_IRQHandler(c) ==
  /\ int[c]
  /\ int' = [int EXCEPT ![c] = FALSE]
  /\ erq' = [erq EXCEPT ![c] = FALSE]
  /\ mux' = [mux EXCEPT ![c] = "gpio"]
  /\ run' = [run EXCEPT ![Module[c]] = @ \ {Sub[c]}]
  /\ UNCHANGED <<saddr, citer, main, history>>

-----------------------------------------------------------------------------
(* transfer(), access by access: interrupts fall between any two. *)

Begin ==
  /\ pc = "idle"
  /\ pc' = "mux" /\ port' = 0
  /\ UNCHANGED <<mux, erq, channel, run, mctrl, currentPage, history>>

SetMux ==
  /\ pc = "mux"
  /\ mux' = [mux EXCEPT ![port] = "pwm"]
  /\ clean' = [clean EXCEPT ![port] = ~erq[port]]
  /\ short' = [short EXCEPT ![port] = Biter - citer[port]]
  /\ sent' = [sent EXCEPT ![port] = 0]
  /\ junk' = [junk EXCEPT ![port] = FALSE]
  /\ pc' = "saddr"
  /\ UNCHANGED <<erq, channel, run, port, mctrl, currentPage>>

SetSADDR ==
  /\ pc = "saddr"
  /\ saddr' = [saddr EXCEPT ![port] = 0]
  /\ pc' = "serq"
  /\ UNCHANGED <<mux, erq, citer, int, run, port, mctrl, currentPage, history>>

SetERQ ==
  /\ pc = "serq"
  /\ erq' = [erq EXCEPT ![port] = TRUE]
  /\ pc' = "load"
  /\ UNCHANGED <<mux, channel, run, port, mctrl, currentPage, history>>

(* MCTRL |= RUN(sub) is a load and a store. *)
LoadMCTRL ==
  /\ pc = "load"
  /\ mctrl' = run[Module[port]]
  /\ pc' = "store"
  /\ UNCHANGED <<mux, erq, channel, run, port, currentPage, history>>

NextPort ==
  IF port < PortCount - 1
  THEN pc' = "mux" /\ port' = port + 1 /\ UNCHANGED currentPage
  ELSE pc' = "idle" /\ port' = 0 /\ currentPage' = currentPage % 1

(* Bug: MCTRL = RUN(sub). *)
StoreOnlyRun ==
  /\ pc = "store"
  /\ run' = [run EXCEPT ![Module[port]] = {Sub[port]}]
  /\ mctrl' = {}
  /\ NextPort
  /\ UNCHANGED <<mux, erq, channel, history>>

StoreMCTRL ==
  /\ pc = "store"
  /\ run' = [run EXCEPT ![Module[port]] = mctrl \cup {Sub[port]}]
  /\ mctrl' = {}
  /\ NextPort
  /\ UNCHANGED <<mux, erq, channel, history>>

Transfer == Begin \/ SetMux \/ SetSADDR \/ SetERQ \/ LoadMCTRL \/ StoreMCTRL

Next == Transfer \/ \E c \in Ports : Element(c) \/ DMA_IRQHandler(c)

(* The PWM clocks every armed channel, interrupts are taken, and a         *)
(* transfer that has begun is finished.                                    *)
Fairness ==
  /\ WF_vars(pc # "idle" /\ Transfer)
  /\ \A c \in Ports : WF_vars(Element(c)) /\ WF_vars(DMA_IRQHandler(c))

Spec == Init /\ [][Next]_vars /\ Fairness

-----------------------------------------------------------------------------
TypeOK ==
  /\ mux \in [Ports -> {"pwm", "gpio"}] /\ erq \in [Ports -> BOOLEAN]
  /\ saddr \in [Ports -> Int] /\ citer \in [Ports -> 1..Biter]
  /\ int \in [Ports -> BOOLEAN]
  /\ run \in [Modules -> SUBSET {Sub[c] : c \in Ports}]
  /\ pc \in {"idle", "mux", "saddr", "serq", "load", "store"} /\ port \in Ports
  /\ mctrl \in SUBSET {Sub[c] : c \in Ports} /\ currentPage = 0
  /\ clean \in [Ports -> BOOLEAN] /\ short \in [Ports -> 0..Biter]
  /\ sent \in [Ports -> 0..Data] /\ junk \in [Ports -> BOOLEAN]

(* The port is being armed, or its frame has been overtaken by the next.   *)
Arming(c) == port = c /\ pc \in {"saddr", "serq", "load", "store"}

(* A frame whose port was idle when it was armed goes out whole before its *)
(* pin is taken away, even if the frame before it was overtaken, and even  *)
(* if the interrupt of the frame before it was late and left CITER short.  *)
WholeFrameIsSent ==
  [][ \A c \in Ports : clean[c] /\ mux[c] = "pwm" /\ mux'[c] = "gpio" => sent[c] = Data ]_vars

(* Such a frame puts nothing but zeros and its own data on the wire.  Only *)
(* port 0 may, when the interrupt of the frame before was late too: it has *)
(* no neighbour whose tail would be zero.                                  *)
OnlyOwnDataIsSent ==
  \A c \in Ports : clean[c] /\ junk[c] => c = 0 /\ short[c] > 0

(* An armed channel has its pin and its clock, although transfer() changes *)
(* MCTRL in two accesses around the interrupts of the module's other       *)
(* ports, and although it may have been armed while still in flight before.*)
ArmedPortIsDriven ==
  \A c \in Ports : clean[c] /\ erq[c] /\ ~Arming(c) => mux[c] = "pwm" /\ Running(c)

(* An armed channel always finishes: no lost update of MCTRL stops its     *)
(* clock, even when frames overtake each other for ever.                   *)
ChannelsFinish == \A c \in Ports : erq[c] ~> ~erq[c]

-----------------------------------------------------------------------------
(* The inductive invariant behind ArmedPortIsDriven: how far transfer() is *)
(* with the port it is arming, and that the MCTRL it has loaded still has  *)
(* the RUN bits of the other ports in flight when it stores it.            *)
Requested == \A c \in Ports : int[c] => erq[c]

PinIsTaken ==
  /\ pc \in {"saddr", "serq"} /\ clean[port] => ~erq[port] /\ mux[port] = "pwm"
  /\ pc \in {"load", "store"} /\ clean[port] /\ erq[port] => mux[port] = "pwm"

NoClockIsLost ==
  pc = "store" =>
    \A d \in Ports \ {port} :
      Module[d] = Module[port] /\ clean[d] /\ erq[d] => Sub[d] \in mctrl

(* The inductive invariant behind OnlyOwnDataIsSent and WholeFrameIsSent.  *)
(* However late, a channel is at most MaxLate elements into its next loop  *)
(* when it is disarmed; so many its next loop lacks.                       *)
LoopIsNearlyWhole ==
  \A c \in Ports : int[c] \/ ~erq[c] => Biter - citer[c] <= MaxLate

(* A port that was idle is armed at the start of its buffer. *)
ArmedFromTheStart ==
  pc \in {"saddr", "serq"} /\ clean[port] =>
    /\ citer[port] = Biter - short[port] /\ short[port] <= MaxLate
    /\ sent[port] = 0 /\ ~junk[port]
    /\ pc = "serq" => saddr[port] = 0

(* And then sends in order: SADDR and CITER move together, also when the   *)
(* loop starts again.                                                      *)
SentSoFar(c) ==
  IF int[c] \/ saddr[c] > Front + Data THEN Data
  ELSE IF saddr[c] > Front THEN saddr[c] - Front ELSE 0

SendsInOrder ==
  \A c \in Ports : clean[c] /\ erq[c] =>
    /\ saddr[c] + citer[c] = Biter - short[c] /\ short[c] <= MaxLate
    /\ ~int[c] => saddr[c] >= 0
    /\ sent[c] = SentSoFar(c)

DataInv == LoopIsNearlyWhole /\ ArmedFromTheStart /\ SendsInOrder /\ OnlyOwnDataIsSent

DriverInv == TypeOK /\ Requested /\ PinIsTaken /\ NoClockIsLost /\ ArmedPortIsDriven
=============================================================================
