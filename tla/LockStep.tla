------------------------------ MODULE LockStep ------------------------------
(***************************************************************************)
(* What DoMachineCycle's local_time_delta_ promises to leave unchanged: a  *)
(* CPU that sleeps after every single instruction for exactly the time of  *)
(* that instruction, so that every interrupt register it looks at has the  *)
(* value it has at that very time.  Programs without HALT and without      *)
(* starting a one-shot process.                                            *)
(***************************************************************************)
EXTENDS Integers

CONSTANTS Devices, OneShot, Waits, First, Raises, Bits, Costs, PushTime, StackOver

VARIABLES
  phase,   \* of an iteration: "look" for an interrupt, "run", "sleep"
  ime, ie, iflag,
  cpuDue,  \* how long the CPU still sleeps
  armed, due

intr == <<ime, ie, iflag>>
vars == <<phase, ime, ie, iflag, cpuDue, armed, due>>

Init ==
  /\ phase = "sleep"
  /\ ime = FALSE
  /\ ie = {}
  /\ iflag = {}
  /\ cpuDue = 0
  /\ armed = Devices
  /\ due = First

Requested == ie \cap iflag \cap 0 .. 4

(***************************************************************************)
(* An interrupt is taken exactly when one is pending and IME is set, and   *)
(* the one of the highest priority is.                                     *)
(***************************************************************************)
Look ==
  /\ phase = "look"
  /\ phase' = "run"
  /\ \/ /\ ~ime \/ ie \cap iflag = {}
        /\ UNCHANGED intr
     \/ /\ ime
        /\ ie \cap iflag # {}
        /\ ime' = FALSE
        /\ \E served \in SUBSET Requested :
             /\ (Requested = {}) = (served = {})
             /\ \A b \in served, c \in Requested : b <= c
             /\ \/ ie' = ie /\ iflag' = iflag \ served
                \/ "IE" \in StackOver /\ ie' \in SUBSET Bits /\ iflag' = iflag \ served
                \/ "IF" \in StackOver /\ ie' = ie
                   /\ \E byte \in SUBSET Bits : iflag' = byte \ served
  /\ UNCHANGED <<cpuDue, armed, due>>

(* One instruction and the start of the wait for its time. *)
Instruction ==
  /\ phase = "run"
  /\ phase' = "sleep"
  /\ cpuDue' \in Costs
  /\ \/ ime' \in BOOLEAN /\ UNCHANGED <<ie, iflag>>
     \/ ie' \in SUBSET Bits /\ UNCHANGED <<ime, iflag>>
     \/ iflag' \in SUBSET Bits /\ UNCHANGED <<ime, ie>>
  /\ UNCHANGED <<armed, due>>

After(d) == [p \in Devices |-> IF p \in armed THEN due[p] - d ELSE due[p]]

NobodyDueBefore(d) == \A p \in armed : d <= due[p]

Wait(d) ==
  /\ phase = "sleep"
  /\ 0 < d /\ d <= cpuDue
  /\ NobodyDueBefore(d)
  /\ cpuDue' = cpuDue - d
  /\ due' = After(d)
  /\ UNCHANGED <<phase, intr, armed>>

(* The rest of the wait, if any, and the return from it. *)
WakeUp ==
  /\ phase = "sleep"
  /\ NobodyDueBefore(cpuDue)
  /\ cpuDue' = 0
  /\ due' = After(cpuDue)
  /\ phase' = "look"
  /\ UNCHANGED <<intr, armed>>

Activate(p) ==
  /\ phase = "sleep"
  /\ p \in armed
  /\ due[p] = 0
  /\ \E raised \in SUBSET Raises[p] : iflag' = iflag \cup raised
  /\ IF p \in OneShot
       THEN armed' = armed \ {p} /\ UNCHANGED due
       ELSE /\ \E w \in Waits[p] : due' = [due EXCEPT ![p] = w]
            /\ UNCHANGED armed
  /\ UNCHANGED <<phase, ime, ie, cpuDue>>

Next ==
  \/ Look \/ Instruction \/ WakeUp
  \/ \E d \in 1 .. cpuDue : Wait(d)
  \/ \E p \in Devices : Activate(p)

Spec == Init /\ [][Next]_vars
=============================================================================
