------------------------------- MODULE JoyPad -------------------------------
(***************************************************************************)
(* The JoyPad module: InputLoop takes one event per poll from SDL's queue  *)
(* and updates the buttons, the flags of the user interface and the        *)
(* joypad request; the program selects a group of keys by writing P1 and   *)
(* reads the state of its lines.  A key is a pair <<group, number>>; a key *)
(* of a group of the joypad pulls the line of its number low.              *)
(***************************************************************************)
EXTENDS Integers, Sequences

CONSTANTS
  Lines,     \* the key lines P10..P13 that are modelled, of 0..3
  UiKeys,    \* the keys that toggle a rendering flag, as pairs <<Ui, 1..3>>
  QueueMax   \* bound: events waiting in SDL's queue

Direction == 4   \* P14 selects the direction keys, P15 the button keys
Button == 5
Ui == 6
Keys == {Direction, Button} \X Lines

VARIABLES
  buttons,   \* the keys whose but_... member is true
  p1,        \* reg_p1_, as the set of its one bits
  event,     \* the member event of JoyPad, as far as it is handled again
  rendered,  \* the UI flags that are true
  iflag,     \* the interrupt flag register, as a set of bits
  running,   \* sc_stop() has not been called
  queue,     \* external: SDL's event queue
  held,      \* external: the keys the user holds down
  known      \* history: the keys of the joypad that a polled event was about

joypadVars == <<buttons, p1, event, rendered, running, queue, held, known>>

Joypad == 4      \* the bit kJoypadIf

NoEvent == [type |-> "none", key |-> <<0, 0>>, repeat |-> FALSE]
Quit == [NoEvent EXCEPT !.type = "quit"]
Events == {NoEvent, Quit} \cup
  [type : {"down", "up"}, key : Keys \cup UiKeys, repeat : BOOLEAN]

TypeOK ==
  /\ buttons \subseteq Keys
  /\ p1 \subseteq 0 .. 7
  /\ event \in Events
  /\ rendered \subseteq UiKeys
  /\ running \in BOOLEAN
  /\ queue \in Seq(Events) /\ Len(queue) <= QueueMax
  /\ held \subseteq Keys \cup UiKeys
  /\ known \subseteq Keys

(* The member event is not initialised: it may look like any event. *)
Init ==
  /\ buttons = {}
  /\ p1 = 0 .. 5
  /\ event \in Events
  /\ rendered = UiKeys
  /\ running = TRUE
  /\ queue = <<>>
  /\ held = {}
  /\ known = {}

Toggle(S, x) == IF x \in S THEN S \ {x} ELSE S \cup {x}

(* What an event does to the set of pressed buttons: SetButton. *)
SetButton(set, e) ==
  IF e.key \notin Keys \/ e.repeat THEN set
  ELSE CASE e.type = "down" -> set \cup {e.key}
         [] e.type = "up" -> set \ {e.key}

(* Fault: a key's release is ignored. *)
HandlePress(e) ==
  /\ event' = e
  /\ buttons' = IF e.type = "down" THEN SetButton(buttons, e) ELSE buttons
  /\ running' = (e.type # "quit")
  /\ UNCHANGED <<rendered, iflag>>

(* The body of InputLoop, with the event as SDL_PollEvent leaves it. *)
Handle(e) ==
  /\ event' = e
  /\ buttons' = IF e.type \in {"down", "up"} THEN SetButton(buttons, e) ELSE buttons
  /\ rendered' = IF e.type = "down" /\ ~e.repeat /\ e.key \in UiKeys
                   THEN Toggle(rendered, e.key) ELSE rendered
  /\ iflag' = IF e.type = "down" /\ ~e.repeat /\ e.key \in Keys
                THEN iflag \cup {Joypad} ELSE iflag
  /\ running' = (e.type # "quit")

(***************************************************************************)
(* InputLoop does not look at what SDL_PollEvent returns.  If the queue is *)
(* empty, SDL leaves the event of an earlier poll where it is, or clears   *)
(* it; InputLoop handles what it finds, once more at every such poll.      *)
(***************************************************************************)
Poll ==
  /\ running
  /\ \/ /\ queue # <<>>
        /\ Handle(Head(queue))
        /\ queue' = Tail(queue)
        /\ known' = IF Head(queue).repeat THEN known ELSE known \cup ({Head(queue).key} \cap Keys)
     \/ /\ queue = <<>>
        /\ \E e \in {event, NoEvent} : Handle(e)
        /\ UNCHANGED <<queue, known>>
  /\ UNCHANGED <<p1, held>>

(***************************************************************************)
(* ReadReg refreshes the lines of each selected group (its bit is 0), the  *)
(* buttons last; 0 stands for a pressed key.                               *)
(***************************************************************************)
Shown(bits, group) ==
  IF group \in bits THEN bits
  ELSE (bits \ Lines) \cup {l \in Lines : <<group, l>> \notin buttons}

ReadValue == Shown(Shown(p1, Direction), Button)

ReadReg ==
  /\ running
  /\ p1' = ReadValue
  /\ UNCHANGED <<buttons, event, rendered, iflag, running, queue, held, known>>

(* WriteReg replaces bits 3 to 6 by those of the value and clears bit 7. *)
WriteReg ==
  /\ running
  /\ \E dat \in SUBSET ({Direction, Button} \cup (Lines \cap {3})) :
       p1' = (p1 \cap 0 .. 3) \cup (dat \cap 3 .. 6)
  /\ UNCHANGED <<buttons, event, rendered, iflag, running, queue, held, known>>

-----------------------------------------------------------------------------
(* The user, through SDL (external): keys repeat while they are held. *)

Post(e) ==
  /\ running
  /\ Len(queue) < QueueMax
  /\ queue' = Append(queue, e)
  /\ UNCHANGED <<buttons, p1, event, rendered, iflag, running, known>>

Press(k) ==
  /\ Post([type |-> "down", key |-> k, repeat |-> k \in held])
  /\ held' = held \cup {k}

Release(k) ==
  /\ k \in held
  /\ Post([type |-> "up", key |-> k, repeat |-> FALSE])
  /\ held' = held \ {k}

Close == Post(Quit) /\ UNCHANGED held

Next ==
  \/ Poll \/ ReadReg \/ WriteReg \/ Close
  \/ \E k \in Keys \cup UiKeys : Press(k) \/ Release(k)

-----------------------------------------------------------------------------
(* Properties. *)

(* The places in the queue of the events that change the state of a key. *)
About(k) == {i \in DOMAIN queue : queue[i].key = k /\ ~queue[i].repeat}

(***************************************************************************)
(* The buttons lag behind the user by exactly the events still queued: the *)
(* last event about a key shows whether the user holds it, and once all    *)
(* are polled its button does.  A press or release is neither lost nor     *)
(* reordered by polling one event at a time, by the repeats of a key or by *)
(* handling an event again that SDL left behind.  Of a key SDL has not yet *)
(* reported this is not true: the uninitialised event may have set it.     *)
(***************************************************************************)
ButtonsFollowKeys ==
  \A k \in Keys :
    /\ About(k) = {} /\ k \in known => (k \in held <=> k \in buttons)
    /\ \A i \in About(k) :
         (\A j \in About(k) : j <= i) => (k \in held <=> queue[i].type = "down")
=============================================================================
