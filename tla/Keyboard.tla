------------------------------- MODULE Keyboard -------------------------------
(***************************************************************************)
(* The PS/2 keyboard driver of src/kernel-src/kernel/keyboard.c and the    *)
(* command queue of src/kernel-src/utils/queue.c it uses.                  *)
(*                                                                         *)
(* Two actors share the driver's statics.  keyboard_init, in task context  *)
(* with IRQ 1 already unmasked, queues six command bytes, one              *)
(* keyboard_queuecommand at a time; queue_push and the size test after it  *)
(* are separate steps, so the interrupt handler can run between them.  The *)
(* handler keyboard_handlecode runs with interrupts off (gate 0x8E), one   *)
(* byte per interrupt: by the driver's status the byte answers a command   *)
(* (CMD_ACKNOW), is the reply to a reset (CMD_RESPONSE) or is part of a    *)
(* scan code (KB_AVAILABLE).                                               *)
(*                                                                         *)
(* The device is the environment: it answers each byte it receives with    *)
(* 0xFA (ack) or 0xFE (resend), a reset with 0xFA then 0xAA, and sends the *)
(* scan code set 2 bytes of the keys the user presses and releases.  A     *)
(* key is a name: keyboard.h, with the KEY_ values and COMMAND_QUEUE_CAP,  *)
(* is not in the repository.  stdin_send_code, the decoder's output, is a  *)
(* keysym appended to typed.                                               *)
(***************************************************************************)
EXTENDS Integers, Sequences, SequencesExt, FiniteSets

CONSTANTS
    Cap,        \* COMMAND_QUEUE_CAP
    Junk,       \* what an unwritten slot of the kmalloc'd queue holds
    Keys,       \* the keys the user may press
    Repeat,     \* the keys whose make code the device repeats while held
    MaxEvents,  \* bound on key presses and releases
    NakBudget   \* bound on 0xFE the device sends for a byte it received

\* The bytes keyboard_init queues (keyboard.c:335-343).
InitCmds == << \hFF, \hED, \h00, \hF0, \h02, \hF4 >>

VARIABLES
    drv,      \* the driver: command_queue [slot, head, size], status, repetition
    pc, i,    \* keyboard_init: its step and the command it is queueing
    idx,      \* queue_push's idx, computed before ++queue->size
    dec,      \* the decoder: keycodes[0..len-1], kb_flags, handle_shift's hold
    typed,    \* the keysyms passed to stdin_send_code
    toDev,    \* bytes written to the data port, not yet read by the device
    outbox,   \* bytes the device sent, not yet read by the handler
    expectData, naks,  \* the device: a data byte is due next; 0xFE sent
    events, held,      \* the user's key events so far; keys held down
    owed,     \* history: bytes written to the port minus answers read
    garbled   \* history: a key byte went to the command path, or an answer
              \* to the decoder

vars == <<drv, pc, i, idx, dec, typed, toDev, outbox, expectData, naks, events,
          held, owed, garbled>>

Modifiers == {"LSHIFT", "RSHIFT", "CAPS", "LCTRL", "RCTRL", "LALT", "RALT", "LGUI"}

\* The scan code set 2 bytes the device sends for a key (environment).
Make(k) == CASE k = "A" -> << \h1C >>       [] k = "LSHIFT" -> << \h12 >>
             [] k = "RSHIFT" -> << \h59 >>   [] k = "CAPS" -> << \h58 >>
             [] k = "LCTRL" -> << \h14 >>    [] k = "RALT" -> << \hE0, \h11 >>
             [] k = "PRTSC" -> << \hE0, \h12, \hE0, \h7C >>
             [] k = "PAUSE" -> << \hE1, \h14, \h77, \hE1, \hF0, \h14, \hF0, \h77 >>
Break(k) == CASE k = "PRTSC" -> << \hE0, \hF0, \h7C, \hE0, \hF0, \h12 >>
              [] Len(Make(k)) = 2 -> << \hE0, \hF0, Make(k)[2] >>
              [] OTHER -> << \hF0, Make(k)[1] >>

-----------------------------------------------------------------------------
(* The driver.                                                             *)

\* A queue_pop that does not wrap head at the capacity.
PopNoWrap(d) == IF d.size = 0 THEN d
                ELSE [d EXCEPT !.size = @ - 1, !.head = @ + 1]

\* queue_pop: nothing on an empty queue.
Pop(d) == IF d.size = 0 THEN d
          ELSE [d EXCEPT !.size = @ - 1, !.head = (@ + 1) % Cap]

\* keyboard_send_next: the head of the queue goes out when the driver is
\* KB_AVAILABLE and the queue is not empty; keyboard_send_cmd sets
\* CMD_ACKNOW.  SentBy is the byte written, AfterSend the driver after.
Sends(d) == d.status = "avail" /\ d.size > 0
SentBy(d) == IF Sends(d) THEN << d.slot[d.head] >> ELSE << >>
AfterSend(d) == IF Sends(d) THEN [d EXCEPT !.status = "ack"] ELSE d

\* A keyboard_handlequeue that leaves CMD_ACKNOW set on a 0xFE.
HandleQueueNoResend(d, b) ==
    CASE b = \hFA ->
            [Pop(d) EXCEPT !.rep = 0,
                           !.status = IF d.slot[d.head] = \hFF THEN "resp"
                                                              ELSE "avail"]
      [] b = \hFE /\ d.rep + 1 > 3 -> [Pop(d) EXCEPT !.rep = 0]
      [] b = \hFE -> [d EXCEPT !.rep = @ + 1]
      [] OTHER -> d

\* keyboard_handlequeue, up to its call of keyboard_send_next.
HandleQueue(d, b) ==
    CASE b = \hFA ->
            [Pop(d) EXCEPT !.rep = 0,
                           !.status = IF d.slot[d.head] = \hFF THEN "resp"
                                                              ELSE "avail"]
      [] b = \hFE /\ d.rep + 1 > 3 ->
            [Pop(d) EXCEPT !.rep = 0, !.status = "avail"]
      [] b = \hFE -> [d EXCEPT !.rep = @ + 1, !.status = "avail"]
      [] OTHER -> d

-----------------------------------------------------------------------------
(* The decoder.                                                            *)

\* The entries of scancode_table and alt_scancode_table (indexed from 0x10)
\* the keys of the model use; "none" is a 0 entry, "oob" an index past the
\* table (or, for alt_scancode_table, a negative one).
ScanKeys == (\h1C :> "A") @@ (\h12 :> "LSHIFT") @@ (\h59 :> "RSHIFT")
            @@ (\h58 :> "CAPS") @@ (\h14 :> "LCTRL") @@ (\h77 :> "NUMLOCK")
AltKeys == (\h11 :> "RALT") @@ (\h14 :> "RCTRL")
Scan(b) == IF b \in DOMAIN ScanKeys THEN ScanKeys[b]
           ELSE IF b <= \h83 THEN "none" ELSE "oob"
Alt(b) == IF b \in DOMAIN AltKeys THEN AltKeys[b]
          ELSE IF b >= \h10 /\ b <= \h7D THEN "none" ELSE "oob"

\* keyboard_scancode's early returns: the bytes so far are a prefix of a
\* longer code.
Prefix(kc) ==
    LET b == kc[Len(kc)]  n == Len(kc)
    IN  \/ b \in {\hE0, \hF0, \hE1}
        \/ b = \h14 /\ n = 2 /\ kc[1] = \hE1
        \/ b = \h14 /\ n = 6 /\ kc[5] = \hF0
        \/ b = \h77 /\ n = 3 /\ kc[2] = \h14
        \/ b = \h12 /\ n = 2 /\ kc[1] = \hE0
        \/ b = \h7C /\ n = 3 /\ kc[1] = \hE0 /\ kc[2] = \hF0

\* keyboard_scancode_to_keycode: the key and KB_RELEASE_FLAG (as 0 or 1).
KeyCode(kc) ==
    LET n == Len(kc)  none == [key |-> "none", rel |-> 0]
    IN  CASE n = 1 -> [key |-> Scan(kc[1]), rel |-> 0]
          [] n = 2 /\ kc[1] = \hE0 -> [key |-> Alt(kc[2]), rel |-> 0]
          [] n = 2 /\ kc[1] = \hF0 -> [key |-> Scan(kc[2]), rel |-> 1]
          [] n = 3 /\ kc[1] = \hE0 /\ kc[2] = \hF0 ->
                [key |-> Alt(kc[3]), rel |-> 1]
          [] n = 4 /\ kc = << \hE0, \h12, \hE0, \h7C >> ->
                [key |-> "PRTSC", rel |-> 0]
          [] n = 6 /\ kc = << \hE0, \hF0, \h7C, \hE0, \hF0, \h12 >> ->
                [key |-> "PRTSC", rel |-> 1]
          [] n = 8 /\ kc = << \hE1, \h14, \h77, \hE1, \hF0, \h14, \hF0, \h77 >> ->
                [key |-> "PAUSE", rel |-> 0]
          [] OTHER -> none

\* The kb_flags bit a held-down modifier sets.
FlagOf == ("LCTRL" :> "ctrl") @@ ("RCTRL" :> "ctrl") @@ ("LALT" :> "alt")
          @@ ("RALT" :> "altgr") @@ ("LGUI" :> "gui")

\* A toggle of kb_flags.shift_flag.
Toggle(m) == (m \ {"shift"}) \cup ({"shift"} \ m)

\* keyboard_handle_keycode with keyboard_handle_shift: the decoder's flags
\* and hold after a keycode; Out is what goes to stdin_send_code (the
\* default case, for a key going down), OutReleases one that passes on
\* releases too.
Handle(d, c) ==
    CASE c.key \in {"LSHIFT", "RSHIFT"} /\ d.hold = c.rel ->
            [d EXCEPT !.mods = Toggle(@), !.hold = 1 - @]
      [] c.key = "CAPS" /\ c.rel = 0 -> [d EXCEPT !.mods = Toggle(@)]
      [] c.key \in DOMAIN FlagOf ->
            [d EXCEPT !.mods = IF c.rel = 1 THEN @ \ {FlagOf[c.key]}
                                            ELSE @ \cup {FlagOf[c.key]}]
      [] OTHER -> d
OutReleases(d, c) ==
    IF c.key \in {"LSHIFT", "RSHIFT", "CAPS"} \cup DOMAIN FlagOf
    THEN << >> ELSE << [key |-> c.key, mods |-> d.mods] >>
Out(d, c) ==
    IF c.key \in {"LSHIFT", "RSHIFT", "CAPS"} \cup DOMAIN FlagOf \/ c.rel = 1
    THEN << >> ELSE << [key |-> c.key, mods |-> d.mods] >>

-----------------------------------------------------------------------------
Init ==
    /\ drv = [slot |-> [s \in 0 .. Cap - 1 |-> Junk], head |-> 0, size |-> 0,
              status |-> "avail", rep |-> 0]
    /\ pc = "push" /\ i = 1 /\ idx = 0
    /\ dec = [kc |-> << >>, mods |-> {}, hold |-> 0]
    /\ typed = << >> /\ toDev = << >> /\ outbox = << >>
    /\ expectData = FALSE /\ naks = 0
    /\ events = << >> /\ held = {}
    /\ owed = 0 /\ garbled = FALSE

\* queue_push up to ++queue->size: a full queue refuses the byte.
QueuePush ==
    /\ pc = "push"
    /\ IF drv.size + 1 > Cap
       THEN pc' = "check" /\ UNCHANGED <<drv, idx>>
       ELSE /\ idx' = (drv.head + drv.size) % Cap
            /\ drv' = [drv EXCEPT !.size = @ + 1]
            /\ pc' = "store"
    /\ UNCHANGED <<i, dec, typed, toDev, outbox, expectData, naks, events,
                   held, owed, garbled>>

\* queue_push: queue->queue[idx] = value, idx computed before ++size.
QueueStore ==
    /\ pc = "store"
    /\ drv' = [drv EXCEPT !.slot[idx] = InitCmds[i]]
    /\ pc' = "check"
    /\ UNCHANGED <<i, idx, dec, typed, toDev, outbox, expectData, naks, events,
                   held, owed, garbled>>

\* keyboard_queuecommand: send the byte now if it is the only one queued.
QueueCheck ==
    /\ pc = "check"
    /\ IF drv.size = 1
       THEN /\ drv' = [drv EXCEPT !.status = "ack"]
            /\ toDev' = Append(toDev, InitCmds[i])
            /\ owed' = owed + 1
       ELSE UNCHANGED <<drv, toDev, owed>>
    /\ pc' = IF i = Len(InitCmds) THEN "done" ELSE "push"
    /\ i' = IF i = Len(InitCmds) THEN i ELSE i + 1
    /\ UNCHANGED <<idx, dec, typed, outbox, expectData, naks, events, held, garbled>>

\* keyboard_handlecode with status CMD_RESPONSE: keyboard_handleresponse
\* logs the byte, whatever it is, and sends the next command.
IrqResponse ==
    /\ outbox # << >> /\ drv.status = "resp"
    /\ LET d == [drv EXCEPT !.status = "avail"]
       IN  /\ drv' = AfterSend(d)
           /\ toDev' = toDev \o SentBy(d)
           /\ owed' = owed - Head(outbox).ans + Len(SentBy(d))
    /\ outbox' = Tail(outbox)
    /\ garbled' = (garbled \/ Head(outbox).key)
    /\ UNCHANGED <<pc, i, idx, dec, typed, expectData, naks, events, held>>

\* keyboard_handlecode with status CMD_ACKNOW: keyboard_handlequeue.
IrqQueue ==
    /\ outbox # << >> /\ drv.status = "ack"
    /\ LET d == HandleQueue(drv, Head(outbox).b)
       IN  /\ drv' = AfterSend(d)
           /\ toDev' = toDev \o SentBy(d)
           /\ owed' = owed - Head(outbox).ans + Len(SentBy(d))
    /\ outbox' = Tail(outbox)
    /\ garbled' = (garbled \/ Head(outbox).key)
    /\ UNCHANGED <<pc, i, idx, dec, typed, expectData, naks, events, held>>

\* keyboard_handlecode with status KB_AVAILABLE: keyboard_scancode stores
\* the byte at keycodes[len++] and, unless it is a prefix, decodes the
\* bytes, resets len and hands the keycode to keyboard_handle_keycode.
IrqScancode ==
    /\ outbox # << >> /\ drv.status = "avail"
    /\ LET kc == Append(dec.kc, Head(outbox).b)  c == KeyCode(kc)
       IN  IF Prefix(kc)
           THEN /\ dec' = [dec EXCEPT !.kc = kc]
                /\ UNCHANGED typed
           ELSE /\ dec' = [Handle(dec, c) EXCEPT !.kc = << >>]
                /\ typed' = typed \o Out(dec, c)
    /\ outbox' = Tail(outbox)
    /\ owed' = owed - Head(outbox).ans
    /\ garbled' = (garbled \/ ~Head(outbox).key)
    /\ UNCHANGED <<drv, pc, i, idx, toDev, expectData, naks, events, held>>

-----------------------------------------------------------------------------
(* The device and the user (environment, not code of the repository).      *)

Ans(b) == [b |-> b, key |-> FALSE, ans |-> 1]
KeyByte(b) == [b |-> b, key |-> TRUE, ans |-> 0]

\* The device reads a byte: a resend request for a garbled byte, or the
\* answer of the PS/2 protocol: a data byte, reset, a command with a data
\* byte to follow, enable scanning; 0xFE for a byte it does not know.
DevRecv ==
    /\ toDev # << >>
    /\ LET b == Head(toDev)
       IN  \/ /\ naks < NakBudget
              /\ outbox' = Append(outbox, Ans(\hFE))
              /\ naks' = naks + 1
              /\ UNCHANGED expectData
           \/ /\ outbox' = outbox \o
                   CASE expectData -> << Ans(\hFA) >>
                     [] b = \hFF -> << Ans(\hFA), [Ans(\hAA) EXCEPT !.ans = 0] >>
                     [] b \in {\hED, \hF0, \hF4} -> << Ans(\hFA) >>
                     [] OTHER -> << Ans(\hFE) >>
              /\ expectData' = (~expectData /\ b \in {\hED, \hF0})
              /\ UNCHANGED naks
    /\ toDev' = Tail(toDev)
    /\ UNCHANGED <<drv, pc, i, idx, dec, typed, events, held, owed, garbled>>

\* A key goes down (again, for a key the device repeats) or comes up.
Press(k) ==
    /\ Len(events) < MaxEvents
    /\ (k \notin held \/ k \in Repeat)
    /\ outbox' = outbox \o [j \in DOMAIN Make(k) |-> KeyByte(Make(k)[j])]
    /\ events' = Append(events, [key |-> k, rel |-> 0])
    /\ held' = IF k = "PAUSE" THEN held ELSE held \cup {k}
    /\ UNCHANGED <<drv, pc, i, idx, dec, typed, toDev, expectData, naks, owed,
                   garbled>>
Release(k) ==
    /\ Len(events) < MaxEvents /\ k \in held
    /\ outbox' = outbox \o [j \in DOMAIN Break(k) |-> KeyByte(Break(k)[j])]
    /\ events' = Append(events, [key |-> k, rel |-> 1])
    /\ held' = held \ {k}
    /\ UNCHANGED <<drv, pc, i, idx, dec, typed, toDev, expectData, naks, owed,
                   garbled>>

-----------------------------------------------------------------------------
Next ==
    \/ QueuePush \/ QueueStore \/ QueueCheck
    \/ IrqResponse \/ IrqQueue \/ IrqScancode
    \/ DevRecv
    \/ \E k \in Keys : Press(k) \/ Release(k)

\* keyboard_init runs to its end; an interrupt the device raised is taken;
\* the device reads what was written to its port.
Spec == Init /\ [][Next]_vars
          /\ WF_vars(QueuePush) /\ WF_vars(QueueStore) /\ WF_vars(QueueCheck)
          /\ WF_vars(IrqResponse \/ IrqQueue \/ IrqScancode)
          /\ WF_vars(DevRecv)
-----------------------------------------------------------------------------
(* Properties.                                                             *)

Bytes == 0 .. 255

TypeOK ==
    /\ drv \in [slot : [0 .. Cap - 1 -> Bytes \cup {Junk}], head : 0 .. Cap - 1,
                size : 0 .. Cap, status : {"avail", "ack", "resp"}, rep : 0 .. 3]
    /\ pc \in {"push", "store", "check", "done"} /\ i \in 1 .. Len(InitCmds)
    /\ dec.kc \in Seq(Bytes) /\ Len(dec.kc) <= 8 /\ dec.hold \in {0, 1}
    /\ dec.mods \subseteq {"shift", "ctrl", "alt", "altgr", "gui"}
    /\ held \subseteq Keys /\ owed \in Nat

\* The reference decoding: the keysyms a driver should pass on for the key
\* events so far.  Shift is on while a shift key is held, inverted by caps
\* lock, which toggles when it goes down (not on the device's repeats);
\* ctrl, alt, altgr and gui are on while such a key is held.
RefMods(h, caps) ==
    (IF (h \cap {"LSHIFT", "RSHIFT"} # {}) # caps THEN {"shift"} ELSE {})
    \cup {FlagOf[m] : m \in h \cap DOMAIN FlagOf}
RefStep(r, e) ==
    IF e.rel = 1 THEN [r EXCEPT !.held = @ \ {e.key}]
    ELSE [held |-> IF e.key = "PAUSE" THEN r.held ELSE r.held \cup {e.key},
          caps |-> r.caps # (e.key = "CAPS" /\ e.key \notin r.held),
          out  |-> IF e.key \in Modifiers THEN r.out
                   ELSE Append(r.out, [key |-> e.key,
                                       mods |-> RefMods(r.held, r.caps)])]
Expected == FoldLeft(RefStep, [held |-> {}, caps |-> FALSE, out |-> << >>],
                     events).out

\* Scan codes that reach keyboard_scancode whole and in order, with no
\* command answer among them, decode to the keysyms of the keys pressed,
\* with the modifiers kb_flags and handle_shift's hold track: what has been
\* passed on is a prefix of the reference, and all of it once every byte the
\* device sent has been read.
KeysymsMatch ==
    ~garbled => /\ IsPrefix(typed, Expected)
                /\ outbox = << >> => typed = Expected

\* keyboard_init's commands are all taken off the queue, acknowledged,
\* dropped after repeated 0xFE, or popped by an answer: the init sequence
\* cannot leave the driver waiting for an answer with commands queued.
InitDrains == <>[](pc = "done" /\ drv.size = 0)

\* keyboard_queuecommand writes a byte only when it is the one queued, and
\* keyboard_send_next only when the driver is KB_AVAILABLE: the driver
\* never has more than one byte at the device awaiting its 0xFA or 0xFE,
\* which is what lets keyboard_handlequeue pop the queue's head on an ack.
OneCommandOutstanding == owed <= 1
====
