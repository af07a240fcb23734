------------------------------- MODULE Console -------------------------------
(***************************************************************************)
(* The console driver (consdrv.c) on its UART (serial.c): the ring of      *)
(* bytes to send, filled by the driver's thread with interrupts masked and *)
(* by the echo of the receive interrupt, drained into the transmit FIFO by *)
(* whoever filled it and by the transmit interrupt; and the editing of the *)
(* line being typed.                                                       *)
(*                                                                         *)
(* There is one CPU: the thread steps while no handler runs, a handler     *)
(* starts while interrupts are not masked and runs to its end.  The UART   *)
(* sends and receives at any time, between any two steps of either; only   *)
(* the few instructions between send_drain's last look at the FIFO and its *)
(* writes to the interrupt registers are taken together, since the FIFO    *)
(* needs milliseconds to get from full to the level that interrupts.       *)
(*                                                                         *)
(* Definitions named <function>_<fault> are wrong versions of a function,  *)
(* kept to show which property notices the fault.                          *)
(***************************************************************************)
EXTENDS Integers, FiniteSets, SequencesExt

CONSTANTS
    SEND_SIZE,      \* SHELL_SEND_BUFFER_SIZE, a power of two
    RECV_SIZE,      \* SHELL_RECV_BUFFER_SIZE
    TX_FIFO,        \* depth of the UART's transmit FIFO
    TX_LEVEL,       \* bytes left in it when the transmit interrupt is raised
    RX_FIFO,        \* bound on the bytes received and not read yet
    Texts           \* the texts threads write: sequences of bytes

ASSUME SizeAssumption ==
    /\ SEND_SIZE \in Nat \ {0} /\ RECV_SIZE \in Nat \ {0} /\ RX_FIFO \in Nat \ {0}
    /\ TX_LEVEL \in Nat /\ TX_FIFO \in Nat /\ TX_LEVEL < TX_FIFO

ASSUME TextAssumption ==
    Texts \subseteq Seq(UNION {ToSet(text) : text \in Texts})

(* A byte is a name.  "a" stands for the printable ones, "TAB" for those   *)
(* that process_received_character drops; "^C" is one name for two bytes.  *)
Keys     == {"a", "BS", "ETX", "TAB", "Enter"}
Newlines == {<<"CR">>, <<"LF">>, <<"CR", "LF">>}

VARIABLES
    ring,           \* send_buffer, send_head, send_tail
    recv_length,    \* bytes of the line being typed
    previous_was_cr,
    txfifo, rxfifo, \* the UART's FIFOs
    tx,             \* its transmit interrupt: enabled (UARTIMSC), raised (UARTRIS)
    thread,         \* consdrv_main: where it is, and the bytes it has yet to push
    irq,            \* consdrv_interrupt: where it is, or "idle"
    newline,        \* what this terminal sends for Enter
    due,            \* bytes of the last key that have not arrived yet
    unanswered      \* history: Enters typed minus lines sent to the shell

cvars == <<ring, recv_length, previous_was_cr, txfifo, rxfifo, tx, thread, irq,
           newline, due, unanswered>>

line   == <<recv_length, previous_was_cr, unanswered>>
typing == <<newline, due>>

Init ==
    /\ ring = [buffer |-> [i \in 0 .. SEND_SIZE - 1 |-> "none"], head |-> 0, tail |-> 0]
    /\ recv_length = 0 /\ previous_was_cr = FALSE
    /\ txfifo = <<>> /\ rxfifo = <<>>
    /\ tx = [enabled |-> FALSE, raised |-> FALSE]
    /\ thread = [at |-> "recv", rest |-> <<>>]
    /\ irq = "idle"
    /\ newline \in Newlines /\ due = <<>> /\ unanswered = 0
-----------------------------------------------------------------------------
(* The UART as serial.c offers it.  Filling the FIFO above its level takes *)
(* back the transmit interrupt, like writing UARTICR does.                 *)

serial_is_send_enable == Len(txfifo) < TX_FIFO

serial_send_byte(byte) ==
    /\ txfifo' = Append(txfifo, byte)
    /\ tx' = IF Len(txfifo) = TX_LEVEL THEN [tx EXCEPT !.raised = FALSE] ELSE tx

serial_is_recv_enable == rxfifo # <<>>

serial_recv_byte == Head(rxfifo)

serial_intr_send_enable  == [enabled |-> TRUE, raised |-> FALSE]
serial_intr_send_disable == [enabled |-> FALSE, raised |-> FALSE]

serial_intr_is_send_enable == tx.enabled
serial_intr_is_send        == tx.enabled /\ tx.raised
serial_intr_clear_send     == [tx EXCEPT !.raised = FALSE]
-----------------------------------------------------------------------------
(* The ring.  A slot is blanked once its byte is sent, so that a second    *)
(* read of it would show.                                                  *)

next(i) == (i + 1) % SEND_SIZE

send_buffer_free(r) == (SEND_SIZE - 1) - ((r.tail - r.head) % SEND_SIZE)

send_push_raw(r, byte) ==
    IF next(r.tail) = r.head
    THEN r
    ELSE [r EXCEPT !.buffer[r.tail] = byte, !.tail = next(r.tail)]

(* The bytes of a text: a CR before every LF.                              *)
Encoded(text) ==
    LET sent[n \in 0 .. Len(text)] ==
          IF n = 0 THEN <<>>
          ELSE sent[n - 1] \o (IF text[n] = "LF" THEN <<"CR", "LF">> ELSE <<text[n]>>)
    IN  sent[Len(text)]

send_required_size(text) == Len(Encoded(text))

Fits(text) == send_required_size(text) <= send_buffer_free(ring)

(* send_push_text's loop: the bytes, one after another.                    *)
send_push(r, bytes) ==
    LET pushed[n \in 0 .. Len(bytes)] ==
          IF n = 0 THEN r ELSE send_push_raw(pushed[n - 1], bytes[n])
    IN  pushed[Len(bytes)]

RingBytes ==
    [i \in 1 .. ((ring.tail - ring.head) % SEND_SIZE) |->
        ring.buffer[(ring.head + i - 1) % SEND_SIZE]]

RingEmpty == ring.head = ring.tail
-----------------------------------------------------------------------------
(* send_drain: its loop, then what it leaves the transmit interrupt at.    *)

drain_byte ==
    /\ ~RingEmpty /\ serial_is_send_enable
    /\ serial_send_byte(ring.buffer[ring.head])
    /\ ring' = [ring EXCEPT !.buffer[ring.head] = "none", !.head = next(@)]

drain_end_keeps_interrupt ==
    /\ RingEmpty \/ ~serial_is_send_enable
    /\ tx' = IF RingEmpty THEN serial_intr_send_disable ELSE tx
    /\ UNCHANGED <<ring, txfifo>>

drain_end ==
    /\ RingEmpty \/ ~serial_is_send_enable
    /\ tx' = IF RingEmpty THEN serial_intr_send_disable
             ELSE IF ~serial_intr_is_send_enable THEN serial_intr_send_enable
             ELSE tx
    /\ UNCHANGED <<ring, txfifo>>
-----------------------------------------------------------------------------
(* consdrv_main and send_text: the bytes of a text that fits are pushed    *)
(* and drained with interrupts masked; a text that does not is dropped.    *)
Masked_never == FALSE

Masked == thread.at \in {"push", "drain"}

send_text ==
    /\ irq = "idle"
    /\ \/ /\ thread.at = "recv"
          /\ \E text \in Texts :
               Fits(text) /\ thread' = [at |-> "push", rest |-> Encoded(text)]
          /\ UNCHANGED <<ring, txfifo, tx>>
       \/ /\ thread.at = "push" /\ thread.rest # <<>>
          /\ ring' = send_push_raw(ring, Head(thread.rest))
          /\ thread' = [thread EXCEPT !.rest = Tail(@)]
          /\ UNCHANGED <<txfifo, tx>>
       \/ /\ thread.at = "push" /\ thread.rest = <<>>
          /\ thread' = [thread EXCEPT !.at = "drain"]
          /\ UNCHANGED <<ring, txfifo, tx>>
       \/ /\ thread.at = "drain" /\ drain_byte
          /\ UNCHANGED thread
       \/ /\ thread.at = "drain" /\ drain_end
          /\ thread' = [thread EXCEPT !.at = "recv"]
    /\ UNCHANGED <<line, rxfifo, irq, typing>>
-----------------------------------------------------------------------------
(* send_text_from_interrupt, up to its send_drain: an echo that does not   *)
(* fit is dropped.                                                         *)
echo(text) ==
    IF Fits(text)
    THEN ring' = send_push(ring, Encoded(text)) /\ irq' = "echo"
    ELSE irq' = "rx" /\ UNCHANGED ring

(* send_input_line: the shell gets the line.                               *)
send_input_line == recv_length' = 0 /\ unanswered' = unanswered - 1

type_character_unbounded == recv_length' = recv_length + 1 /\ echo(<<"a">>)

type_character ==
    \/ /\ recv_length < RECV_SIZE - 1
       /\ recv_length' = recv_length + 1
       /\ echo(<<"a">>)
    \/ /\ recv_length >= RECV_SIZE - 1
       /\ UNCHANGED recv_length
       /\ echo(<<"BEL">>)

ends_crlf_never(c) == FALSE

ends_crlf(c) == c = "LF" /\ previous_was_cr

(* The LF of a CR LF is ignored; either alone is Enter.                    *)
process_received_character(c) ==
    /\ previous_was_cr' = (c = "CR")
    /\ \/ /\ c \in {"CR", "LF"} /\ ~ends_crlf(c)
          /\ echo(<<"LF">>)
          /\ send_input_line
       \/ /\ c = "ETX"
          /\ recv_length' = 0
          /\ echo(<<"^C", "LF">>)
          /\ UNCHANGED unanswered
       \/ /\ c = "BS" /\ recv_length > 0
          /\ recv_length' = recv_length - 1
          /\ echo(<<"BS", "SP", "BS">>)
          /\ UNCHANGED unanswered
       \/ /\ c = "a"
          /\ type_character
          /\ UNCHANGED unanswered
       \/ /\ c = "TAB" \/ (c = "BS" /\ recv_length = 0) \/ ends_crlf(c)
          /\ irq' = "rx"
          /\ UNCHANGED <<ring, recv_length, unanswered>>

(* The interrupt is pending while bytes wait to be read (the receive       *)
(* level, or the receive timeout below it) or the transmit interrupt is    *)
(* both raised and enabled.                                                *)
enter_interrupt ==
    /\ irq = "idle" /\ ~Masked
    /\ serial_is_recv_enable \/ serial_intr_is_send
    /\ irq' = "rx"
    /\ UNCHANGED <<ring, line, txfifo, rxfifo, tx>>

receive_byte ==
    /\ irq = "rx" /\ serial_is_recv_enable
    /\ process_received_character(serial_recv_byte)
    /\ rxfifo' = Tail(rxfifo)
    /\ UNCHANGED <<txfifo, tx>>

drain_echo ==
    /\ irq = "echo"
    /\ \/ drain_byte /\ UNCHANGED irq
       \/ drain_end /\ irq' = "rx"
    /\ UNCHANGED <<line, rxfifo>>

(* No byte is left to read: clear the transmit interrupt if it was the     *)
(* cause, then go on with the ring or switch the interrupt off.            *)
clear_interrupts ==
    /\ irq = "rx" /\ ~serial_is_recv_enable
    /\ \/ /\ ~RingEmpty
          /\ tx' = IF serial_intr_is_send THEN serial_intr_clear_send ELSE tx
          /\ irq' = "drain"
       \/ /\ RingEmpty
          /\ tx' = serial_intr_send_disable
          /\ irq' = "idle"
    /\ UNCHANGED <<ring, line, txfifo, rxfifo>>

drain_ring ==
    /\ irq = "drain"
    /\ \/ drain_byte /\ UNCHANGED irq
       \/ drain_end /\ irq' = "idle"
    /\ UNCHANGED <<line, rxfifo>>

consdrv_interrupt ==
    /\ \/ enter_interrupt
       \/ receive_byte
       \/ drain_echo
       \/ clear_interrupts
       \/ drain_ring
    /\ UNCHANGED <<thread, typing>>
-----------------------------------------------------------------------------
(* The UART: a byte leaves; the interrupt is raised when the level passes  *)
(* TX_LEVEL on its way down, not by the level itself.                      *)
transmit ==
    /\ txfifo # <<>>
    /\ txfifo' = Tail(txfifo)
    /\ tx' = IF Len(txfifo) = TX_LEVEL + 1 THEN [tx EXCEPT !.raised = TRUE] ELSE tx
    /\ UNCHANGED <<ring, line, rxfifo, thread, irq, typing>>

(* A key is pressed once the bytes of the last one have been read.         *)
press(key) ==
    /\ due = <<>> /\ rxfifo = <<>>
    /\ due' = IF key = "Enter" THEN newline ELSE <<key>>
    /\ unanswered' = IF key = "Enter" THEN unanswered + 1 ELSE unanswered
    /\ UNCHANGED <<ring, recv_length, previous_was_cr, txfifo, rxfifo, tx, thread, irq, newline>>

(* A handler reads faster than the line sends: while one runs, the FIFO    *)
(* does not grow beyond the byte it is about to read.                      *)
arrive ==
    /\ due # <<>> /\ Len(rxfifo) < RX_FIFO
    /\ irq = "idle" \/ rxfifo = <<>>
    /\ rxfifo' = Append(rxfifo, Head(due))
    /\ due' = Tail(due)
    /\ UNCHANGED <<ring, line, txfifo, tx, thread, irq, newline>>

Next ==
    \/ send_text
    \/ consdrv_interrupt
    \/ transmit
    \/ arrive
    \/ \E key \in Keys : press(key)

Spec == Init /\ [][Next]_cvars

(* The line sends what is in its FIFO, a handler and a masked section run  *)
(* to their end, and a handler that finds the receive FIFO empty again and *)
(* again leaves its loop.                                                  *)
FairConsole ==
    /\ Spec
    /\ WF_cvars(transmit)
    /\ WF_cvars(Masked /\ send_text)
    /\ WF_cvars(consdrv_interrupt)
    /\ SF_cvars(clear_interrupts /\ UNCHANGED <<thread, typing>>)
-----------------------------------------------------------------------------
(* The ranges of the variables.  A full line leaves room for its final     *)
(* zero byte (consdrv.c 148).                                              *)
TypeOK ==
    /\ ring.head \in DOMAIN ring.buffer /\ ring.tail \in DOMAIN ring.buffer
    /\ recv_length \in 0 .. RECV_SIZE - 1
    /\ previous_was_cr \in BOOLEAN
    /\ Len(txfifo) <= TX_FIFO /\ Len(rxfifo) <= RX_FIFO
    /\ tx \in [enabled : BOOLEAN, raised : BOOLEAN]
    /\ thread.at \in {"recv", "push", "drain"}
    /\ irq \in {"idle", "rx", "echo", "drain"}
    /\ unanswered \in Nat

(* While bytes wait in the ring and nobody is busy draining it, the        *)
(* transmit interrupt is enabled and either raised already or still to be  *)
(* raised by the bytes in the FIFO: the wakeup is never lost (send_drain). *)
NoLostWakeup ==
    irq = "idle" /\ ~Masked /\ ~RingEmpty =>
        tx.enabled /\ (tx.raised \/ Len(txfifo) > TX_LEVEL)

(* One press of Enter sends one line, however the terminal encodes it and  *)
(* wherever an interrupt splits the encoding (process_received_character). *)
OneLinePerEnter ==
    LET coming == rxfifo \o due IN
    unanswered = Cardinality({i \in DOMAIN coming : coming[i] = Head(newline)})

(* Texts and echoes leave the UART whole, in the order they were accepted, *)
(* never one inside another, whatever interrupts send_text and send_drain. *)
Echoes == {<<"LF">>, <<"^C", "LF">>, <<"BS", "SP", "BS">>, <<"a">>, <<"BEL">>}

Pipe == INSTANCE TextPipe WITH
    pipe    <- txfifo \o RingBytes \o thread.rest,
    Outputs <- {Encoded(text) : text \in Texts \cup Echoes}

WholeTexts == Pipe!Spec

(* Bytes do not stay in the ring: it is empty again and again, or its head *)
(* moves for ever (send_drain and the transmit interrupt together).        *)
Drains == []<>RingEmpty \/ []<><<ring.head' # ring.head>>_ring
=============================================================================
