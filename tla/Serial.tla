------------------------------- MODULE Serial -------------------------------
(***************************************************************************)
(* The log and the serial port (kernel/core/log.c, kernel/core/serial.c).  *)
(*                                                                         *)
(* A log call is the sequence of characters it still has to send: a string *)
(* or a key with its value counts as one character, a newline as the two   *)
(* that serial_putc makes of it.  The poll of the line status and the      *)
(* write of the character are steps of their own, so that an interrupt can *)
(* come between them.                                                      *)
(***************************************************************************)
EXTENDS Integers, Sequences

CONSTANTS
    TimeoutLimit,   \* SERIAL_TIMEOUT_LIMIT
    Delays          \* polls for which the transmitter is busy after a
                    \* character; -1 for one that never gets ready again

ASSUME SerialConstants ==
    TimeoutLimit \in Nat \ {0} /\ Delays \subseteq Nat \cup {-1}

VARIABLES
    text,       \* what the running log call still has to send
    spin,       \* the polls serial_putc has made for its character
    polled,     \* the last poll found the transmitter empty
    log_ready,  \* g_log_ready
    busy,       \* external: polls until the transmitter is empty
    delay,      \* external: how long it takes for a character
    line        \* external: what has been sent

call == <<text, spin, polled>>

uart == <<busy, delay, line>>

log_writeln(s) == <<s, "CR", "LF">>

log_key_value_hex64(key) == <<key, "CR", "LF">>

SerialInit ==
    /\ text = <<>> /\ spin = 0 /\ polled = FALSE /\ log_ready = FALSE
    /\ delay \in Delays /\ busy \in {0, delay} /\ line = <<>>

\* A log call begins, and sets the port up if nobody has.
Write(t) == text' = t /\ spin' = 0 /\ polled' = FALSE /\ log_ready' = TRUE

Quiet == UNCHANGED <<call, log_ready>>

\* Mutant: the wait has no limit.
PollForever ==
    /\ text # <<>> /\ ~polled
    /\ polled' = (busy = 0)
    /\ busy' = IF busy > 0 THEN busy - 1 ELSE busy
    /\ UNCHANGED <<text, spin, log_ready, delay, line>>

\* One iteration of the wait of serial_putc, which gives the character up
\* when it has seen TimeoutLimit times that the transmitter is busy.
Poll ==
    /\ text # <<>> /\ ~polled
    /\ polled' = (busy = 0)
    /\ busy' = IF busy > 0 THEN busy - 1 ELSE busy
    /\ IF busy # 0 /\ spin + 1 >= TimeoutLimit
       THEN text' = Tail(text) /\ spin' = 0
       ELSE text' = text /\ spin' = IF busy # 0 THEN spin + 1 ELSE spin
    /\ UNCHANGED <<log_ready, delay, line>>

\* The character is written; a transmitter that is not empty loses it.
Send ==
    /\ text # <<>> /\ polled
    /\ line' = IF busy = 0 THEN Append(line, Head(text)) ELSE line
    /\ busy' = delay
    /\ text' = Tail(text) /\ spin' = 0 /\ polled' = FALSE
    /\ UNCHANGED <<log_ready, delay>>

serial_putc == Poll \/ Send

============================================================================
