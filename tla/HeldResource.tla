---------------------------- MODULE HeldResource ----------------------------
(***************************************************************************)
(* evdev_keepalive and pulse_bs2b: two programs that hold a resource, an   *)
(* open input device or a module of PulseAudio, until a signal.            *)
(*                                                                         *)
(* A signal of systemd or of a terminal goes to the program and to the one *)
(* it waits for, pactl or sleep.  It kills a program that has no handler   *)
(* for it yet; between the handlers and the wait it is lost.               *)
(***************************************************************************)
EXTENDS Integers

VARIABLES
    holdPc,     \* where the program is; "ended", "failed", "killed" are over
    holder,     \* "evdev_keepalive" or "pulse_bs2b"
    handlers,   \* how many of SIGINT and SIGTERM have a handler
    held        \* the device is open, the module is loaded

holdVars == <<holdPc, holder, handlers, held>>

\* pulse_bs2b begins with the handlers, evdev_keepalive with the device.
HoldInit ==
    /\ holdPc = "acquire"
    /\ holder \in {"evdev_keepalive", "pulse_bs2b"}
    /\ handlers = IF holder = "pulse_bs2b" THEN 2 ELSE 0
    /\ held = FALSE

\* open, or pactl load-module.
Acquire ==
    /\ holdPc = "acquire"
    /\ \/ held' = TRUE /\ holdPc' = IF handlers = 2 THEN "wait" ELSE "install"
       \/ held' = FALSE /\ holdPc' = IF handlers = 2 THEN "failed" ELSE "ended"
    /\ UNCHANGED <<holder, handlers>>

\* A signal ends pactl, too, maybe after the module has been loaded.
PactlKilled ==
    /\ holdPc = "acquire" /\ holder = "pulse_bs2b"
    /\ holdPc' = "failed"
    /\ held' \in BOOLEAN
    /\ UNCHANGED <<holder, handlers>>

\* sigaction for SIGINT, then for SIGTERM.
Install ==
    /\ holdPc = "install"
    /\ handlers' = handlers + 1
    /\ holdPc' = IF handlers = 0 THEN "install" ELSE "wait"
    /\ UNCHANGED <<holder, held>>

\* A signal without a handler; the kernel closes the device.
KilledEarly ==
    /\ holdPc \in {"acquire", "install"} /\ handlers < 2
    /\ holdPc' = "killed"
    /\ held' = FALSE
    /\ UNCHANGED <<holder, handlers>>

\* A signal in sigsuspend, or during "sleep infinity".
Signalled ==
    /\ holdPc = "wait"
    /\ holdPc' = "release"
    /\ UNCHANGED <<holder, handlers, held>>

\* close, or __stop, whose pactl may fail.
Release ==
    /\ holdPc = "release"
    /\ holdPc' = "ended"
    /\ held' \in IF holder = "pulse_bs2b" THEN BOOLEAN ELSE {FALSE}
    /\ UNCHANGED <<holder, handlers>>

HoldNext == Acquire \/ PactlKilled \/ Install \/ KilledEarly \/ Signalled \/ Release

HoldSpec == HoldInit /\ [][HoldNext]_holdVars

=============================================================================
