----------------------------- MODULE Lifecycle -----------------------------
(***************************************************************************)
(* What a control-plane command that serves from a controller manager     *)
(* promises, whatever its flags and controllers: it serves only once it   *)
(* has learnt the Consul servers' addresses, it lets go of the Consul     *)
(* server watcher only when it is told to stop or has ended, it ends with *)
(* 0 only after serving and being told to stop and with the watcher       *)
(* stopped, and once it is told to stop (SIGINT or SIGTERM) it ends.      *)
(***************************************************************************)
EXTENDS Integers

VARIABLES
    phase,       \* "starting", "serving" or "exited"
    discovered,  \* the command has a state from the Consul server watcher
    released,    \* the Consul server watcher has stopped
    signalled,   \* SIGINT or SIGTERM has been delivered
    code         \* the exit code, -1 while the command runs

avars == <<phase, discovered, released, signalled, code>>

ATypeOK ==
    /\ phase \in {"starting", "serving", "exited"}
    /\ discovered \in BOOLEAN
    /\ released \in BOOLEAN
    /\ signalled \in BOOLEAN
    /\ code \in {-1, 0, 1}

AInit ==
    /\ phase = "starting"
    /\ discovered = FALSE
    /\ released = FALSE
    /\ signalled = FALSE
    /\ code = -1

\* The command learns the Consul servers from a watcher still running.
Discover ==
    /\ phase = "starting"
    /\ ~discovered /\ ~released
    /\ discovered' = TRUE
    /\ UNCHANGED <<phase, released, signalled, code>>

\* The manager starts serving.
Serve ==
    /\ phase = "starting"
    /\ discovered
    /\ phase' = "serving"
    /\ UNCHANGED <<discovered, released, signalled, code>>

Signal ==
    /\ phase # "exited"
    /\ ~signalled
    /\ signalled' = TRUE
    /\ UNCHANGED <<phase, discovered, released, code>>

\* The watcher stops, once the command is told to stop or has returned.
Release ==
    /\ signalled \/ phase = "exited"
    /\ ~released
    /\ released' = TRUE
    /\ UNCHANGED <<phase, discovered, signalled, code>>

\* The command ends with code c, stopping the watcher or not; 0 only from
\* serving after a signal, and only once the watcher is stopped.
Exit(c) ==
    /\ phase # "exited"
    /\ c = 0 => phase = "serving" /\ signalled
    /\ phase' = "exited"
    /\ code' = c
    /\ released' \in {released, TRUE}
    /\ c = 0 => released'
    /\ UNCHANGED <<discovered, signalled>>

ExitOnSignal == signalled /\ \E c \in {0, 1} : Exit(c)

ANext == Discover \/ Serve \/ Signal \/ Release \/ \E c \in {0, 1} : Exit(c)

\* The safety part: what every step may do.
SafeSpec == AInit /\ [][ANext]_avars

\* A signal is always acted on.
ASpec == SafeSpec /\ WF_avars(ExitOnSignal)

=============================================================================
