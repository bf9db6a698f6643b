-------------------------- MODULE MC_InjectConnect --------------------------
EXTENDS InjectConnect

\* 0 (no limit), a fraction of a unit, a unit and a half, and a negative
\* fraction, which ParseQuantity reads too ("-400m"): Value() is 0 only for 0.
MCMillis == {0, 400, 1500, -400}

\* Defaults under which every check passes.
Default ==
    [parseOk |-> TRUE, images |-> TRUE, enablePartitions |-> FALSE, partitionSet |-> FALSE,
     concurrency |-> 2,
     sidecarCPURequest |-> Unset, sidecarCPULimit |-> Unset,
     sidecarMemRequest |-> Unset, sidecarMemLimit |-> Unset,
     portsOk |-> TRUE,
     initCPURequest |-> 400, initCPULimit |-> 400,
     initMemRequest |-> 0, initMemLimit |-> 400,
     listen |-> "ok", caFile |-> "none",
     enablePeering |-> FALSE, enableCAUpdate |-> FALSE]

Q == Millis \cup {Unset, Bad}
QI == Millis \cup {Bad}

\* Command lines that change the defaults in one place (one flag, or one
\* request/limit pair), with and without peering and the CA update.
OneChange ==
    {Default}
    \cup {[Default EXCEPT !.parseOk = FALSE], [Default EXCEPT !.images = FALSE], [Default EXCEPT !.portsOk = FALSE],
          [Default EXCEPT !.concurrency = -1], [Default EXCEPT !.concurrency = 0],
          [Default EXCEPT !.enablePartitions = TRUE],
          [Default EXCEPT !.partitionSet = TRUE],
          [Default EXCEPT !.enablePartitions = TRUE, !.partitionSet = TRUE],
          [Default EXCEPT !.listen = "noPort"], [Default EXCEPT !.listen = "badPort"],
          [Default EXCEPT !.caFile = "readable"], [Default EXCEPT !.caFile = "unreadable"]}
    \cup {[Default EXCEPT !.sidecarCPURequest = q, !.sidecarCPULimit = l] : q, l \in Q}
    \cup {[Default EXCEPT !.sidecarMemRequest = q, !.sidecarMemLimit = l] : q, l \in Q}
    \cup {[Default EXCEPT !.initCPURequest = q, !.initCPULimit = l] : q, l \in QI}
    \cup {[Default EXCEPT !.initMemRequest = q, !.initMemLimit = l] : q, l \in QI}

MCInputs ==
    {[f EXCEPT !.enablePeering = p, !.enableCAUpdate = c] :
        f \in OneChange, p \in BOOLEAN, c \in BOOLEAN}
=============================================================================
