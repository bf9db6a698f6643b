-------------------------- MODULE MC_ContainerInit --------------------------
(* Instance of ContainerInit for TLC: service annotations up to a length.  *)
EXTENDS ContainerInit

\* All strings over {"a", "b", ","} of length at most n.
RawUpTo(n) == UNION {[1..k -> {"a", "b", ","}] : k \in 0..n}

\* Strings of length at most 3: no service (""), one service ("a", "ab"),
\* two different ones ("a,b"), one repeated ("a,a"), and empty pieces
\* (",", "a,", ",a", ",,").
MCRaw == RawUpTo(3)
=============================================================================
