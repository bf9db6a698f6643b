\* Every configuration, namespace label and pod, with service annotations of
\* up to 3 characters.
CONSTANT Raw <- MCRaw
SPECIFICATION Spec
INVARIANT TypeOK EnvFollowsPrecedence CommandNamesServiceOnce
CHECK_DEADLOCK FALSE
