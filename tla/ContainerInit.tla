--------------------------- MODULE ContainerInit ---------------------------
(***************************************************************************)
(* The connect-init container that the mesh webhook adds to an injected   *)
(* pod (connect-inject/webhook/container_init.go, MeshWebhook.containerInit)*)
(* and the per-service loop of a multi-port pod that calls it.            *)
(*                                                                         *)
(* containerInit is a pure function of the webhook's process-wide         *)
(* configuration w, the pod's namespace ns, the pod and the multi-port    *)
(* service name mpi. The model keeps every branch of it and abstracts the *)
(* data: an environment variable is its name (plus the group it belongs   *)
(* to), a command-line flag of the rendered template is a record of flag  *)
(* and value, a string built by concatenating a fixed prefix and a       *)
(* service name is the pair of the two (an injective encoding; the init  *)
(* container's name is <<base, mpi>>, mpi = <<>> standing for no suffix).  *)
(* Service names are strings over a small alphabet, so that the split of  *)
(* the comma-separated service annotation is modelled by what it does.    *)
(***************************************************************************)
EXTENDS Naturals, Sequences, FiniteSets

CONSTANT Raw   \* the values of the service annotation that are considered

ASSUME RawAssumption == Raw \subseteq Seq({"a", "b", ","})

-----------------------------------------------------------------------------
(* Inputs.                                                                 *)

\* Characters of annotation values; "," separates service names.
Chars == {"a", "b", ","}

\* A raw annotation or label value that strconv.ParseBool reads: "absent"
\* when the key is not set, "bad" for a value ParseBool rejects.
BoolSetting == {"absent", "true", "false", "bad"}

\* The MeshWebhook fields containerInit reads. authMethod, partition:
\* whether w.AuthMethod, w.ConsulPartition are non-empty.
\* (EnableK8SNSMirroring only chooses the value of CONSUL_LOGIN_NAMESPACE.)
Config == [authMethod : BOOLEAN, tls : BOOLEAN, enableNamespaces : BOOLEAN,
           partition : BOOLEAN, enableTProxy : BOOLEAN, enableCNI : BOOLEAN]

\* The labels of the pod's namespace containerInit reads.
Namespace == [tproxyLabel : BoolSetting]

\* The parts of the pod containerInit reads. svcAnno is the service
\* annotation, svcSet whether it is set at all; saToken: the pod mounts a token of the
\* service account findServiceAccountVolumeMount looks for; iptablesOk:
\* iptablesConfigJSON succeeds on the pod's redirect annotations.
PodOf(R) == [tproxyAnno : BoolSetting, svcSet : BOOLEAN, svcAnno : R,
             saToken : BOOLEAN, iptablesOk : BOOLEAN]

-----------------------------------------------------------------------------
(* Helpers.                                                                *)

\* strconv.ParseBool on the values BoolSetting distinguishes.
ParseBool(raw) == [ok |-> raw \in {"true", "false"}, val |-> raw = "true"]

\* consulDNSEnabled's precedence: the pod annotation, else the namespace
\* label, else the global default; a value ParseBool rejects is an error.
SettingEnabled(podRaw, nsRaw, globalEnabled) ==
    IF podRaw # "absent" THEN ParseBool(podRaw)
    ELSE IF nsRaw # "absent" THEN ParseBool(nsRaw)
    ELSE [ok |-> TRUE, val |-> globalEnabled]

\* common.TransparentProxyEnabled: the same precedence for the tproxy key.
TransparentProxyEnabled(ns, pod, globalEnabled) ==
    SettingEnabled(pod.tproxyAnno, ns.tproxyLabel, globalEnabled)

\* Variant of Split that keeps the separator in front of each later piece.
Max2(a, b) == IF a >= b THEN a ELSE b

SplitKeepingSeparator(s) ==
    LET C == {0, Len(s) + 1} \cup {i \in 1..Len(s) : s[i] = ","}
        cut(j) == CHOOSE x \in C : Cardinality({y \in C : y < x}) = j
    IN  [j \in 1..(Cardinality(C) - 1) |-> SubSeq(s, Max2(cut(j - 1), 1), cut(j) - 1)]

\* strings.Split(s, ","): the pieces between consecutive separators, one
\* more piece than there are separators (so Split("") = <<"">>).
Split(s) ==
    LET C == {0, Len(s) + 1} \cup {i \in 1..Len(s) : s[i] = ","}
        cut(j) == CHOOSE x \in C : Cardinality({y \in C : y < x}) = j
    IN  [j \in 1..(Cardinality(C) - 1) |-> SubSeq(s, cut(j - 1) + 1, cut(j) - 1)]

\* splitCommaSeparatedItemsFromAnnotation: no items when the key is unset.
SplitCommaSeparatedItems(pod) == IF pod.svcSet THEN Split(pod.svcAnno) ELSE <<>>

-----------------------------------------------------------------------------
(* The container.                                                          *)

\* Environment variables by the layer that adds them.
EnvGroups ==
    [identity |-> <<"POD_NAME", "POD_NAMESPACE">>,
     endpoint |-> <<"CONSUL_ADDRESSES", "CONSUL_GRPC_PORT", "CONSUL_HTTP_PORT",
                    "CONSUL_API_TIMEOUT">>,
     tls      |-> <<"CONSUL_USE_TLS", "CONSUL_CACERT_PEM", "CONSUL_TLS_SERVER_NAME">>,
     login    |-> <<"CONSUL_LOGIN_AUTH_METHOD", "CONSUL_LOGIN_BEARER_TOKEN_FILE",
                    "CONSUL_LOGIN_META">>,
     loginNs  |-> <<"CONSUL_LOGIN_NAMESPACE">>,
     loginPt  |-> <<"CONSUL_LOGIN_PARTITION">>,
     ns       |-> <<"CONSUL_NAMESPACE">>,
     pt       |-> <<"CONSUL_PARTITION">>,
     redirect |-> <<"CONSUL_REDIRECT_TRAFFIC_CONFIG">>]

\* Variant of InitEnv that appends the TLS settings after the login ones.
InitEnvTlsAfterLogin(w, redirect) ==
    EnvGroups.identity \o EnvGroups.endpoint
    \o (IF w.authMethod
          THEN EnvGroups.login
               \o (IF w.enableNamespaces THEN EnvGroups.loginNs ELSE <<>>)
               \o (IF w.partition THEN EnvGroups.loginPt ELSE <<>>)
          ELSE <<>>)
    \o (IF w.tls THEN EnvGroups.tls ELSE <<>>)
    \o (IF w.enableNamespaces THEN EnvGroups.ns ELSE <<>>)
    \o (IF w.partition THEN EnvGroups.pt ELSE <<>>)
    \o (IF redirect THEN EnvGroups.redirect ELSE <<>>)

Flag(f, v) == [flag |-> f, val |-> v]

\* Variant of RenderCommand without the {{- if not .AuthMethod }} guard.
RenderCommandNoAuthGuard(data) ==
    <<Flag("-pod-name", <<"${POD_NAME}">>), Flag("-pod-namespace", <<"${POD_NAMESPACE}">>),
      Flag("-consul-node-name", <<"k8s-service-mesh">>), Flag("-log-level", <<"LogLevel">>),
      Flag("-log-json", <<"LogJSON">>)>>
    \o (IF data.authMethod
          THEN <<Flag("-service-account-name", data.serviceAccountName),
                 Flag("-service-name", data.serviceName)>>
          ELSE <<>>)
    \o (IF data.multiPort
          THEN <<Flag("-multiport", <<"true">>),
                 Flag("-proxy-id-file", <<"/consul/connect-inject/proxyid-", data.serviceName>>),
                 Flag("-service-name", data.serviceName)>>
          ELSE <<>>)

\* initContainerCommandTpl rendered with data: the flags, in order.
RenderCommand(data) ==
    <<Flag("-pod-name", <<"${POD_NAME}">>), Flag("-pod-namespace", <<"${POD_NAMESPACE}">>),
      Flag("-consul-node-name", <<"k8s-service-mesh">>), Flag("-log-level", <<"LogLevel">>),
      Flag("-log-json", <<"LogJSON">>)>>
    \o (IF data.authMethod
          THEN <<Flag("-service-account-name", data.serviceAccountName),
                 Flag("-service-name", data.serviceName)>>
          ELSE <<>>)
    \o (IF data.multiPort
          THEN <<Flag("-multiport", <<"true">>),
                 Flag("-proxy-id-file", <<"/consul/connect-inject/proxyid-", data.serviceName>>)>>
               \o (IF ~data.authMethod
                     THEN <<Flag("-service-name", data.serviceName)>>
                     ELSE <<>>)
          ELSE <<>>)

\* The environment of the container, layer after layer; redirect: the
\* container applies the iptables rules itself.
InitEnv(w, redirect) ==
    EnvGroups.identity \o EnvGroups.endpoint
    \o (IF w.tls THEN EnvGroups.tls ELSE <<>>)
    \o (IF w.authMethod
          THEN EnvGroups.login
               \o (IF w.enableNamespaces THEN EnvGroups.loginNs ELSE <<>>)
               \o (IF w.partition THEN EnvGroups.loginPt ELSE <<>>)
          ELSE <<>>)
    \o (IF w.enableNamespaces THEN EnvGroups.ns ELSE <<>>)
    \o (IF w.partition THEN EnvGroups.pt ELSE <<>>)
    \o (IF redirect THEN EnvGroups.redirect ELSE <<>>)

\* The security context for the traffic-redirection mode.
SecurityContext(tproxy, cni) ==
    IF ~tproxy THEN "none" ELSE IF ~cni THEN "rootNetAdmin" ELSE "nonRootDropAll"

\* The volume mounts: the shared data volume, and with an auth method the
\* service-account token volume the bearer token file is read from.
VolumeMounts(w) ==
    {"consul-connect-inject-data"} \cup (IF w.authMethod THEN {"serviceAccountToken"} ELSE {})

\* MeshWebhook.containerInit(namespace, pod, mpi): an error, or the container.
\* mpi = <<>> is a pod that is not multi-port.
ContainerInitOf(w, ns, pod, mpi) ==
    LET tp        == TransparentProxyEnabled(ns, pod, w.enableTProxy)
        multiPort == mpi # <<>>
        svcName   == IF multiPort THEN mpi
                     ELSE IF pod.svcSet THEN pod.svcAnno ELSE <<>>
        data      == [authMethod |-> w.authMethod, multiPort |-> multiPort,
                      serviceName |-> svcName,
                      serviceAccountName |-> IF multiPort THEN mpi ELSE <<"podSA">>]
        env       == InitEnv(w, tp.val /\ ~w.enableCNI)
    IN  \* the early returns, in the order the code reaches them
        IF ~tp.ok THEN [err |-> "tproxyAnnotation"]
        ELSE IF w.authMethod /\ ~pod.saToken THEN [err |-> "serviceAccountToken"]
        ELSE IF tp.val /\ ~w.enableCNI /\ ~pod.iptablesOk THEN [err |-> "iptablesConfig"]
        ELSE   [err     |-> "none",
                name    |-> <<"consul-connect-inject-init", mpi>>,
                env     |-> env,
                mounts  |-> VolumeMounts(w),
                command |-> RenderCommand(data),
                security |-> SecurityContext(tp.val, w.enableCNI)]

\* The init containers of a pod: one per service of a multi-port pod, which
\* may not be combined with transparent proxy; else the single one.
PodInitContainers(w, ns, pod) ==
    LET svcs == SplitCommaSeparatedItems(pod) IN
    IF Len(svcs) <= 1
      THEN <<ContainerInitOf(w, ns, pod, <<>>)>>
      ELSE IF TransparentProxyEnabled(ns, pod, w.enableTProxy).val
        THEN <<[err |-> "multiPortTProxy"]>>
        ELSE [i \in DOMAIN svcs |-> ContainerInitOf(w, ns, pod, svcs[i])]

-----------------------------------------------------------------------------
(* One admission: the webhook builds the init containers of one pod.       *)

VARIABLES
    w,     \* the webhook's configuration
    ns,    \* the pod's namespace
    pod,   \* the pod
    out    \* the init containers built, <<>> before the admission

vars == <<w, ns, pod, out>>

\* The values a flag of the rendered command takes.
FlagValues(R) ==
    ({"/consul/connect-inject/proxyid-"} \X R)
      \cup {<<"${POD_NAME}">>, <<"${POD_NAMESPACE}">>, <<"k8s-service-mesh">>,
           <<"LogLevel">>, <<"LogJSON">>, <<"true">>, <<"podSA">>}
      \cup R

Errors == {"tproxyAnnotation", "serviceAccountToken", "iptablesConfig", "multiPortTProxy"}

\* A service name: a piece of the annotation, free of separators; a
\* single-port pod's service name is the whole annotation.
Pieces == Seq({"a", "b"})

Container ==
    [err : {"none"}, name : {"consul-connect-inject-init"} \X Pieces,
     env : Seq(STRING), mounts : SUBSET {"consul-connect-inject-data", "serviceAccountToken"},
     command : Seq([flag : STRING, val : FlagValues(Pieces \cup Raw)]),
     security : {"none", "rootNetAdmin", "nonRootDropAll"}]

TypeOK ==
    /\ w \in Config
    /\ ns \in Namespace
    /\ pod \in PodOf(Raw)
    /\ out \in Seq([err : Errors] \cup Container)

Init ==
    /\ w \in Config
    /\ ns \in Namespace
    /\ pod \in PodOf(Raw)
    /\ out = <<>>

Admit ==
    /\ out = <<>>
    /\ out' = PodInitContainers(w, ns, pod)
    /\ UNCHANGED <<w, ns, pod>>

Spec == Init /\ [][Admit]_vars

-----------------------------------------------------------------------------
(* Properties of every container built.                                    *)

Built == {out[i] : i \in {j \in DOMAIN out : out[j].err = "none"}}

FlagsNamed(c, f) == {i \in DOMAIN c.command : c.command[i].flag = f}

LayerOrder == <<"identity", "endpoint", "tls", "login", "loginNs", "loginPt",
                "ns", "pt", "redirect">>

LayerOf(v) == CHOOSE i \in DOMAIN LayerOrder :
                  \E j \in DOMAIN EnvGroups[LayerOrder[i]] : EnvGroups[LayerOrder[i]][j] = v

\* The spec's layering of the init container's environment: identity, then
\* the Consul endpoint, TLS, the auth-method login settings, the namespace and
\* partition passthrough and the redirect config, each variable set once:
\* the appends of containerInit must come in this order whatever the flags.
EnvFollowsPrecedence ==
    \A c \in Built :
        \A i, j \in DOMAIN c.env :
            i < j => /\ c.env[i] # c.env[j]
                     /\ LayerOf(c.env[i]) <= LayerOf(c.env[j])

\* The rendered connect-init command names the service exactly once when it
\* is needed (an auth method or a multi-port pod) and never otherwise, and in
\* a multi-port pod that name, the proxy-id file and the container's name
\* are all the one service the container is for.
CommandNamesServiceOnce ==
    \A c \in Built :
        LET sn == FlagsNamed(c, "-service-name")
            pf == FlagsNamed(c, "-proxy-id-file")
            mp == c.name[2] # <<>>
        IN  /\ Cardinality(sn) = IF w.authMethod \/ mp THEN 1 ELSE 0
            /\ mp => /\ Cardinality(pf) = 1
                     /\ \A i \in sn, k \in pf :
                          /\ c.command[i].val = c.name[2]
                          /\ c.command[k].val[2] = c.name[2]

\* The init containers of one pod have distinct names and distinct proxy-id
\* files, one per service of a multi-port pod.
InitContainersDistinct ==
    \A i, j \in DOMAIN out :
        (i # j /\ out[i].err = "none" /\ out[j].err = "none") =>
            /\ out[i].name # out[j].name
            /\ \A a \in FlagsNamed(out[i], "-proxy-id-file"),
                  b \in FlagsNamed(out[j], "-proxy-id-file") :
                     out[i].command[a].val # out[j].command[b].val

=============================================================================
