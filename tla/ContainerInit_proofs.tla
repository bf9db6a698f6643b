------------------------ MODULE ContainerInit_proofs ------------------------
(***************************************************************************)
(* Proofs about the init container built by containerInit (ContainerInit) *)
(* for every set of annotation values: whatever the configuration, the    *)
(* namespace label and the pod, each container built names its service   *)
(* once in its command and sets its environment layer after layer.        *)
(***************************************************************************)
EXTENDS ContainerInit, SequenceTheorems, FiniteSetTheorems, TLAPS

\* The names of the environment variables containerInit sets.
EnvVar == {"POD_NAME", "POD_NAMESPACE", "CONSUL_ADDRESSES", "CONSUL_GRPC_PORT",
           "CONSUL_HTTP_PORT", "CONSUL_API_TIMEOUT", "CONSUL_USE_TLS",
           "CONSUL_CACERT_PEM", "CONSUL_TLS_SERVER_NAME", "CONSUL_LOGIN_AUTH_METHOD",
           "CONSUL_LOGIN_BEARER_TOKEN_FILE", "CONSUL_LOGIN_META",
           "CONSUL_LOGIN_NAMESPACE", "CONSUL_LOGIN_PARTITION", "CONSUL_NAMESPACE",
           "CONSUL_PARTITION", "CONSUL_REDIRECT_TRAFFIC_CONFIG"}

\* The login layers of InitEnv.
EnvLogin(cfg) ==
    IF cfg.authMethod
      THEN EnvGroups.login
           \o (IF cfg.enableNamespaces THEN EnvGroups.loginNs ELSE <<>>)
           \o (IF cfg.partition THEN EnvGroups.loginPt ELSE <<>>)
      ELSE <<>>
-----------------------------------------------------------------------------
(* Lemmas about the operators the container is built from.                 *)

\* The variables of each layer of EnvGroups, in order.
LEMMA GroupValues ==
  /\ EnvGroups.identity = <<"POD_NAME", "POD_NAMESPACE">>
  /\ EnvGroups.endpoint = <<"CONSUL_ADDRESSES", "CONSUL_GRPC_PORT", "CONSUL_HTTP_PORT", "CONSUL_API_TIMEOUT">>
  /\ EnvGroups.tls = <<"CONSUL_USE_TLS", "CONSUL_CACERT_PEM", "CONSUL_TLS_SERVER_NAME">>
  /\ EnvGroups.login = <<"CONSUL_LOGIN_AUTH_METHOD", "CONSUL_LOGIN_BEARER_TOKEN_FILE", "CONSUL_LOGIN_META">>
  /\ EnvGroups.loginNs = <<"CONSUL_LOGIN_NAMESPACE">>
  /\ EnvGroups.loginPt = <<"CONSUL_LOGIN_PARTITION">>
  /\ EnvGroups.ns = <<"CONSUL_NAMESPACE">>
  /\ EnvGroups.pt = <<"CONSUL_PARTITION">>
  /\ EnvGroups.redirect = <<"CONSUL_REDIRECT_TRAFFIC_CONFIG">>
  <1>1. EnvGroups.identity = <<"POD_NAME", "POD_NAMESPACE">>
    BY DEF EnvGroups
  <1>2. EnvGroups.endpoint = <<"CONSUL_ADDRESSES", "CONSUL_GRPC_PORT", "CONSUL_HTTP_PORT", "CONSUL_API_TIMEOUT">>
    BY DEF EnvGroups
  <1>3. EnvGroups.tls = <<"CONSUL_USE_TLS", "CONSUL_CACERT_PEM", "CONSUL_TLS_SERVER_NAME">>
    BY DEF EnvGroups
  <1>4. EnvGroups.login = <<"CONSUL_LOGIN_AUTH_METHOD", "CONSUL_LOGIN_BEARER_TOKEN_FILE", "CONSUL_LOGIN_META">>
    BY DEF EnvGroups
  <1>5. EnvGroups.loginNs = <<"CONSUL_LOGIN_NAMESPACE">>
    BY DEF EnvGroups
  <1>6. EnvGroups.loginPt = <<"CONSUL_LOGIN_PARTITION">>
    BY DEF EnvGroups
  <1>7. EnvGroups.ns = <<"CONSUL_NAMESPACE">>
    BY DEF EnvGroups
  <1>8. EnvGroups.pt = <<"CONSUL_PARTITION">>
    BY DEF EnvGroups
  <1>9. EnvGroups.redirect = <<"CONSUL_REDIRECT_TRAFFIC_CONFIG">>
    BY DEF EnvGroups
  <1>10. QED
    BY <1>1, <1>2, <1>3, <1>4, <1>5, <1>6, <1>7, <1>8, <1>9

\* Every layer of EnvGroups is a sequence of variable names.
LEMMA GroupsAreSeqs ==
  /\ EnvGroups.identity \in Seq(EnvVar) /\ EnvGroups.endpoint \in Seq(EnvVar)
  /\ EnvGroups.tls \in Seq(EnvVar) /\ EnvGroups.login \in Seq(EnvVar)
  /\ EnvGroups.loginNs \in Seq(EnvVar) /\ EnvGroups.loginPt \in Seq(EnvVar)
  /\ EnvGroups.ns \in Seq(EnvVar) /\ EnvGroups.pt \in Seq(EnvVar)
  /\ EnvGroups.redirect \in Seq(EnvVar)
  <1>1. EnvGroups.identity \in Seq(EnvVar)
    BY GroupValues DEF EnvVar
  <1>2. EnvGroups.endpoint \in Seq(EnvVar)
    BY GroupValues DEF EnvVar
  <1>3. EnvGroups.tls \in Seq(EnvVar)
    BY GroupValues DEF EnvVar
  <1>4. EnvGroups.login \in Seq(EnvVar)
    BY GroupValues DEF EnvVar
  <1>5. EnvGroups.loginNs \in Seq(EnvVar)
    BY GroupValues DEF EnvVar
  <1>6. EnvGroups.loginPt \in Seq(EnvVar)
    BY GroupValues DEF EnvVar
  <1>7. EnvGroups.ns \in Seq(EnvVar)
    BY GroupValues DEF EnvVar
  <1>8. EnvGroups.pt \in Seq(EnvVar)
    BY GroupValues DEF EnvVar
  <1>9. EnvGroups.redirect \in Seq(EnvVar)
    BY GroupValues DEF EnvVar
  <1>10. QED
    BY <1>1, <1>2, <1>3, <1>4, <1>5, <1>6, <1>7, <1>8, <1>9

-----------------------------------------------------------------------------
(* The containers built.                                                   *)

\* A container containerInit builds without error has InitEnv's
\* environment, the volume mounts and the security context of the mode.
LEMMA ContainerShape ==
  ASSUME NEW cfg \in Config, NEW n \in Namespace, NEW p \in PodOf(Raw), NEW m,
         ContainerInitOf(cfg, n, p, m).err = "none"
  PROVE  LET c  == ContainerInitOf(cfg, n, p, m)
             tp == TransparentProxyEnabled(n, p, cfg.enableTProxy).val
         IN  /\ tp \in BOOLEAN
             /\ c.env = InitEnv(cfg, tp /\ ~cfg.enableCNI)
             /\ c.mounts = VolumeMounts(cfg)
             /\ c.security = SecurityContext(tp, cfg.enableCNI)
  <1>1. TransparentProxyEnabled(n, p, cfg.enableTProxy).val \in BOOLEAN
    BY DEF TransparentProxyEnabled, SettingEnabled, ParseBool, Config
  <1>2. QED
    BY <1>1 DEF ContainerInitOf

\* Every container of a pod that was built without error is containerInit's
\* result for the pod and some multi-port service (or none).
LEMMA PodContainers ==
  ASSUME NEW cfg \in Config, NEW n \in Namespace, NEW p \in PodOf(Raw),
         NEW i \in DOMAIN PodInitContainers(cfg, n, p),
         PodInitContainers(cfg, n, p)[i].err = "none"
  PROVE  \E m : PodInitContainers(cfg, n, p)[i] = ContainerInitOf(cfg, n, p, m)
  <1> DEFINE svcs == SplitCommaSeparatedItems(p)
  <1>1. CASE Len(svcs) <= 1
    <2>1. PodInitContainers(cfg, n, p) = <<ContainerInitOf(cfg, n, p, <<>>)>>
      BY <1>1 DEF PodInitContainers
    <2>2. QED
      BY <2>1
  <1>2. CASE ~(Len(svcs) <= 1) /\ TransparentProxyEnabled(n, p, cfg.enableTProxy).val
    <2>1. PodInitContainers(cfg, n, p) = <<[err |-> "multiPortTProxy"]>>
      BY <1>2 DEF PodInitContainers
    <2>2. QED
      BY <2>1
  <1>3. CASE ~(Len(svcs) <= 1) /\ ~TransparentProxyEnabled(n, p, cfg.enableTProxy).val
    <2>1. PodInitContainers(cfg, n, p)
            = [j \in DOMAIN svcs |-> ContainerInitOf(cfg, n, p, svcs[j])]
      BY <1>3 DEF PodInitContainers
    <2>2. QED
      BY <2>1
  <1>4. QED
    BY <1>1, <1>2, <1>3

\* The admission builds the containers of the pod from the configuration,
\* the namespace and the pod, which stay as they are.
AdmitInv ==
    /\ w \in Config /\ ns \in Namespace /\ pod \in PodOf(Raw)
    /\ out = <<>> \/ out = PodInitContainers(w, ns, pod)

LEMMA AdmitInvariant == Spec => []AdmitInv
  <1>1. Init => AdmitInv
    BY DEF Init, AdmitInv
  <1>2. AdmitInv /\ [Admit]_vars => AdmitInv'
    BY DEF AdmitInv, Admit, vars
  <1>3. QED
    BY <1>1, <1>2, PTL DEF Spec

\* A container built is containerInit's result for the current inputs.
LEMMA BuiltShape ==
  ASSUME AdmitInv, NEW c \in Built
  PROVE  \E m : /\ c = ContainerInitOf(w, ns, pod, m)
               /\ ContainerInitOf(w, ns, pod, m).err = "none"
  <1>1. PICK i \in DOMAIN out : out[i].err = "none" /\ c = out[i]
    BY DEF Built
  <1>2. out = PodInitContainers(w, ns, pod)
    BY <1>1 DEF AdmitInv
  <1>3. PICK m : out[i] = ContainerInitOf(w, ns, pod, m)
    BY <1>1, <1>2, PodContainers DEF AdmitInv
  <1>4. QED
    BY <1>1, <1>3

-----------------------------------------------------------------------------
(* The rendered connect-init command.                                      *)

\* A concatenation is the sequence that agrees with it index by index.
LEMMA ConcatIs ==
  ASSUME NEW S, NEW s \in Seq(S), NEW t \in Seq(S), NEW u \in Seq(S),
         Len(u) = Len(s) + Len(t),
         \A i \in 1..Len(u) : u[i] = IF i <= Len(s) THEN s[i] ELSE t[i - Len(s)]
  PROVE  s \o t = u
  <1>1. s \o t \in Seq(S) /\ Len(s \o t) = Len(u)
        /\ \A i \in 1..Len(u) : (s \o t)[i] = IF i <= Len(s) THEN s[i] ELSE t[i - Len(s)]
    BY ConcatProperties
  <1>2. QED
    BY <1>1, SeqEqual

\* {k} \o {l}: the concatenation of two tuples of k and l elements.
LEMMA Cat52 ==
  ASSUME NEW a1, NEW a2, NEW a3, NEW a4, NEW a5, NEW b1, NEW b2
  PROVE  <<a1, a2, a3, a4, a5>> \o <<b1, b2>> = <<a1, a2, a3, a4, a5, b1, b2>>
  <1> DEFINE S == {a1, a2, a3, a4, a5, b1, b2}
             s == <<a1, a2, a3, a4, a5>>
             t == <<b1, b2>>
             u == <<a1, a2, a3, a4, a5, b1, b2>>
  <1>1. s \in Seq(S) /\ t \in Seq(S) /\ u \in Seq(S) /\ Len(u) = Len(s) + Len(t)
    OBVIOUS
  <1>2. \A i \in 1..Len(u) : u[i] = IF i <= Len(s) THEN s[i] ELSE t[i - Len(s)]
    OBVIOUS
  <1>3. QED
    BY <1>1, <1>2, ConcatIs

LEMMA Cat72 ==
  ASSUME NEW a1, NEW a2, NEW a3, NEW a4, NEW a5, NEW a6, NEW a7, NEW b1, NEW b2
  PROVE  <<a1, a2, a3, a4, a5, a6, a7>> \o <<b1, b2>> = <<a1, a2, a3, a4, a5, a6, a7, b1, b2>>
  <1> DEFINE S == {a1, a2, a3, a4, a5, a6, a7, b1, b2}
             s == <<a1, a2, a3, a4, a5, a6, a7>>
             t == <<b1, b2>>
             u == <<a1, a2, a3, a4, a5, a6, a7, b1, b2>>
  <1>1. s \in Seq(S) /\ t \in Seq(S) /\ u \in Seq(S) /\ Len(u) = Len(s) + Len(t)
    OBVIOUS
  <1>2. \A i \in 1..Len(u) : u[i] = IF i <= Len(s) THEN s[i] ELSE t[i - Len(s)]
    OBVIOUS
  <1>3. QED
    BY <1>1, <1>2, ConcatIs

LEMMA Cat21 ==
  ASSUME NEW a1, NEW a2, NEW b1
  PROVE  <<a1, a2>> \o <<b1>> = <<a1, a2, b1>>
  <1> DEFINE S == {a1, a2, b1}
             s == <<a1, a2>>
             t == <<b1>>
             u == <<a1, a2, b1>>
  <1>1. s \in Seq(S) /\ t \in Seq(S) /\ u \in Seq(S) /\ Len(u) = Len(s) + Len(t)
    OBVIOUS
  <1>2. \A i \in 1..Len(u) : u[i] = IF i <= Len(s) THEN s[i] ELSE t[i - Len(s)]
    OBVIOUS
  <1>3. QED
    BY <1>1, <1>2, ConcatIs

LEMMA Cat53 ==
  ASSUME NEW a1, NEW a2, NEW a3, NEW a4, NEW a5, NEW b1, NEW b2, NEW b3
  PROVE  <<a1, a2, a3, a4, a5>> \o <<b1, b2, b3>> = <<a1, a2, a3, a4, a5, b1, b2, b3>>
  <1> DEFINE S == {a1, a2, a3, a4, a5, b1, b2, b3}
             s == <<a1, a2, a3, a4, a5>>
             t == <<b1, b2, b3>>
             u == <<a1, a2, a3, a4, a5, b1, b2, b3>>
  <1>1. s \in Seq(S) /\ t \in Seq(S) /\ u \in Seq(S) /\ Len(u) = Len(s) + Len(t)
    OBVIOUS
  <1>2. \A i \in 1..Len(u) : u[i] = IF i <= Len(s) THEN s[i] ELSE t[i - Len(s)]
    OBVIOUS
  <1>3. QED
    BY <1>1, <1>2, ConcatIs

\* The flags of initContainerCommandTpl, as names the provers keep opaque
\* while tuples of them are concatenated.
PodNameFlag == Flag("-pod-name", <<"${POD_NAME}">>)
PodNsFlag   == Flag("-pod-namespace", <<"${POD_NAMESPACE}">>)
NodeFlag    == Flag("-consul-node-name", <<"k8s-service-mesh">>)
LevelFlag   == Flag("-log-level", <<"LogLevel">>)
JsonFlag    == Flag("-log-json", <<"LogJSON">>)
SAFlag(d)   == Flag("-service-account-name", d.serviceAccountName)
SNFlag(d)   == Flag("-service-name", d.serviceName)
MPFlag      == Flag("-multiport", <<"true">>)
PFFlag(d)   == Flag("-proxy-id-file", <<"/consul/connect-inject/proxyid-", d.serviceName>>)

\* The flag each of them sets, and the values that carry the service name.
LEMMA FlagFields ==
  ASSUME NEW d
  PROVE  /\ PodNameFlag.flag = "-pod-name" /\ PodNsFlag.flag = "-pod-namespace"
         /\ NodeFlag.flag = "-consul-node-name" /\ LevelFlag.flag = "-log-level"
         /\ JsonFlag.flag = "-log-json" /\ MPFlag.flag = "-multiport"
         /\ SAFlag(d).flag = "-service-account-name"
         /\ SNFlag(d).flag = "-service-name" /\ SNFlag(d).val = d.serviceName
         /\ PFFlag(d).flag = "-proxy-id-file" /\ PFFlag(d).val[2] = d.serviceName
  BY DEF Flag, PodNameFlag, PodNsFlag, NodeFlag, LevelFlag, JsonFlag, SAFlag, SNFlag,
         MPFlag, PFFlag

\* Where the rendered template names the service and the proxy-id file, for
\* each combination of its two guards, and what it names them with.
LEMMA RenderedFlags ==
  ASSUME NEW d, d.authMethod \in BOOLEAN, d.multiPort \in BOOLEAN
  PROVE  LET cmd == RenderCommand(d)
             sn  == {i \in DOMAIN cmd : cmd[i].flag = "-service-name"}
             pf  == {i \in DOMAIN cmd : cmd[i].flag = "-proxy-id-file"}
         IN  /\ sn = IF d.authMethod THEN {7} ELSE IF d.multiPort THEN {8} ELSE {}
             /\ pf = IF ~d.multiPort THEN {} ELSE IF d.authMethod THEN {9} ELSE {7}
             /\ \A i \in sn : cmd[i].val = d.serviceName
             /\ \A k \in pf : cmd[k].val[2] = d.serviceName
  <1> DEFINE f1 == PodNameFlag  f2 == PodNsFlag  f3 == NodeFlag  f4 == LevelFlag
             f5 == JsonFlag  sa == SAFlag(d)  snf == SNFlag(d)  mpf == MPFlag
             pff == PFFlag(d)
  <1>1. RenderCommand(d) =
          <<f1, f2, f3, f4, f5>> \o (IF d.authMethod THEN <<sa, snf>> ELSE <<>>)
            \o (IF d.multiPort THEN <<mpf, pff>> \o (IF ~d.authMethod THEN <<snf>> ELSE <<>>)
                ELSE <<>>)
    BY DEF RenderCommand, PodNameFlag, PodNsFlag, NodeFlag, LevelFlag, JsonFlag,
           SAFlag, SNFlag, MPFlag, PFFlag
  <1>2. CASE d.authMethod /\ d.multiPort
    <2>1. <<mpf, pff>> \o <<>> = <<mpf, pff>>
      OBVIOUS
    <2>2. <<f1, f2, f3, f4, f5>> \o <<sa, snf>> = <<f1, f2, f3, f4, f5, sa, snf>>
      BY Cat52
    <2>3. <<f1, f2, f3, f4, f5, sa, snf>> \o <<mpf, pff>> = <<f1, f2, f3, f4, f5, sa, snf, mpf, pff>>
      BY Cat72
    <2>4. RenderCommand(d) = <<f1, f2, f3, f4, f5, sa, snf, mpf, pff>>
      BY <1>1, <1>2, <2>1, <2>2, <2>3
    <2>a. /\ DOMAIN RenderCommand(d) = 1..9
          /\ RenderCommand(d)[1].flag = "-pod-name"
          /\ RenderCommand(d)[2].flag = "-pod-namespace"
          /\ RenderCommand(d)[3].flag = "-consul-node-name"
          /\ RenderCommand(d)[4].flag = "-log-level"
          /\ RenderCommand(d)[5].flag = "-log-json"
          /\ RenderCommand(d)[6].flag = "-service-account-name"
          /\ RenderCommand(d)[7].flag = "-service-name"
          /\ RenderCommand(d)[8].flag = "-multiport"
          /\ RenderCommand(d)[9].flag = "-proxy-id-file"
      BY <2>4, FlagFields
    <2>b. /\ {i \in DOMAIN RenderCommand(d) : RenderCommand(d)[i].flag = "-service-name"} = {7}
          /\ {i \in DOMAIN RenderCommand(d) : RenderCommand(d)[i].flag = "-proxy-id-file"} = {9}
      BY <2>a
    <2>c. RenderCommand(d)[7].val = d.serviceName /\ RenderCommand(d)[9].val[2] = d.serviceName
      BY <2>4, FlagFields
    <2>5. /\ {i \in DOMAIN RenderCommand(d) : RenderCommand(d)[i].flag = "-service-name"} = {7}
          /\ {i \in DOMAIN RenderCommand(d) : RenderCommand(d)[i].flag = "-proxy-id-file"} = {9}
          /\ RenderCommand(d)[7].val = d.serviceName /\ RenderCommand(d)[9].val[2] = d.serviceName
      BY <2>b, <2>c
    <2>6. QED
      BY <1>2, <2>5
  <1>3. CASE d.authMethod /\ ~d.multiPort
    <2>1. <<f1, f2, f3, f4, f5>> \o <<sa, snf>> = <<f1, f2, f3, f4, f5, sa, snf>>
      BY Cat52
    <2>2. <<f1, f2, f3, f4, f5, sa, snf>> \o <<>> = <<f1, f2, f3, f4, f5, sa, snf>>
      OBVIOUS
    <2>3. RenderCommand(d) = <<f1, f2, f3, f4, f5, sa, snf>>
      BY <1>1, <1>3, <2>1, <2>2
    <2>a. /\ DOMAIN RenderCommand(d) = 1..7
          /\ RenderCommand(d)[1].flag = "-pod-name"
          /\ RenderCommand(d)[2].flag = "-pod-namespace"
          /\ RenderCommand(d)[3].flag = "-consul-node-name"
          /\ RenderCommand(d)[4].flag = "-log-level"
          /\ RenderCommand(d)[5].flag = "-log-json"
          /\ RenderCommand(d)[6].flag = "-service-account-name"
          /\ RenderCommand(d)[7].flag = "-service-name"
      BY <2>3, FlagFields
    <2>b. /\ {i \in DOMAIN RenderCommand(d) : RenderCommand(d)[i].flag = "-service-name"} = {7}
          /\ {i \in DOMAIN RenderCommand(d) : RenderCommand(d)[i].flag = "-proxy-id-file"} = {}
      BY <2>a
    <2>c. RenderCommand(d)[7].val = d.serviceName
      BY <2>3, FlagFields
    <2>4. /\ {i \in DOMAIN RenderCommand(d) : RenderCommand(d)[i].flag = "-service-name"} = {7}
          /\ {i \in DOMAIN RenderCommand(d) : RenderCommand(d)[i].flag = "-proxy-id-file"} = {}
          /\ RenderCommand(d)[7].val = d.serviceName
      BY <2>b, <2>c
    <2>5. QED
      BY <1>3, <2>4
  <1>4. CASE ~d.authMethod /\ d.multiPort
    <2>1. <<mpf, pff>> \o <<snf>> = <<mpf, pff, snf>>
      BY Cat21
    <2>2. <<f1, f2, f3, f4, f5>> \o <<>> = <<f1, f2, f3, f4, f5>>
      OBVIOUS
    <2>3. <<f1, f2, f3, f4, f5>> \o <<mpf, pff, snf>> = <<f1, f2, f3, f4, f5, mpf, pff, snf>>
      BY Cat53
    <2>4. RenderCommand(d) = <<f1, f2, f3, f4, f5, mpf, pff, snf>>
      BY <1>1, <1>4, <2>1, <2>2, <2>3
    <2>a. /\ DOMAIN RenderCommand(d) = 1..8
          /\ RenderCommand(d)[1].flag = "-pod-name"
          /\ RenderCommand(d)[2].flag = "-pod-namespace"
          /\ RenderCommand(d)[3].flag = "-consul-node-name"
          /\ RenderCommand(d)[4].flag = "-log-level"
          /\ RenderCommand(d)[5].flag = "-log-json"
          /\ RenderCommand(d)[6].flag = "-multiport"
          /\ RenderCommand(d)[7].flag = "-proxy-id-file"
          /\ RenderCommand(d)[8].flag = "-service-name"
      BY <2>4, FlagFields
    <2>b. /\ {i \in DOMAIN RenderCommand(d) : RenderCommand(d)[i].flag = "-service-name"} = {8}
          /\ {i \in DOMAIN RenderCommand(d) : RenderCommand(d)[i].flag = "-proxy-id-file"} = {7}
      BY <2>a
    <2>c. RenderCommand(d)[8].val = d.serviceName /\ RenderCommand(d)[7].val[2] = d.serviceName
      BY <2>4, FlagFields
    <2>5. /\ {i \in DOMAIN RenderCommand(d) : RenderCommand(d)[i].flag = "-service-name"} = {8}
          /\ {i \in DOMAIN RenderCommand(d) : RenderCommand(d)[i].flag = "-proxy-id-file"} = {7}
          /\ RenderCommand(d)[8].val = d.serviceName /\ RenderCommand(d)[7].val[2] = d.serviceName
      BY <2>b, <2>c
    <2>6. QED
      BY <1>4, <2>5
  <1>5. CASE ~d.authMethod /\ ~d.multiPort
    <2>1. <<f1, f2, f3, f4, f5>> \o <<>> = <<f1, f2, f3, f4, f5>>
      OBVIOUS
    <2>2. RenderCommand(d) = <<f1, f2, f3, f4, f5>>
      BY <1>1, <1>5, <2>1
    <2>3. /\ DOMAIN RenderCommand(d) = 1..5
          /\ RenderCommand(d)[1].flag = "-pod-name" /\ RenderCommand(d)[2].flag = "-pod-namespace"
          /\ RenderCommand(d)[3].flag = "-consul-node-name"
          /\ RenderCommand(d)[4].flag = "-log-level" /\ RenderCommand(d)[5].flag = "-log-json"
      BY <2>2, FlagFields
    <2>5. /\ {i \in DOMAIN RenderCommand(d) : RenderCommand(d)[i].flag = "-service-name"} = {}
          /\ {i \in DOMAIN RenderCommand(d) : RenderCommand(d)[i].flag = "-proxy-id-file"} = {}
      BY <2>3
    <2>4. QED
      BY <1>5, <2>5
  <1>6. QED
    BY <1>2, <1>3, <1>4, <1>5

\* The data containerInit renders the command template with, for the
\* multi-port service m (<<>> for none).
TemplateData(m) ==
    [authMethod |-> w.authMethod, multiPort |-> m # <<>>,
     serviceName |-> IF m # <<>> THEN m ELSE IF pod.svcSet THEN pod.svcAnno ELSE <<>>,
     serviceAccountName |-> IF m # <<>> THEN m ELSE <<"podSA">>]

\* The connect-init command (initContainerCommandTpl, rendered in
\* containerInit, lines 253-265) passes -service-name exactly once when the
\* container logs in with an auth method or serves one service of a
\* multi-port pod, and never otherwise; in a multi-port pod it passes one
\* -proxy-id-file, and both carry the service the container is named for.
THEOREM CommandNamesService == Spec => []CommandNamesServiceOnce
  <1>1. AdmitInv => CommandNamesServiceOnce
    <2> SUFFICES ASSUME AdmitInv, NEW c \in Built
                 PROVE  LET sn == FlagsNamed(c, "-service-name")
                            pf == FlagsNamed(c, "-proxy-id-file")
                            mp == c.name[2] # <<>>
                        IN  /\ Cardinality(sn) = IF w.authMethod \/ mp THEN 1 ELSE 0
                            /\ mp => /\ Cardinality(pf) = 1
                                     /\ \A i \in sn, k \in pf :
                                          /\ c.command[i].val = c.name[2]
                                          /\ c.command[k].val[2] = c.name[2]
      BY DEF CommandNamesServiceOnce
    <2>1. PICK m : c = ContainerInitOf(w, ns, pod, m)
                   /\ ContainerInitOf(w, ns, pod, m).err = "none"
      BY BuiltShape
    <2> DEFINE data == TemplateData(m)
    <2>2. c.command = RenderCommand(data) /\ c.name = <<"consul-connect-inject-init", m>>
      BY <2>1 DEF ContainerInitOf, TemplateData
    <2>3. /\ data.authMethod = w.authMethod /\ w.authMethod \in BOOLEAN
          /\ data.multiPort \in BOOLEAN
          /\ data.multiPort <=> c.name[2] # <<>>
          /\ data.multiPort => data.serviceName = c.name[2]
      <3>1. data.authMethod = w.authMethod /\ w.authMethod \in BOOLEAN
        BY DEF TemplateData, AdmitInv, Config
      <3>2. data.multiPort = (m # <<>>) /\ c.name[2] = m
        BY <2>2 DEF TemplateData
      <3>3. m # <<>> => data.serviceName = m
        BY DEF TemplateData
      <3>4. QED
        BY <3>1, <3>2, <3>3
    <2>4. LET cmd == RenderCommand(data)
              sn  == {i \in DOMAIN cmd : cmd[i].flag = "-service-name"}
              pf  == {i \in DOMAIN cmd : cmd[i].flag = "-proxy-id-file"}
          IN  /\ sn = IF data.authMethod THEN {7} ELSE IF data.multiPort THEN {8} ELSE {}
              /\ pf = IF ~data.multiPort THEN {} ELSE IF data.authMethod THEN {9} ELSE {7}
              /\ \A i \in sn : cmd[i].val = data.serviceName
              /\ \A k \in pf : cmd[k].val[2] = data.serviceName
      BY <2>3, RenderedFlags
    <2>5. /\ FlagsNamed(c, "-service-name")
               = IF data.authMethod THEN {7} ELSE IF data.multiPort THEN {8} ELSE {}
          /\ FlagsNamed(c, "-proxy-id-file")
               = IF ~data.multiPort THEN {} ELSE IF data.authMethod THEN {9} ELSE {7}
          /\ \A i \in FlagsNamed(c, "-service-name") : c.command[i].val = data.serviceName
          /\ \A k \in FlagsNamed(c, "-proxy-id-file") : c.command[k].val[2] = data.serviceName
      BY <2>2, <2>4 DEF FlagsNamed
    <2>6. Cardinality({7}) = 1 /\ Cardinality({8}) = 1 /\ Cardinality({9}) = 1
          /\ Cardinality({}) = 0
      BY FS_Singleton, FS_EmptySet
    <2>7. CASE data.authMethod /\ data.multiPort
      BY <2>3, <2>5, <2>6, <2>7
    <2>8. CASE data.authMethod /\ ~data.multiPort
      BY <2>3, <2>5, <2>6, <2>8
    <2>9. CASE ~data.authMethod /\ data.multiPort
      BY <2>3, <2>5, <2>6, <2>9
    <2>10. CASE ~data.authMethod /\ ~data.multiPort
      BY <2>3, <2>5, <2>6, <2>10
    <2>11. QED
      BY <2>3, <2>7, <2>8, <2>9, <2>10
  <1>2. QED
    BY <1>1, AdmitInvariant, PTL

-----------------------------------------------------------------------------
(* The layering of the environment.                                        *)

\* The i-th layer of the environment, in the order of LayerOrder.
Layer(i) == EnvGroups[LayerOrder[i]]

\* No variable is in two layers.
LEMMA LayersDisjoint ==
  ASSUME NEW i \in 1..9, NEW k \in 1..9, NEW j \in DOMAIN Layer(i),
         NEW l \in DOMAIN Layer(k), Layer(i)[j] = Layer(k)[l]
  PROVE  i = k
  <1>1. /\ Layer(1) = EnvGroups.identity /\ Layer(2) = EnvGroups.endpoint
        /\ Layer(3) = EnvGroups.tls /\ Layer(4) = EnvGroups.login
        /\ Layer(5) = EnvGroups.loginNs /\ Layer(6) = EnvGroups.loginPt
        /\ Layer(7) = EnvGroups.ns /\ Layer(8) = EnvGroups.pt
        /\ Layer(9) = EnvGroups.redirect
    BY DEF Layer, LayerOrder
  <1>2. QED
    BY <1>1, GroupValues

\* LayerOf finds the layer of every variable of a layer.
LEMMA LayerOfLayer ==
  ASSUME NEW i \in 1..9, NEW j \in DOMAIN Layer(i)
  PROVE  LayerOf(Layer(i)[j]) = i
  <1> DEFINE v == Layer(i)[j]
             P(k) == \E l \in DOMAIN Layer(k) : Layer(k)[l] = v
  <1>1. DOMAIN LayerOrder = 1..9
    BY DEF LayerOrder
  <1>2. LayerOf(v) = CHOOSE k \in 1..9 : P(k)
    BY <1>1 DEF LayerOf, Layer
  <1>3. P(i)
    OBVIOUS
  <1>4. \A k \in 1..9 : P(k) => k = i
    BY LayersDisjoint
  <1>5. QED
    BY <1>2, <1>3, <1>4

\* s sets each variable once, and in the order of the layers.
Ordered(s) ==
    \A i, j \in DOMAIN s : i < j => s[i] # s[j] /\ LayerOf(s[i]) <= LayerOf(s[j])

\* Every variable of s is of a layer in lo..hi.
Within(s, lo, hi) == \A i \in DOMAIN s : LayerOf(s[i]) \in lo..hi

\* Appending variables of later layers to an ordered sequence keeps it
\* ordered.
LEMMA OrderedConcat ==
  ASSUME NEW s \in Seq(EnvVar), NEW t \in Seq(EnvVar),
         NEW a \in Nat, NEW m \in Nat, NEW n \in Nat, NEW b \in Nat,
         a <= m, n = m + 1, m <= b,
         Ordered(s), Ordered(t), Within(s, a, m), Within(t, n, b)
  PROVE  /\ s \o t \in Seq(EnvVar)
         /\ Ordered(s \o t)
         /\ Within(s \o t, a, b)
  <1>1. /\ s \o t \in Seq(EnvVar)
        /\ Len(s \o t) = Len(s) + Len(t)
        /\ \A i \in 1..Len(s) + Len(t) :
              (s \o t)[i] = IF i <= Len(s) THEN s[i] ELSE t[i - Len(s)]
    BY ConcatProperties
  <1>2. DOMAIN (s \o t) = 1..Len(s) + Len(t) /\ DOMAIN s = 1..Len(s) /\ DOMAIN t = 1..Len(t)
    BY <1>1
  <1>3. Ordered(s \o t)
    <2> SUFFICES ASSUME NEW i \in 1..Len(s) + Len(t), NEW j \in 1..Len(s) + Len(t), i < j
                 PROVE  (s \o t)[i] # (s \o t)[j]
                        /\ LayerOf((s \o t)[i]) <= LayerOf((s \o t)[j])
      BY <1>2 DEF Ordered
    <2>1. CASE j <= Len(s)
      BY <1>1, <1>2, <2>1 DEF Ordered
    <2>2. CASE i > Len(s)
      <3>1. i - Len(s) \in DOMAIN t /\ j - Len(s) \in DOMAIN t /\ i - Len(s) < j - Len(s)
        BY <1>2, <2>2
      <3>2. QED
        BY <1>1, <2>2, <3>1 DEF Ordered
    <2>3. CASE i <= Len(s) /\ j > Len(s)
      <3>1. i \in DOMAIN s /\ j - Len(s) \in DOMAIN t
        BY <1>2, <2>3
      <3>2. LayerOf(s[i]) \in a..m /\ LayerOf(t[j - Len(s)]) \in m + 1..b
        BY <3>1 DEF Within
      <3>3. QED
        BY <1>1, <2>3, <3>2
    <2>4. QED
      BY <2>1, <2>2, <2>3
  <1>4. Within(s \o t, a, b)
    <2> SUFFICES ASSUME NEW i \in 1..Len(s) + Len(t) PROVE LayerOf((s \o t)[i]) \in a..b
      BY <1>2 DEF Within
    <2>1. CASE i <= Len(s)
      <3>1. i \in DOMAIN s /\ (s \o t)[i] = s[i]
        BY <1>1, <1>2, <2>1
      <3>2. QED
        BY <3>1 DEF Within
    <2>2. CASE i > Len(s)
      <3>1. i - Len(s) \in DOMAIN t /\ (s \o t)[i] = t[i - Len(s)]
        BY <1>1, <1>2, <2>2
      <3>2. QED
        BY <3>1 DEF Within
    <2>3. QED
      BY <2>1, <2>2
  <1>5. QED
    BY <1>1, <1>3, <1>4

\* A layer is ordered and within itself; so is the empty sequence, within
\* any bounds.
LEMMA LayerOrdered ==
  ASSUME NEW i \in 1..9
  PROVE  /\ Ordered(Layer(i)) /\ Within(Layer(i), i, i)
         /\ Ordered(<<>>) /\ \A lo, hi \in Nat : Within(<<>>, lo, hi)
  <1>1. \A j \in DOMAIN Layer(i) : LayerOf(Layer(i)[j]) = i
    BY LayerOfLayer
  <1>2. \A j, l \in DOMAIN Layer(i) : j < l => Layer(i)[j] # Layer(i)[l]
    <2>1. /\ Layer(1) = EnvGroups.identity /\ Layer(2) = EnvGroups.endpoint
          /\ Layer(3) = EnvGroups.tls /\ Layer(4) = EnvGroups.login
          /\ Layer(5) = EnvGroups.loginNs /\ Layer(6) = EnvGroups.loginPt
          /\ Layer(7) = EnvGroups.ns /\ Layer(8) = EnvGroups.pt
          /\ Layer(9) = EnvGroups.redirect
      BY DEF Layer, LayerOrder
    <2>2. QED
      BY <2>1, GroupValues
  <1>3. QED
    BY <1>1, <1>2 DEF Ordered, Within

\* The layers of EnvGroups by their place in LayerOrder.
LEMMA LayerNames ==
  /\ Layer(1) = EnvGroups.identity /\ Layer(2) = EnvGroups.endpoint
  /\ Layer(3) = EnvGroups.tls /\ Layer(4) = EnvGroups.login
  /\ Layer(5) = EnvGroups.loginNs /\ Layer(6) = EnvGroups.loginPt
  /\ Layer(7) = EnvGroups.ns /\ Layer(8) = EnvGroups.pt
  /\ Layer(9) = EnvGroups.redirect
  BY DEF Layer, LayerOrder

\* A layer that containerInit appends when b holds, and leaves out otherwise.
Opt(b, i) == IF b THEN Layer(i) ELSE <<>>

LEMMA OptionalLayer ==
  ASSUME NEW i \in 1..9, NEW b \in BOOLEAN
  PROVE  Opt(b, i) \in Seq(EnvVar) /\ Ordered(Opt(b, i)) /\ Within(Opt(b, i), i, i)
  <1>1. Layer(i) \in Seq(EnvVar) /\ Ordered(Layer(i)) /\ Within(Layer(i), i, i)
    <2>1. Layer(i) \in Seq(EnvVar)
      <3>1. i \in {1, 2, 3, 4, 5, 6, 7, 8, 9}
        OBVIOUS
      <3>2. QED
        BY <3>1, LayerNames, GroupsAreSeqs, Zenon
    <2>2. QED
      BY <2>1, LayerOrdered, Zenon
  <1>2. <<>> \in Seq(EnvVar) /\ Ordered(<<>>) /\ Within(<<>>, i, i)
    <2>1. i \in Nat /\ <<>> \in Seq(EnvVar)
      OBVIOUS
    <2>2. QED
      BY <2>1, LayerOrdered, Zenon
  <1>3. CASE b
    BY <1>1, <1>3 DEF Opt
  <1>4. CASE ~b
    BY <1>2, <1>4 DEF Opt
  <1>5. QED
    BY <1>3, <1>4

\* The login settings are ordered and of the layers login..loginPt.
LEMMA LoginOrdered ==
  ASSUME NEW cfg \in Config
  PROVE  EnvLogin(cfg) \in Seq(EnvVar) /\ Ordered(EnvLogin(cfg)) /\ Within(EnvLogin(cfg), 4, 6)
  <1> DEFINE L4 == Opt(TRUE, 4)
             O5 == Opt(cfg.enableNamespaces, 5)
             O6 == Opt(cfg.partition, 6)
  <1>1. EnvLogin(cfg) = IF cfg.authMethod THEN L4 \o O5 \o O6 ELSE <<>>
    BY LayerNames DEF EnvLogin, Opt
  <1>2. /\ L4 \in Seq(EnvVar) /\ Ordered(L4) /\ Within(L4, 4, 4)
        /\ O5 \in Seq(EnvVar) /\ Ordered(O5) /\ Within(O5, 5, 5)
        /\ O6 \in Seq(EnvVar) /\ Ordered(O6) /\ Within(O6, 6, 6)
    <2>1. /\ cfg.enableNamespaces \in BOOLEAN /\ cfg.partition \in BOOLEAN /\ TRUE \in BOOLEAN
          /\ 4 \in 1..9 /\ 5 \in 1..9 /\ 6 \in 1..9
      BY DEF Config
    <2>2. QED
      BY <2>1, OptionalLayer, Zenon
  <1>a. 4 <= 4 /\ 5 = 4 + 1 /\ 4 <= 5 /\ 5 <= 5 /\ 6 = 5 + 1 /\ 5 <= 6
    OBVIOUS
  <1>3. L4 \o O5 \in Seq(EnvVar) /\ Ordered(L4 \o O5) /\ Within(L4 \o O5, 4, 5)
    BY <1>2, <1>a, OrderedConcat, Zenon
  <1>4. L4 \o O5 \o O6 \in Seq(EnvVar) /\ Ordered(L4 \o O5 \o O6) /\ Within(L4 \o O5 \o O6, 4, 6)
    BY <1>2, <1>3, <1>a, OrderedConcat, Zenon
  <1>5. <<>> \in Seq(EnvVar) /\ Ordered(<<>>) /\ Within(<<>>, 4, 6)
    <2>1. 4 \in 1..9 /\ 4 \in Nat /\ 6 \in Nat /\ <<>> \in Seq(EnvVar)
      OBVIOUS
    <2>2. QED
      BY <2>1, LayerOrdered, Zenon
  <1>6. CASE cfg.authMethod
    BY <1>1, <1>4, <1>6
  <1>7. CASE ~cfg.authMethod
    BY <1>1, <1>5, <1>7
  <1>8. QED
    BY <1>6, <1>7 DEF Config

\* containerInit appends the environment in the order of the layers and
\* sets each variable once, whatever the configuration.
LEMMA EnvOrdered ==
  ASSUME NEW cfg \in Config, NEW redirect \in BOOLEAN
  PROVE  Ordered(InitEnv(cfg, redirect))
  <1> DEFINE E1 == Opt(TRUE, 1) \o Opt(TRUE, 2)
             E2 == E1 \o Opt(cfg.tls, 3)
             E3 == E2 \o EnvLogin(cfg)
             E4 == E3 \o Opt(cfg.enableNamespaces, 7)
             E5 == E4 \o Opt(cfg.partition, 8)
  <1>1. InitEnv(cfg, redirect) = E5 \o Opt(redirect, 9)
    BY LayerNames DEF InitEnv, EnvLogin, Opt
  <1>2. /\ Opt(TRUE, 1) \in Seq(EnvVar) /\ Ordered(Opt(TRUE, 1)) /\ Within(Opt(TRUE, 1), 1, 1)
        /\ Opt(TRUE, 2) \in Seq(EnvVar) /\ Ordered(Opt(TRUE, 2)) /\ Within(Opt(TRUE, 2), 2, 2)
        /\ Opt(cfg.tls, 3) \in Seq(EnvVar) /\ Ordered(Opt(cfg.tls, 3))
        /\ Within(Opt(cfg.tls, 3), 3, 3)
        /\ Opt(cfg.enableNamespaces, 7) \in Seq(EnvVar) /\ Ordered(Opt(cfg.enableNamespaces, 7))
        /\ Within(Opt(cfg.enableNamespaces, 7), 7, 7)
        /\ Opt(cfg.partition, 8) \in Seq(EnvVar) /\ Ordered(Opt(cfg.partition, 8))
        /\ Within(Opt(cfg.partition, 8), 8, 8)
        /\ Opt(redirect, 9) \in Seq(EnvVar) /\ Ordered(Opt(redirect, 9))
        /\ Within(Opt(redirect, 9), 9, 9)
    <2>1. /\ cfg.tls \in BOOLEAN /\ cfg.enableNamespaces \in BOOLEAN /\ cfg.partition \in BOOLEAN
          /\ TRUE \in BOOLEAN /\ redirect \in BOOLEAN
          /\ 1 \in 1..9 /\ 2 \in 1..9 /\ 3 \in 1..9 /\ 7 \in 1..9 /\ 8 \in 1..9 /\ 9 \in 1..9
      BY DEF Config
    <2>2. QED
      BY <2>1, OptionalLayer, Zenon
  <1>a. /\ 1 <= 1 /\ 2 = 1 + 1 /\ 1 <= 2 /\ 3 = 2 + 1 /\ 2 <= 3 /\ 4 = 3 + 1 /\ 3 <= 6
        /\ 7 = 6 + 1 /\ 6 <= 7 /\ 8 = 7 + 1 /\ 7 <= 8 /\ 9 = 8 + 1 /\ 8 <= 9
        /\ 1 <= 3 /\ 1 <= 6 /\ 1 <= 7 /\ 1 <= 8
    OBVIOUS
  <1>3. E1 \in Seq(EnvVar) /\ Ordered(E1) /\ Within(E1, 1, 2)
    BY <1>2, <1>a, OrderedConcat, Zenon
  <1>4. E2 \in Seq(EnvVar) /\ Ordered(E2) /\ Within(E2, 1, 3)
    BY <1>2, <1>3, <1>a, OrderedConcat, Zenon
  <1>5. E3 \in Seq(EnvVar) /\ Ordered(E3) /\ Within(E3, 1, 6)
    BY <1>4, LoginOrdered, <1>a, OrderedConcat, Zenon
  <1>6. E4 \in Seq(EnvVar) /\ Ordered(E4) /\ Within(E4, 1, 7)
    BY <1>2, <1>5, <1>a, OrderedConcat, Zenon
  <1>7. E5 \in Seq(EnvVar) /\ Ordered(E5) /\ Within(E5, 1, 8)
    BY <1>2, <1>6, <1>a, OrderedConcat, Zenon
  <1>8. Ordered(E5 \o Opt(redirect, 9))
    BY <1>2, <1>7, <1>a, OrderedConcat, Zenon
  <1>9. QED
    BY <1>1, <1>8

\* containerInit (lines 60-213) appends the environment of the init
\* container layer after layer, identity, Consul endpoint, TLS, login,
\* namespace and partition passthrough, redirect config, and sets every
\* variable once, for every configuration, namespace and pod.
THEOREM EnvPrecedence == Spec => []EnvFollowsPrecedence
  <1>1. AdmitInv => EnvFollowsPrecedence
    <2> SUFFICES ASSUME AdmitInv, NEW c \in Built PROVE Ordered(c.env)
      BY DEF EnvFollowsPrecedence, Ordered
    <2>1. PICK m : c = ContainerInitOf(w, ns, pod, m)
                   /\ ContainerInitOf(w, ns, pod, m).err = "none"
      BY BuiltShape
    <2> DEFINE tp == TransparentProxyEnabled(ns, pod, w.enableTProxy).val
    <2>2. tp \in BOOLEAN /\ c.env = InitEnv(w, tp /\ ~w.enableCNI)
      BY <2>1, ContainerShape DEF AdmitInv
    <2>3. (tp /\ ~w.enableCNI) \in BOOLEAN /\ w \in Config
      BY <2>2 DEF AdmitInv
    <2>4. QED
      BY <2>2, <2>3, EnvOrdered
  <1>2. QED
    BY <1>1, AdmitInvariant, PTL

=============================================================================
