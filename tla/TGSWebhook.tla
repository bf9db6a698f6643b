---------------------------- MODULE TGSWebhook ----------------------------
(***************************************************************************)
(* The mutating admission webhook for TerminatingGatewayService resources *)
(* (api/v1alpha1/terminatinggatewayservice_webhook.go), composed with the  *)
(* two parts of Kubernetes it talks to:                                    *)
(*   - the API server's store, which persists an object only after every  *)
(*     admission webhook has allowed it (Create fails with AlreadyExists,  *)
(*     Update with NotFound);                                              *)
(*   - the copy of the store that v.Client.List reads. Which client the   *)
(*     webhook is given is decided where it is registered, which is not   *)
(*     in this repository: with CacheLag = FALSE List reads the store     *)
(*     itself; with CacheLag = TRUE it reads a copy that follows the store *)
(*     one watch event at a time (a manager's cached client), so that a   *)
(*     property that holds with lag holds for either client.              *)
(* Several admission requests are in flight at once: the webhook server    *)
(* runs Handle on its own goroutine for each.                              *)
(* An object is identified by its key <<namespace, name>>; its data is the *)
(* service name it names (ServiceInfo().ServiceName).                      *)
(***************************************************************************)
EXTENDS Naturals, FiniteSets

CONSTANTS
    Names,        \* metadata.name values
    Namespaces,   \* metadata.namespace values
    Services,     \* spec service names
    Requests,     \* admission requests (each submitted at most once)
    MaxInFlight,  \* bound on admission requests pending at the same time
    CacheLag,     \* TRUE: the informer cache may lag behind the store
    Ops,          \* the operations clients submit, a subset of {"CREATE","UPDATE"}
    None          \* "no object"

ASSUME ConstAssumption ==
    /\ Names # {} /\ Namespaces # {} /\ Services # {}
    /\ MaxInFlight \in Nat \ {0}
    /\ CacheLag \in BOOLEAN
    /\ Ops \subseteq {"CREATE", "UPDATE"}
    /\ None \notin Services

Keys == Namespaces \X Names

\* The decoded object of an admission request. valid = FALSE stands for a
\* request that fails to decode or fails termGtwService.Validate().
Obj == [op : {"CREATE", "UPDATE"}, key : Keys, svc : Services, valid : BOOLEAN]

Phases == {"unsent", "pending", "allowed", "rejected", "done"}

\* Why a request ended the way it did.
Reasons == {"none", "invalid", "listError", "duplicate", "alreadyExists", "notFound"}

NoObj == [op |-> "CREATE", key |-> CHOOSE k \in Keys : TRUE,
          svc |-> CHOOSE s \in Services : TRUE, valid |-> FALSE]

VARIABLES
    store,    \* store[k]: the service name of the persisted object k, or None
    cache,    \* cache[k]: the informer cache's copy of store[k]
    req,      \* req[r]: the admission request r and how far it has got
    history   \* every <<key, service>> pair the store has ever held

vars == <<store, cache, req, history>>

TypeOK ==
    /\ store \in [Keys -> Services \cup {None}]
    /\ cache \in [Keys -> Services \cup {None}]
    /\ req \in [Requests -> [phase : Phases, obj : Obj, reason : Reasons]]
    /\ history \subseteq Keys \X Services

Init ==
    /\ store = [k \in Keys |-> None]
    /\ cache = [k \in Keys |-> None]
    /\ req = [r \in Requests |-> [phase |-> "unsent", obj |-> NoObj, reason |-> "none"]]
    /\ history = {}

InFlight == {r \in Requests : req[r].phase \in {"pending", "allowed"}}

\* The cache after a store write: the same write when the cache does not lag.
CacheAfter(newStore) == IF CacheLag THEN cache ELSE newStore

-----------------------------------------------------------------------------
(* Environment: clients and the API server.                                *)

\* A client sends a create or an update; an update is of an existing object.
Submit(r, o) ==
    /\ req[r].phase = "unsent"
    /\ Cardinality(InFlight) < MaxInFlight
    /\ o.op \in Ops
    /\ o.op = "UPDATE" => store[o.key] # None
    /\ req' = [req EXCEPT ![r] = [phase |-> "pending", obj |-> o, reason |-> "none"]]
    /\ UNCHANGED <<store, cache, history>>

\* The API server persists an allowed object, or fails the write.
Persist(r) ==
    LET o == req[r].obj
        ok == IF o.op = "CREATE" THEN store[o.key] = None ELSE store[o.key] # None
        newStore == [store EXCEPT ![o.key] = o.svc]
    IN  /\ req[r].phase = "allowed"
        /\ IF ok
              THEN /\ store' = newStore
                   /\ cache' = CacheAfter(newStore)
                   /\ history' = history \cup {<<o.key, o.svc>>}
                   /\ req' = [req EXCEPT ![r].phase = "done"]
              ELSE /\ req' = [req EXCEPT ![r].phase = "done",
                                         ![r].reason = IF o.op = "CREATE"
                                                       THEN "alreadyExists"
                                                       ELSE "notFound"]
                   /\ UNCHANGED <<store, cache, history>>

\* A client deletes an object (the webhook is not called for deletes).
Delete(k) ==
    LET newStore == [store EXCEPT ![k] = None]
    IN  /\ store[k] # None
        /\ store' = newStore
        /\ cache' = CacheAfter(newStore)
        /\ UNCHANGED <<req, history>>

\* The informer applies the latest watch event for object k.
CacheSync(k) ==
    /\ CacheLag
    /\ cache[k] # store[k]
    /\ cache' = [cache EXCEPT ![k] = store[k]]
    /\ UNCHANGED <<store, req, history>>

-----------------------------------------------------------------------------
(* The webhook: TerminatingGatewayServiceWebhook.Handle.                   *)

\* Variant of Duplicates that only looks at an item with the request's own
\* namespace AND name.
DuplicatesSameObject(o) == {k \in Keys : cache[k] = o.svc /\ k = o.key}

\* Variant of Duplicates that compares service names across namespaces.
DuplicatesAnyNamespace(o) == {k \in Keys : cache[k] = o.svc}

\* The listed items with the request's namespace and service name.
Duplicates(o) == {k \in Keys : cache[k] = o.svc /\ k[1] = o.key[1]}

Reject(r, why) ==
    /\ req' = [req EXCEPT ![r].phase = "rejected", ![r].reason = why]
    /\ UNCHANGED <<store, cache, history>>

Handle(r) ==
    LET o == req[r].obj IN
    /\ req[r].phase = "pending"
    /\ \/ /\ ~o.valid
          /\ Reject(r, "invalid")
       \/ /\ o.valid
          /\ o.op = "CREATE"
          /\ Reject(r, "listError")
       \/ /\ o.valid
          /\ o.op = "CREATE"
          /\ Duplicates(o) # {}
          /\ Reject(r, "duplicate")
       \/ /\ o.valid
          /\ o.op = "UPDATE" \/ Duplicates(o) = {}
          /\ req' = [req EXCEPT ![r].phase = "allowed"]
          /\ UNCHANGED <<store, cache, history>>

-----------------------------------------------------------------------------
Next ==
    \/ \E r \in Requests, o \in Obj : Submit(r, o)
    \/ \E r \in Requests : Handle(r) \/ Persist(r)
    \/ \E k \in Keys : Delete(k) \/ CacheSync(k)

Spec == Init /\ [][Next]_vars

-----------------------------------------------------------------------------
(* Properties.                                                             *)

\* The spec's uniqueness constraint: no two stored TerminatingGatewayService
\* objects in one namespace name the same service. Handle's List-and-compare
\* loop is what is meant to keep it.
UniqueServiceNames ==
    \A k1, k2 \in Keys :
        (k1 # k2 /\ k1[1] = k2[1] /\ store[k1] # None) => store[k1] # store[k2]

\* A create that Handle rejects as a duplicate names a service that some
\* object of the SAME namespace really held at some time: the check reads a
\* possibly stale cache, but never invents a conflict, and an object of
\* another namespace never blocks a create.
RejectionCitesRealConflict ==
    \A r \in Requests :
        req[r].reason = "duplicate" =>
            \E h \in history : h[1][1] = req[r].obj.key[1] /\ h[2] = req[r].obj.svc

=============================================================================
