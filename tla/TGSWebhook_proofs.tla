------------------------- MODULE TGSWebhook_proofs -------------------------
(***************************************************************************)
(* Proofs about TGSWebhook for every value of its constants.              *)
(***************************************************************************)
EXTENDS TGSWebhook, TLAPS

\* The default request record is well typed.
LEMMA NoObjType == NoObj \in Obj
<1>1. (CHOOSE k \in Keys : TRUE) \in Keys
  <2>1. Keys # {}
    <3>1. PICK a \in Namespaces, b \in Names : TRUE
      BY ConstAssumption
    <3>2. <<a, b>> \in Keys
      BY <3>1 DEF Keys
    <3>3. QED
      BY <3>2
  <2>2. QED
    BY <2>1
<1>2. (CHOOSE s \in Services : TRUE) \in Services
  BY ConstAssumption
<1>3. QED
  BY <1>1, <1>2 DEF NoObj, Obj

\* Every action keeps the variables well typed.
LEMMA TypeStep == TypeOK /\ [Next]_vars => TypeOK'
<1> SUFFICES ASSUME TypeOK, [Next]_vars PROVE TypeOK'
  OBVIOUS
<1>1. ASSUME NEW r \in Requests, NEW o \in Obj, Submit(r, o) PROVE TypeOK'
  BY <1>1 DEF Submit, TypeOK, Phases, Reasons
<1>2. ASSUME NEW r \in Requests, Handle(r) PROVE TypeOK'
  BY <1>2 DEF Handle, Reject, TypeOK, Phases, Reasons
<1>3. ASSUME NEW r \in Requests, Persist(r) PROVE TypeOK'
  BY <1>3 DEF Persist, CacheAfter, TypeOK, Obj, Phases, Reasons
<1>4. ASSUME NEW k \in Keys, Delete(k) PROVE TypeOK'
  BY <1>4 DEF Delete, CacheAfter, TypeOK
<1>5. ASSUME NEW k \in Keys, CacheSync(k) PROVE TypeOK'
  BY <1>5 DEF CacheSync, TypeOK
<1>6. CASE UNCHANGED vars
  BY <1>6 DEF vars, TypeOK
<1>7. QED
  BY <1>1, <1>2, <1>3, <1>4, <1>5, <1>6 DEF Next

\* The variables keep their types in every reachable state.
THEOREM TypeCorrect == Spec => []TypeOK
<1>1. Init => TypeOK
  BY NoObjType DEF Init, TypeOK, Phases, Reasons
<1>2. QED
  BY <1>1, TypeStep, PTL DEF Spec

-----------------------------------------------------------------------------
(* A duplicate rejection always cites a real conflict. The property is not *)
(* inductive by itself: the rejection is decided on the cache, so the      *)
(* strengthening says that every object the store or the cache holds is   *)
(* recorded in history; history only grows.                                *)

StoreInHistory == \A k \in Keys : store[k] # None => <<k, store[k]>> \in history
CacheInHistory == \A k \in Keys : cache[k] # None => <<k, cache[k]>> \in history

IInv == TypeOK /\ StoreInHistory /\ CacheInHistory /\ RejectionCitesRealConflict

\* A rejected duplicate is backed by a cached object of its namespace.
LEMMA DuplicateInHistory ==
    ASSUME TypeOK, CacheInHistory, NEW o \in Obj, Duplicates(o) # {}
    PROVE  \E h \in history : h[1][1] = o.key[1] /\ h[2] = o.svc
<1>1. PICK k \in Keys : cache[k] = o.svc /\ k[1] = o.key[1]
  BY DEF Duplicates
<1>2. cache[k] # None
  BY <1>1, ConstAssumption DEF Obj
<1>3. <<k, cache[k]>> \in history
  BY <1>2 DEF CacheInHistory
<1>4. QED
  BY <1>1, <1>3

\* The strengthened invariant holds initially and is kept by every step.
LEMMA IInvInductive == IInv /\ [Next]_vars => IInv'
<1> SUFFICES ASSUME IInv, [Next]_vars PROVE IInv'
  OBVIOUS
<1>0. TypeOK'
  BY TypeStep DEF IInv
<1>1. ASSUME NEW r \in Requests, NEW o \in Obj, Submit(r, o) PROVE IInv'
  BY <1>1, <1>0 DEF Submit, IInv, StoreInHistory, CacheInHistory, RejectionCitesRealConflict
<1>2. ASSUME NEW r \in Requests, Handle(r) PROVE IInv'
  <2>1. StoreInHistory' /\ CacheInHistory'
    BY <1>2 DEF Handle, Reject, IInv, StoreInHistory, CacheInHistory
  <2>2. RejectionCitesRealConflict'
    <3> SUFFICES ASSUME NEW q \in Requests, req'[q].reason = "duplicate"
                 PROVE  \E h \in history' : h[1][1] = req'[q].obj.key[1] /\ h[2] = req'[q].obj.svc
      BY DEF RejectionCitesRealConflict
    <3>1. CASE q = r /\ req[r].obj.op = "CREATE" /\ req[r].obj.valid
                    /\ Duplicates(req[r].obj) # {}
      BY <3>1, <1>2, DuplicateInHistory DEF IInv, TypeOK, Handle, Reject
    <3>2. CASE ~(q = r /\ req[r].obj.op = "CREATE" /\ req[r].obj.valid
                    /\ Duplicates(req[r].obj) # {})
      BY <3>2, <1>2 DEF IInv, TypeOK, Handle, Reject, RejectionCitesRealConflict
    <3>3. QED
      BY <3>1, <3>2
  <2>3. QED
    BY <1>0, <2>1, <2>2 DEF IInv
<1>3. ASSUME NEW r \in Requests, Persist(r) PROVE IInv'
  <2> DEFINE o == req[r].obj
  <2>1. o \in Obj
    BY DEF IInv, TypeOK
  <2>2. history \subseteq history'
    BY <1>3 DEF Persist
  <2>3. StoreInHistory'
    BY <1>3, <2>1 DEF Persist, IInv, TypeOK, StoreInHistory
  <2>4. CacheInHistory'
    BY <1>3, <2>1, <2>2 DEF Persist, CacheAfter, IInv, TypeOK, StoreInHistory, CacheInHistory
  <2>5. RejectionCitesRealConflict'
    BY <1>3, <2>2 DEF Persist, IInv, TypeOK, RejectionCitesRealConflict
  <2>6. QED
    BY <1>0, <2>3, <2>4, <2>5 DEF IInv
<1>4. ASSUME NEW k \in Keys, Delete(k) PROVE IInv'
  BY <1>4, <1>0 DEF Delete, CacheAfter, IInv, TypeOK, StoreInHistory, CacheInHistory,
                    RejectionCitesRealConflict
<1>5. ASSUME NEW k \in Keys, CacheSync(k) PROVE IInv'
  BY <1>5, <1>0 DEF CacheSync, IInv, TypeOK, StoreInHistory, CacheInHistory,
                    RejectionCitesRealConflict
<1>6. CASE UNCHANGED vars
  BY <1>6, <1>0 DEF vars, IInv, StoreInHistory, CacheInHistory, RejectionCitesRealConflict
<1>7. QED
  BY <1>1, <1>2, <1>3, <1>4, <1>5, <1>6 DEF Next

\* Handle never rejects a create as a duplicate unless an object of the
\* request's namespace really held that service name, however stale the
\* cache it read.
THEOREM RejectionSound == Spec => []RejectionCitesRealConflict
<1>1. Init => IInv
  BY NoObjType DEF Init, IInv, TypeOK, Phases, Reasons, StoreInHistory, CacheInHistory,
                  RejectionCitesRealConflict
<1>2. IInv => RejectionCitesRealConflict
  BY DEF IInv
<1>3. QED
  BY <1>1, <1>2, IInvInductive, PTL DEF Spec
=============================================================================
