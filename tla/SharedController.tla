--------------------------- MODULE SharedController ---------------------------
(***************************************************************************)
(* The static CONTROLLER of proxy/src/controller/controller.rs: the fields *)
(* of IngestionTenantController and the tokio::sync::RwLock around them,   *)
(* which is all that the poll loop and the request handlers share.         *)
(*                                                                         *)
(* The lock itself is a library (tokio 1.4): it is modelled from how the   *)
(* proxy uses it.  Requests are queued in the order they are made and only *)
(* the head of the queue is granted, so a writer that waits holds back     *)
(* every reader that asks after it.  At most MaxReaders readers hold the   *)
(* lock at a time.                                                         *)
(***************************************************************************)
EXTENDS Naturals, SequencesExt

CONSTANTS
    Procs,       \* the tasks that use the lock: the poll loop and the handlers
    Tenants,     \* tenant identifiers
    MaxReaders   \* permits of the lock's semaphore

ASSUME MaxReadersAssumption == MaxReaders \in Nat \ {0}

VARIABLES
    readers,          \* tasks holding a read guard
    writers,          \* tasks holding a write guard (never more than one)
    waiting,          \* FIFO queue of pending read().await and write().await
    initial_tenants,  \* tenants of the command line
    tenants,          \* tenants observed in Kubernetes
    tenants_vec,      \* the allow-list handlers borrow from get_tenants()
    stopping          \* stopping.is_some()

lockVars  == <<readers, writers, waiting>>
fieldVars == <<initial_tenants, tenants, tenants_vec, stopping>>

LockTypeOK ==
    /\ readers \in SUBSET Procs
    /\ writers \in SUBSET Procs
    /\ waiting \in Seq([proc : Procs, mode : {"read", "write"}])

FieldsTypeOK ==
    /\ initial_tenants \in SUBSET Tenants
    /\ tenants \in SUBSET Tenants
    /\ tenants_vec \in Seq(Tenants)
    /\ stopping \in BOOLEAN

LockInit == readers = {} /\ writers = {} /\ waiting = << >>

\* IngestionTenantController::new(); the fields clean() resets start alike.
EmptyController ==
    /\ initial_tenants = {}
    /\ tenants = {}
    /\ tenants_vec = << >>
    /\ stopping = FALSE

-----------------------------------------------------------------------------
(* The lock. *)

\* CONTROLLER.read().await or CONTROLLER.write().await is polled first.
Ask(p, m) ==
    /\ waiting' = Append(waiting, [proc |-> p, mode |-> m])
    /\ UNCHANGED <<readers, writers>>

\* Mutated: a lock that lets readers past a writer that waits.
GrantReadBarging ==
    /\ writers = {}
    /\ Cardinality(readers) < MaxReaders
    /\ \E i \in DOMAIN waiting :
          /\ waiting[i].mode = "read"
          /\ readers' = readers \cup {waiting[i].proc}
          /\ waiting' = RemoveAt(waiting, i)
    /\ UNCHANGED writers

GrantRead ==
    /\ waiting # << >>
    /\ Head(waiting).mode = "read"
    /\ writers = {}
    /\ Cardinality(readers) < MaxReaders
    /\ readers' = readers \cup {Head(waiting).proc}
    /\ waiting' = Tail(waiting)
    /\ UNCHANGED writers

GrantWrite ==
    /\ waiting # << >>
    /\ Head(waiting).mode = "write"
    /\ readers = {}
    /\ writers = {}
    /\ writers' = {Head(waiting).proc}
    /\ waiting' = Tail(waiting)
    /\ UNCHANGED readers

\* drop(guard), or the end of the guard's scope.
Release(p) ==
    /\ readers' = readers \ {p}
    /\ writers' = writers \ {p}
    /\ UNCHANGED waiting

\* The task is dropped while it waits: its place in the queue goes with it.
Withdraw(p) ==
    /\ \E i \in DOMAIN waiting :
          /\ waiting[i].proc = p
          /\ waiting' = RemoveAt(waiting, i)
    /\ UNCHANGED <<readers, writers>>

-----------------------------------------------------------------------------
(* Methods that change the fields; their callers hold the write guard.      *)

\* The set is de-duplicated by the HashSet; its iteration order is arbitrary.
set_initial_allowed_tenants(initial_allowed_tenants) ==
    /\ initial_tenants' = initial_tenants \cup initial_allowed_tenants
    /\ \E order \in Bijection(1 .. Cardinality(initial_tenants'), initial_tenants') :
          tenants_vec' = tenants_vec \o order
    /\ UNCHANGED <<tenants, stopping>>

add_tenant(t) ==
    /\ IF t \in initial_tenants \cup tenants
       THEN UNCHANGED <<tenants, tenants_vec>>
       ELSE /\ tenants_vec' = Append(tenants_vec, t)
            /\ tenants' = tenants \cup {t}
    /\ UNCHANGED <<initial_tenants, stopping>>

\* Mutated: the entry of the vector stays.
remove_tenant_from_set(t) ==
    /\ tenants' = tenants \ {t}
    /\ UNCHANGED <<initial_tenants, tenants_vec, stopping>>

\* Mutated: the entry is blanked rather than taken out.
remove_tenant_leaving_hole(t) ==
    /\ tenants' = tenants \ {t}
    /\ tenants_vec' = [i \in DOMAIN tenants_vec |->
                         IF tenants_vec[i] = t THEN {} ELSE tenants_vec[i]]
    /\ UNCHANGED <<initial_tenants, stopping>>

\* The loop over tenants_vec keeps the last index that matches.
remove_tenant(t) ==
    /\ IF t \in initial_tenants \/ t \notin tenants
       THEN UNCHANGED <<tenants, tenants_vec>>
       ELSE /\ tenants' = tenants \ {t}
            /\ \/ t \notin Range(tenants_vec) /\ UNCHANGED tenants_vec
               \/ \E idx \in DOMAIN tenants_vec :
                     /\ tenants_vec[idx] = t
                     /\ \A j \in DOMAIN tenants_vec : tenants_vec[j] = t => j <= idx
                     /\ tenants_vec' = RemoveAt(tenants_vec, idx)
    /\ UNCHANGED <<initial_tenants, stopping>>

clean ==
    /\ initial_tenants' = {}
    /\ tenants' = {}
    /\ tenants_vec' = << >>
    /\ stopping' = FALSE
=============================================================================
