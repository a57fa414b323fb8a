------------------------------ MODULE InformerTicks ------------------------------
(***************************************************************************)
(* The informer with a history of each tick: what the store that a task    *)
(* copies from has held, and has lacked, since the task's tick began.      *)
(***************************************************************************)
EXTENDS Informer

VARIABLES
    offered,  \* tenants' groups that the origin has held in each task's tick
    lacked,   \* names of groups that it has lacked for a tenant
    calm      \* tasks that have met no mishap in their tick

history == <<offered, lacked, calm>>
tickVars == <<informerVars, history>>

\* What a task copies from; the tracker takes the zero tenant to have nothing.
Origin(task, t) ==
    IF task = "updater" THEN K8sGroups(t)
    ELSE IF t = ZeroTenant THEN {} ELSE ruler[t]

Held(task) == { gift \in Tenants \X Group : gift[2] \in Origin(task, gift[1]) }
Missing(task) ==
    { gap \in Tenants \X GroupNames : gap[2] \notin Names(Origin(task, gap[1])) }

InTick(task) == at[task] # "tick"

HistoryInit ==
    /\ offered = [task \in Tasks |-> {}]
    /\ lacked = [task \in Tasks |-> {}]
    /\ calm = Tasks

Remembers ==
    /\ offered' = [task \in Tasks |->
                     IF InTick(task)' THEN offered[task] \cup Held(task)' ELSE {}]
    /\ lacked' = [task \in Tasks |->
                    IF InTick(task)' THEN lacked[task] \cup Missing(task)' ELSE {}]
    /\ calm' = { task \in Tasks : InTick(task)' => task \in calm /\ mishaps' = mishaps }

TickInit == InformerInit /\ HistoryInit
TickNext == InformerNext /\ Remembers
TickSpec == TickInit /\ [][TickNext]_tickVars
LiveTickSpec == TickSpec /\ InformerFairness

-----------------------------------------------------------------------------

\* A task gives a tenant, or a resource, no group but one that the other store
\* has held for that tenant, or for one of the resource, while this tick has
\* lasted: nothing older is brought back, neither by a plan nor by the marking
\* of a resource as it was listed (updater.rs, 65-100; tracker.rs, 60-96).
CopiesWhatWasThere ==
    [][edits' = edits =>
        /\ \A t \in Tenants : \A g \in ruler'[t] \ ruler[t] : <<t, g>> \in offered["updater"]
        /\ \A n \in ResourceNames : \A g \in Groups(n)' \ Groups(n) :
              \E t \in resources'[n].tenants : <<t, g>> \in offered["tracker"]]_tickVars

\* In a tick without a mishap a task takes away no group but one that the other
\* store has lacked while the tick has lasted.  Of resources this leaves out the
\* two requests that carry no version (crud.rs, 165-187 and 219-260).
RemovesWhatWasGone ==
    [][edits' = edits =>
        /\ "updater" \in calm =>
              \A t \in Tenants : \A name \in Names(ruler[t]) \ Names(ruler'[t]) :
                  <<t, name>> \in lacked["updater"]
        /\ "tracker" \in calm =>
              \A n \in ResourceNames :
                  /\ Present(n) /\ ~Creates(n)
                  /\ resources'[n] = Absent => n \in fresh["tracker"]
                  => \A name \in Names(Groups(n)) \ Names(Groups(n)') :
                        \E t \in resources[n].tenants : <<t, name>> \in lacked["tracker"]]_tickVars
=============================================================================
