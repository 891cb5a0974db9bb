----------------------------- MODULE ProjectPlan -----------------------------
(***************************************************************************)
(* The plan of one project (project-plan-repository.ts): its items, their  *)
(* dependencies, and the dates that are derived from them.                 *)
(*                                                                         *)
(* A save reads the item and checks the dependencies first; a transaction  *)
(* writes the row and its dependencies later, and moves every item that is *)
(* scheduled automatically.  The page saves what its form holds.  The tool *)
(* of an assistant names the version it has read.  The transactions lock   *)
(* the rows of the project, so each one is a single step.                  *)
(***************************************************************************)
EXTENDS Integers, FiniteSets, SequencesExt

CONSTANTS
    Items,
    Forms,          \* saves of the page
    Assistants,     \* saves of an assistant
    Starts,         \* the days a user may plan an item for
    Lengths,        \* durations in days
    Phases,
    MaxSaves        \* bound: saves that begin

ASSUME PlanAssumption ==
    /\ Starts \subseteq Nat \ {0}
    /\ Lengths \subseteq Nat \ {0}
    /\ IsFiniteSet(Items)

VARIABLES
    plan,       \* project_plan_items
    deps,       \* project_plan_item_dependencies: <<predecessor, successor>>
    born,       \* the ids that were given to items
    run,        \* the saves under way
    newer,      \* saves whose item has another updated_at than they have read
    saves,      \* how many have begun
    loosened,   \* history: an item was deleted since the last save
    outdated,   \* history: saves whose check is older than a new dependency
    raced       \* history: one of them took effect

history == <<loosened, outdated, raced>>
vars == <<plan, deps, born, run, newer, saves, history>>

Requests == Forms \cup Assistants

\* Day 0 stands for no date.
Absent == [start |-> 0, end |-> 0, days |-> 0, auto |-> FALSE, phase |-> 0]
There(p) == {i \in Items : p[i] # Absent}
Inputs == [start : Starts \cup {0}, days : Lengths, auto : BOOLEAN,
           after : SUBSET Items]
Idle == [item |-> "none"]

Init ==
    /\ born \in SUBSET Items
    /\ \E days \in Lengths, phase \in Phases :
           plan = [i \in Items |->
                     IF i \in born
                     THEN [Absent EXCEPT !.days = days, !.phase = phase]
                     ELSE Absent]
    /\ deps = {}
    /\ run = [r \in Requests |-> Idle]
    /\ newer = {} /\ saves = 0
    /\ loosened = FALSE /\ outdated = {} /\ raced = FALSE

-----------------------------------------------------------------------------
(* Dependencies.                                                           *)

Before(d, i) == {q \in Items : <<q, i>> \in d}
Others(d, i) == {e \in d : e[2] # i}

PathOfOne(d, from, to) == from = to \/ <<from, to>> \in d

\* Whatever holds from and is closed under the dependencies holds to.
HasDependencyPath(d, from, to) ==
    \A S \in SUBSET Items :
        (from \in S /\ \A e \in d : e[1] \in S => e[2] \in S) => to \in S

-----------------------------------------------------------------------------
(* autoScheduleProjectPlan.                                                *)

\* Its predecessors all have dates.
Movable(p, d, i) ==
    /\ p[i].auto
    /\ Before(d, i) # {}
    /\ \A q \in Before(d, i) : p[q].end # 0

NextStart(p, d, i) == Max({p[q].end : q \in Before(d, i)}) + 1

InPlace(p, d, i) ==
    /\ p[i].start = NextStart(p, d, i)
    /\ p[i].end = p[i].start + p[i].days - 1

Moved(p, d, i) ==
    [p EXCEPT ![i].start = NextStart(p, d, i),
              ![i].end = NextStart(p, d, i) + p[i].days - 1]

\* The rows, and those of them that the transaction has written.
MoveUnnoticed(state, d, i) ==
    IF ~Movable(state.rows, d, i) \/ InPlace(state.rows, d, i) THEN state
    ELSE [state EXCEPT !.rows = Moved(@, d, i)]

Move(state, d, i) ==
    IF ~Movable(state.rows, d, i) \/ InPlace(state.rows, d, i) THEN state
    ELSE [rows |-> Moved(state.rows, d, i), written |-> state.written \cup {i}]

\* One pass over the rows, in the order they came in.
Pass(state, d, order) ==
    LET after[k \in 0..Len(order)] ==
            IF k = 0 THEN state ELSE Move(after[k - 1], d, order[k])
    IN  after[Len(order)]

\* As many passes as there are items.
OnePass(p) == 1
Passes(p) == Cardinality(There(p))

Schedule(state, d, order) ==
    LET passes == Passes(state.rows)
        after[n \in 0..passes] ==
            IF n = 0 THEN state ELSE Pass(after[n - 1], d, order)
    IN  after[passes]

Orders == [S \in SUBSET Items |-> SetToSeqs(S)]

\* Every row that is written gets a new updated_at.
Renewed(written) == {r \in Requests : run[r] # Idle /\ run[r].item \in written}

-----------------------------------------------------------------------------
(* saveStoredProjectPlanItem.                                              *)

Begin(r) == run[r] = Idle /\ saves < MaxSaves /\ saves' = saves + 1

\* The predecessors are other items of the project, and none of them comes after.
Accepted(i, after) ==
    /\ i \notin after
    /\ after \subseteq There(plan)
    /\ \A q \in after : ~HasDependencyPath(Others(deps, i), i, q)

\* The item is read, then what it depends on is checked: one step, since a change
\* of the row in between is found out, or overwritten, like a later one.
AskChange(r, i, input) ==
    /\ Begin(r)
    /\ plan[i] # Absent
    /\ Accepted(i, input.after)
    /\ run' = [run EXCEPT ![r] =
         [item |-> i, input |-> input, seen |-> plan[i], expects |-> r \in Assistants]]
    /\ UNCHANGED <<plan, deps, born, newer, history>>

\* A new item has a new id, and names no version.
AskCreate(r, i, input, phase) ==
    /\ Begin(r)
    /\ i \notin born
    /\ Accepted(i, input.after)
    /\ born' = born \cup {i}
    /\ run' = [run EXCEPT ![r] =
         [item |-> i, input |-> input, seen |-> [Absent EXCEPT !.phase = phase],
          expects |-> FALSE]]
    /\ UNCHANGED <<plan, deps, newer, history>>

\* The version is compared where there is a row; otherwise one is inserted.
Fits(r) ==
    /\ plan[run[r].item] # Absent /\ run[r].expects => r \notin newer
    /\ run[r].input.after \subseteq There(plan)

RowOf(r) ==
    LET input == run[r].input IN
    [start |-> input.start,
     end |-> IF input.start = 0 THEN 0 ELSE input.start + input.days - 1,
     days |-> input.days, auto |-> input.auto, phase |-> run[r].seen.phase]

Save(r) ==
    LET i == run[r].item
        edges == Others(deps, i) \cup {<<q, i>> : q \in run[r].input.after}
        state == [rows |-> [plan EXCEPT ![i] = RowOf(r)], written |-> {i}]
    IN
    /\ run[r] # Idle
    /\ Fits(r)
    /\ deps' = edges
    /\ \E order \in Orders[There(state.rows)] :
           LET done == Schedule(state, edges, order)
           IN  plan' = done.rows /\ newer' = (newer \cup Renewed(done.written)) \ {r}
    /\ run' = [run EXCEPT ![r] = Idle]
    /\ loosened' = FALSE
    /\ outdated' = (IF edges \subseteq deps THEN outdated
                    ELSE {s \in Requests : run[s] # Idle}) \ {r}
    /\ raced' = (raced \/ r \in outdated)
    /\ UNCHANGED <<born, saves>>

\* A conflict, a predecessor that is gone, or a lock that is not granted.
SaveFails(r) ==
    /\ run[r] # Idle
    /\ run' = [run EXCEPT ![r] = Idle]
    /\ newer' = newer \ {r}
    /\ outdated' = outdated \ {r}
    /\ UNCHANGED <<plan, deps, born, saves, loosened, raced>>

-----------------------------------------------------------------------------
\* deleteStoredProjectPlanItem: the dependencies go with the row.
Delete(i) ==
    /\ plan[i] # Absent
    /\ plan' = [plan EXCEPT ![i] = Absent]
    /\ deps' = {e \in deps : e[1] # i /\ e[2] # i}
    /\ loosened' = TRUE
    /\ UNCHANGED <<born, run, newer, saves, outdated, raced>>

\* reorderStoredProjectPlanItem numbers all the items of the phase.
Reorder(i, phase) ==
    /\ plan[i] # Absent
    /\ LET written == {i} \cup {j \in There(plan) : plan[j].phase = phase}
       IN  newer' = newer \cup Renewed(written)
    /\ plan' = [plan EXCEPT ![i].phase = phase]
    /\ UNCHANGED <<deps, born, run, saves, history>>

Next ==
    \/ \E r \in Requests, i \in Items, input \in Inputs :
           \/ AskChange(r, i, input)
           \/ \E phase \in Phases : AskCreate(r, i, input, phase)
    \/ \E r \in Requests : Save(r) \/ SaveFails(r)
    \/ \E i \in Items : \/ Delete(i)
                        \/ \E phase \in Phases : Reorder(i, phase)

Spec == Init /\ [][Next]_vars

-----------------------------------------------------------------------------
(* Correctness.                                                            *)

\* Every set of items has one that waits for no other of the set.
Acyclic ==
    \A S \in (SUBSET Items) \ {{}} : \E i \in S : Before(deps, i) \cap S = {}

\* After a save every automatic item starts on the day after its predecessors
\* have ended, however long the chain and in whatever order the rows were read:
\* the passes of autoScheduleProjectPlan are enough.  A deletion moves nothing.
PlanFollows ==
    ~loosened /\ Acyclic =>
        \A i \in There(plan) : Movable(plan, deps, i) => InPlace(plan, deps, i)

\* Saves that check after one another never close a cycle: "PLAN_DEPENDENCY_CYCLE".
LoneSavesStayAcyclic == ~raced => Acyclic

\* The update of an assistant replaces the item it has read, down to the dates
\* that other saves moved and the phase it was dragged to: docs/mcp-server.md:287
\* ("expectedUpdatedAt must equal the latest returned updatedAt").
SeenIsReplaced ==
    [][\A r \in Requests :
          (/\ run[r] # Idle /\ run'[r] = Idle /\ run[r].expects
           /\ plan[run[r].item] \notin {Absent, run[r].seen}) => ~Save(r)]_vars

\* The same for an item that was deleted meanwhile.
UpdatesNeedTheirItem ==
    [][\A r \in Requests :
          (run[r] # Idle /\ run[r].expects /\ plan[run[r].item] = Absent) => ~Save(r)]_vars

\* Roadmap PROJ-007: protection against circular dependencies, whatever races.
DependenciesAcyclic == Acyclic
=============================================================================
